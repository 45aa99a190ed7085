------------------------------- MODULE MCRuns -------------------------------
(* Values for the constants of Runs that a .cfg cannot write down. *)
EXTENDS Runs

OneChannel  == {1}
TwoChannels == {1, 2}
WantedSome  == {<<1, "full">>, <<1, "quick">>}
BothAtOnce  == {{1, 2}}
FullOfOne   == {<<1, "full">>}
NoSelection == {}
Nobody      == {}
Cancels     == {"cancel"}
CancelOrReport == {"cancel", "good"}
NoSlots     == {}
=============================================================================
