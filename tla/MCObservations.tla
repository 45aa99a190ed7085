--------------------------- MODULE MCObservations ---------------------------
(* Values for the constants of Observations that a .cfg cannot write down. *)
EXTENDS Observations

OneChannel    == {1}
TwoChannels   == {1, 2}
CardsOnly     == {<<1, "quick">>}
PagesOnly     == {<<1, "full">>, <<1, "reparse">>}
PagesAndCards == PagesOnly \union {<<2, "quick">>}
=============================================================================
