---------------------------- MODULE MCPlacement ----------------------------
(* Three listings: the first is known by quick passes alone and heads every *)
(* pass.  The others share entry a; the third, promoted, would make b.      *)
EXTENDS Placement, TLC

Listings == 1..3
NoReading == {1}
TwoNoReading == {1, 2}
Entries == {"a", "b"}
OneMore == {"a", "b", "c"}
FitsOf == (1 :> {"a"}) @@ (2 :> {"a"}) @@ (3 :> {"a", "b"})
OwnOf == (1 :> "a") @@ (2 :> "a") @@ (3 :> "b")
OneIntoOther == {<<"b", "a">>}
NoneMerged == {}
TheThird == {3}
Two == {2, 3}
All == {"set_manually", "keep", "unlink", "snooze", "match", "promote", "judge"}
OverAgain == {"set_manually", "match"}
MovesRows == {"set_manually", "unlink", "match", "promote", "judge"}
WhileAsked == {"set_manually", "judge"}
=============================================================================
