------------------------------ MODULE MCReread ------------------------------
(* Values for the constants of Reread that a .cfg cannot write down. *)
EXTENDS Reread

TwoKeys       == {"phones", "tablets"}
ThreeListings == {1, 2, 3}
TwoAndOne     == [o \in ThreeListings |-> IF o = 3 THEN "tablets" ELSE "phones"]
OneBroken     == {"tablets"}
=============================================================================
