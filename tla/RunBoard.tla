------------------------------ MODULE RunBoard ------------------------------
(***************************************************************************)
(* What the table `runs` promises, whoever writes to it: one row per       *)
(* execution of a channel, live while it waits or works and closed for     *)
(* good after, and never two live rows in one slot.  A slot is a channel   *)
(* and a kind, the key of the partial unique index uq_runs_one_live.       *)
(* Which end a closed row records is left to the detailed module: here a   *)
(* row that is closed is closed.                                           *)
(***************************************************************************)
EXTENDS FiniteSets

CONSTANTS Run,     \* the rows that may ever be inserted
          Slot     \* channel and kind, the key of uq_runs_one_live

VARIABLES slot,    \* the slot a row was inserted for
          stage    \* where the row stands

boardVars == <<slot, stage>>

Stage == {"none", "queued", "running", "closed"}

Live(r) == stage[r] \in {"queued", "running"}

BoardInit == /\ slot \in [Run -> Slot]
             /\ stage = [r \in Run |-> "none"]

(* A set of new rows is inserted at once, all queued or all running; no    *)
(* two of them share a slot, and none takes a slot that is live.           *)
Admit(R, how) ==
    /\ \A r \in R : stage[r] = "none"
    /\ stage' = [r \in Run |-> IF r \in R THEN how ELSE stage[r]]
    /\ slot' \in [Run -> Slot]
    /\ \A r \in Run \ R : slot'[r] = slot[r]
    /\ \A r \in R : /\ \A q \in R : slot'[q] = slot'[r] => q = r
                    /\ \A q \in Run : Live(q) => slot[q] # slot'[r]

(* A queued row is given a worker. *)
Begin(r) == /\ stage[r] = "queued"
            /\ stage' = [stage EXCEPT ![r] = "running"]
            /\ UNCHANGED slot

(* Live rows are closed: one by its worker, a person or the scheduler, or  *)
(* every running one by the sweep at startup.                              *)
Close(R) == /\ \A r \in R : Live(r)
            /\ stage' = [r \in Run |-> IF r \in R THEN "closed" ELSE stage[r]]
            /\ UNCHANGED slot

BoardNext == \/ \E R \in SUBSET Run, how \in {"queued", "running"} : Admit(R, how)
             \/ \E r \in Run : Begin(r)
             \/ \E R \in SUBSET Run : Close(R)

BoardSpec == BoardInit /\ [][BoardNext]_boardVars

-----------------------------------------------------------------------------
(* One live row per channel and kind, as the index of models.Run promises. *)
OneLive == \A r, q \in Run : Live(r) /\ Live(q) /\ slot[r] = slot[q] => r = q
=============================================================================
