----------------------------- MODULE RunsProofs -----------------------------
(***************************************************************************)
(* What holds of Runs for every value of its constants.                    *)
(***************************************************************************)
EXTENDS Runs, Ranks, FunctionTheorems

(* The types of Runs!TypeOK, by what the variables describe, and what else *)
(* keeps them: ids are given out in order, everybody names rows that were  *)
(* inserted, and a call of the loop names its run and where it returns to. *)
RowsOK ==
    /\ n \in 0..MaxRuns
    /\ slot \in [Run -> Slot]
    /\ status \in [Run -> Status]
    /\ finished \in [Run -> BOOLEAN]
    /\ phase \in [Run -> {"none", "settle_deferred", "settling", "settled", "unsettled"}]
    /\ owed \subseteq Run
    /\ \A r \in Run : finished[r] <=> status[r] \in Ended
    /\ \A r \in Run : status[r] = "none" <=> r > n

WorkersOK ==
    /\ proc \in [Run -> Alive \cup {"none", "exit0", "exit1", "gone"}]
    /\ slice \in [Run -> {"none", "fresh", "stale"}]
    /\ call \in [Run -> {"none", "batch", "good", "bad"}]
    /\ ask \in [Run -> SUBSET Requests]
    /\ \A r \in Run : r > n => proc[r] = "none" /\ call[r] = "none" /\ ask[r] = {}

Calls == {"spawn", "settling", "close", "closing"}
Backs == {"collect", "take", "start", "shutdown"}

PlaceOK ==
    /\ pc \in Calls \cup Backs \cup {"down", "reap", "doomed", "kill", "fail"}
    /\ cur \in 0..n
    /\ back \in Backs \cup {"none"}
    /\ pc \in Calls => cur # 0 /\ back # "none"
    /\ leaving \in BOOLEAN

ListsOK ==
    /\ todo \subseteq 1..n
    /\ held \subseteq 1..n
    /\ dues \subseteq Slot

LoopOK == PlaceOK /\ ListsOK

FaultsOK == faults \in 0..MaxFaults

Inductive == RowsOK /\ WorkersOK /\ LoopOK /\ FaultsOK

USE DEF Run, Kind, Slot, Ended, Status, Alive

LEMMA InductiveTypeOK == Inductive => TypeOK
  BY RunsAssumption DEF Inductive, RowsOK, WorkersOK, LoopOK, PlaceOK, ListsOK, FaultsOK,
     TypeOK, Calls, Backs

(* No row is there at first. *)
LEMMA InitInductive == Init => Inductive
<1>. SUFFICES ASSUME Init PROVE Inductive
  OBVIOUS
<1>1. (CHOOSE s \in Slot : TRUE) \in Slot
  <2>1. PICK c \in Channel : TRUE
    BY RunsAssumption
  <2>2. <<c, "full">> \in Slot
    OBVIOUS
  <2>. QED
    BY <2>2
<1>2. RowsOK
  BY <1>1, RunsAssumption DEF Init, RowsOK
<1>3. WorkersOK
  BY DEF Init, WorkersOK
<1>4. PlaceOK
  <2>1. cur \in 0..n
    BY DEF Init
  <2>. QED
    BY <2>1 DEF Init, PlaceOK, Calls, Backs
<1>5. ListsOK /\ FaultsOK
  BY RunsAssumption DEF Init, ListsOK, FaultsOK
<1>. QED
  BY <1>2, <1>3, <1>4, <1>5 DEF Inductive, LoopOK

(* What does not move keeps its part, as long as no row is taken away. *)
LEMMA RowsStay == RowsOK /\ UNCHANGED rows => RowsOK'
  BY DEF RowsOK, rows

LEMMA WorkersStay == WorkersOK /\ UNCHANGED <<n, worker, ask>> => WorkersOK'
  BY DEF WorkersOK, worker

LEMMA LoopStays == LoopOK /\ UNCHANGED <<n, loop>> => LoopOK'
  BY DEF LoopOK, PlaceOK, ListsOK, loop

LEMMA Ids == RowsOK => n \in Nat /\ 1..n \subseteq Run
  BY RunsAssumption DEF RowsOK

(* Closing a row that was inserted. *)
LEMMA CloseAsKeeps ==
    ASSUME RowsOK, NEW r \in 1..n, NEW how \in Ended, CloseAs(r, how)
    PROVE  RowsOK'
<1>1. r \in Run
  BY Ids
<1>2. /\ UNCHANGED <<n, slot, phase, owed>>
      /\ status' \in [Run -> Status]
      /\ finished' \in [Run -> BOOLEAN]
      /\ \A q \in Run : q # r => status'[q] = status[q] /\ finished'[q] = finished[q]
      /\ status'[r] \in Ended /\ finished'[r]
  BY <1>1 DEF RowsOK, CloseAs
<1>3. \A q \in Run : finished'[q] <=> status'[q] \in Ended
  BY <1>2 DEF RowsOK
<1>4. \A q \in Run : status'[q] = "none" <=> q > n'
  BY <1>2, Ids DEF RowsOK
<1>. QED
  BY <1>2, <1>3, <1>4 DEF RowsOK

LEMMA VerdictsEnd == \A what \in {"cancel", "good", "bad"} : Verdicts(what) \subseteq Ended
  BY DEF Verdicts

(* Killing the worker of a row that was inserted. *)
LEMMA GoneKeeps ==
    ASSUME RowsOK, WorkersOK, NEW r \in 1..n, Gone(r), UNCHANGED <<n, ask>>
    PROVE  WorkersOK'
<1>. n \in Nat /\ r \in Run
  BY Ids
<1>1. /\ proc' \in [Run -> Alive \cup {"none", "exit0", "exit1", "gone"}]
      /\ \A q \in Run : q # r => proc'[q] = proc[q]
  BY DEF WorkersOK, Gone, Goes
<1>2. slice' \in [Run -> {"none", "fresh", "stale"}]
  BY DEF WorkersOK, Gone, Lost
<1>3. call' = call
  BY DEF Gone
<1>. QED
  BY <1>1, <1>2, <1>3 DEF WorkersOK

(* The moves of the loop: into a call, out of it, and out of the loop. *)
LEMMA CallKeeps ==
    ASSUME RowsOK, LoopOK, NEW there \in Calls, NEW r \in 1..n, NEW then \in Backs,
           Call(there, r, then), todo' \subseteq todo, held' \subseteq held,
           UNCHANGED <<n, dues, leaving>>
    PROVE  LoopOK'
<1>1. PlaceOK'
  BY Ids DEF LoopOK, PlaceOK, Call, To, Calls, Backs
<1>2. ListsOK'
  BY DEF LoopOK, ListsOK
<1>. QED
  BY <1>1, <1>2 DEF LoopOK

LEMMA ReturnKeeps ==
    ASSUME RowsOK, LoopOK, pc \in Calls, Return, held' \subseteq 1..n,
           UNCHANGED <<n, todo, dues, leaving>>
    PROVE  LoopOK'
  BY Ids DEF LoopOK, PlaceOK, ListsOK, Return, To, Calls, Backs

LEMMA AbortKeeps ==
    ASSUME RowsOK, LoopOK, NEW left \in SUBSET held, Abort(left), held' \subseteq held, UNCHANGED n
    PROVE  LoopOK'
<1>1. PlaceOK'
  BY Ids DEF LoopOK, PlaceOK, Abort, To, Calls, Backs
<1>2. ListsOK'
  BY DEF LoopOK, ListsOK, Abort, To
<1>. QED
  BY <1>1, <1>2 DEF LoopOK

LEMMA EnqueueInductive ==
    ASSUME Inductive, NEW s \in Wanted, Enqueue(s)
    PROVE  Inductive'
<1>1. RowsOK'
  BY RunsAssumption DEF Inductive, RowsOK, rows, Enqueue, CanStart, Insert
<1>2. WorkersOK'
  BY RunsAssumption DEF Inductive, RowsOK, WorkersOK, rows, worker, Enqueue, CanStart, Insert
<1>3. LoopOK'
  BY RunsAssumption DEF Inductive, RowsOK, WorkersOK, LoopOK, PlaceOK, ListsOK, Calls, Backs,
     rows, loop, Enqueue, CanStart, Insert
<1>4. FaultsOK'
  BY RunsAssumption DEF Inductive, FaultsOK, Enqueue, CanStart, Insert
<1>. QED
  BY <1>1, <1>2, <1>3, <1>4 DEF Inductive

LEMMA AskInductive ==
    ASSUME Inductive, NEW r \in Run, NEW what \in Requests, Ask(r, what)
    PROVE  Inductive'
<1>1. WorkersOK'
  BY RunsAssumption DEF Inductive, RowsOK, WorkersOK, rows, worker, Ask
<1>. QED
  BY <1>1, RowsStay, LoopStays DEF Inductive, Ask, rows, FaultsOK

LEMMA AskCommitInductive ==
    ASSUME Inductive, NEW r \in Run, AskCommit(r)
    PROVE  Inductive'
<1>1. RowsOK'
  <2>1. PICK what \in ask[r] : \E how \in Verdicts(what) : CloseAs(r, how)
    BY DEF AskCommit
  <2>2. PICK how \in Verdicts(what) : CloseAs(r, how)
    BY <2>1
  <2>3. what \in {"cancel", "good", "bad"}
    BY <2>1, RunsAssumption DEF Inductive, WorkersOK
  <2>4. r \in 1..n /\ how \in Ended
    BY <2>1, <2>2, <2>3, VerdictsEnd DEF Inductive, RowsOK, WorkersOK
  <2>. QED
    BY <2>2, <2>4, CloseAsKeeps DEF Inductive
<1>2. WorkersOK'
  BY RunsAssumption DEF Inductive, RowsOK, WorkersOK, rows, worker, AskCommit, CloseAs, Verdicts
<1>3. LoopOK'
  BY RunsAssumption DEF Inductive, RowsOK, WorkersOK, LoopOK, PlaceOK, ListsOK, Calls, Backs,
     rows, loop, AskCommit, CloseAs, Verdicts
<1>. QED
  BY <1>1, <1>2, <1>3 DEF Inductive, FaultsOK, AskCommit

LEMMA BatchCommitInductive ==
    ASSUME Inductive, NEW r \in Run, BatchCommit(r)
    PROVE  Inductive'
<1>1. WorkersOK'
  BY RunsAssumption DEF Inductive, RowsOK, WorkersOK, rows, worker, BatchCommit, Goes
<1>. QED
  BY <1>1, RowsStay, LoopStays DEF Inductive, BatchCommit, rows, FaultsOK

LEMMA ReportCommitInductive ==
    ASSUME Inductive, NEW r \in Run, ReportCommit(r)
    PROVE  Inductive'
<1>1. RowsOK'
  <2>1. PICK how \in Verdicts(call[r]) : CloseAs(r, how)
    BY DEF ReportCommit
  <2>2. r \in 1..n /\ how \in Ended
    BY <2>1, VerdictsEnd DEF ReportCommit, Inductive, RowsOK, WorkersOK
  <2>. QED
    BY <2>1, <2>2, CloseAsKeeps DEF Inductive
<1>2. WorkersOK'
  <2>1. UNCHANGED <<n, slice, ask>>
    BY DEF ReportCommit, CloseAs
  <2>2. /\ call' \in [Run -> {"none", "batch", "good", "bad"}]
        /\ \A q \in Run : q # r => call'[q] = call[q]
    BY DEF ReportCommit, Inductive, WorkersOK
  <2>3. r \in 1..n
    BY DEF ReportCommit, Inductive, RowsOK, WorkersOK
  <2>4. /\ proc' \in [Run -> Alive \cup {"none", "exit0", "exit1", "gone"}]
        /\ \A q \in Run : q # r => proc'[q] = proc[q]
    <3>1. \/ UNCHANGED proc
          \/ \E to \in {"exit0", "exit1"} : proc' = [proc EXCEPT ![r] = to]
      BY DEF ReportCommit, Goes
    <3>. QED
      BY <3>1 DEF Inductive, WorkersOK
  <2>. QED
    BY <2>1, <2>2, <2>3, <2>4, Ids DEF Inductive, WorkersOK
<1>3. LoopOK'
  BY RunsAssumption DEF Inductive, RowsOK, WorkersOK, LoopOK, PlaceOK, ListsOK, Calls, Backs,
     rows, loop, ReportCommit, CloseAs, Verdicts, Goes, IsAlive
<1>. QED
  BY <1>1, <1>2, <1>3 DEF Inductive, FaultsOK, ReportCommit

LEMMA ReadSliceInductive ==
    ASSUME Inductive, NEW r \in Run, ReadSlice(r)
    PROVE  Inductive'
<1>1. WorkersOK'
  BY RunsAssumption DEF Inductive, RowsOK, WorkersOK, rows, worker, ReadSlice
<1>. QED
  BY <1>1, RowsStay, LoopStays DEF Inductive, ReadSlice, rows, FaultsOK

LEMMA HandOverInductive ==
    ASSUME Inductive, NEW r \in Run, HandOver(r)
    PROVE  Inductive'
<1>1. WorkersOK'
  <2>1. UNCHANGED <<n, ask>>
    BY DEF HandOver, rows
  <2>2. r \in 1..n
    BY DEF HandOver, Inductive, RowsOK, WorkersOK
  <2>3. CASE UNCHANGED call
    BY <2>1, <2>2, <2>3 DEF HandOver, Goes, Inductive, WorkersOK
  <2>4. CASE call' = [call EXCEPT ![r] = "batch"] /\ UNCHANGED <<proc, slice>>
    BY <2>1, <2>2, <2>4, Ids DEF Inductive, WorkersOK
  <2>. QED
    BY <2>3, <2>4 DEF HandOver
<1>. QED
  BY <1>1, RowsStay, LoopStays DEF Inductive, HandOver, rows, FaultsOK

LEMMA CollectedInductive ==
    ASSUME Inductive, NEW r \in Run, Collected(r)
    PROVE  Inductive'
<1>1. WorkersOK'
  BY RunsAssumption DEF Inductive, RowsOK, WorkersOK, rows, worker, Collected, Goes
<1>. QED
  BY <1>1, RowsStay, LoopStays DEF Inductive, Collected, rows, FaultsOK

LEMMA ReportInductive ==
    ASSUME Inductive, NEW r \in Run, Report(r)
    PROVE  Inductive'
<1>1. WorkersOK'
  BY RunsAssumption DEF Inductive, RowsOK, WorkersOK, rows, worker, Report, Goes
<1>. QED
  BY <1>1, RowsStay, LoopStays DEF Inductive, Report, rows, FaultsOK

LEMMA DieInductive ==
    ASSUME Inductive, NEW r \in Run, Die(r)
    PROVE  Inductive'
<1>1. WorkersOK'
  BY RunsAssumption DEF Inductive, RowsOK, WorkersOK, rows, worker, Die, Goes, Lost, IsAlive
<1>. QED
  BY <1>1, RowsStay, LoopStays DEF Inductive, Die, rows, FaultsOK

LEMMA StartInductive ==
    ASSUME Inductive, Start
    PROVE  Inductive'
<1>1. RowsOK'
  BY RunsAssumption DEF Inductive, RowsOK, rows, Start, At, To
<1>2. WorkersOK'
  BY RunsAssumption DEF Inductive, RowsOK, WorkersOK, rows, worker, Start, At, To
<1>3. LoopOK'
  BY RunsAssumption DEF Inductive, RowsOK, WorkersOK, LoopOK, PlaceOK, ListsOK, Calls, Backs,
     rows, loop, Start, At, To
<1>. QED
  BY <1>1, <1>2, <1>3 DEF Inductive, FaultsOK, Start

LEMMA ReapAskInductive ==
    ASSUME Inductive, ReapAsk
    PROVE  Inductive'
<1>1. LoopOK'
  <2>1. /\ pc' \in {"collect", "doomed"} /\ todo' \subseteq held
        /\ UNCHANGED <<n, dues, cur, back, held, leaving>>
    BY DEF ReapAsk, To, rows
  <2>. QED
    BY <2>1 DEF Inductive, LoopOK, PlaceOK, ListsOK, Calls, Backs
<1>. QED
  BY <1>1, RowsStay, WorkersStay DEF Inductive, ReapAsk, rows, FaultsOK

LEMMA ReapAnswerInductive ==
    ASSUME Inductive, ReapAnswer
    PROVE  Inductive'
<1>1. LoopOK'
  <2>1. /\ pc' \in {"collect", "kill"} /\ todo' \subseteq held \cup todo
        /\ UNCHANGED <<n, dues, cur, back, held, leaving>>
    BY DEF ReapAnswer, To, rows
  <2>. QED
    BY <2>1 DEF Inductive, LoopOK, PlaceOK, ListsOK, Calls, Backs
<1>. QED
  BY <1>1, RowsStay, WorkersStay DEF Inductive, ReapAnswer, rows, FaultsOK

LEMMA KillCancelledInductive ==
    ASSUME Inductive, KillCancelled
    PROVE  Inductive'
<1>1. WorkersOK'
  <2>1. PICK r \in todo : Gone(r)
    BY DEF KillCancelled
  <2>2. r \in 1..n
    BY <2>1 DEF Inductive, LoopOK, PlaceOK, ListsOK, RowsOK
  <2>. QED
    BY <2>1, <2>2, GoneKeeps DEF Inductive, KillCancelled, rows
<1>2. LoopOK'
  <2>1. PICK r \in todo : /\ held' = held \ {r}
                         /\ \/ /\ pc' \in {"collect", "kill"}
                               /\ todo' \subseteq held \cup todo
                               /\ UNCHANGED <<dues, cur, back, leaving>>
                            \/ Abort(held \ {r})
    BY DEF KillCancelled, Drop, To
  <2>2. UNCHANGED n
    BY DEF KillCancelled, rows
  <2>3. CASE Abort(held \ {r})
    BY <2>1, <2>2, <2>3, AbortKeeps DEF Inductive
  <2>4. CASE ~Abort(held \ {r})
    BY <2>1, <2>2, <2>4 DEF Inductive, LoopOK, PlaceOK, ListsOK, Calls, Backs
  <2>. QED
    BY <2>3, <2>4
<1>. QED
  BY <1>1, <1>2, RowsStay DEF Inductive, KillCancelled, FaultsOK

LEMMA CollectAliveInductive ==
    ASSUME Inductive, NEW r \in Run, CollectAlive(r)
    PROVE  Inductive'
<1>1. LoopOK'
  BY RunsAssumption DEF Inductive, RowsOK, WorkersOK, LoopOK, PlaceOK, ListsOK, Calls, Backs,
     rows, loop, CollectAlive, At
<1>. QED
  BY <1>1, RowsStay, WorkersStay DEF Inductive, CollectAlive, rows, FaultsOK

LEMMA CollectOverdueInductive ==
    ASSUME Inductive, NEW r \in Run, CollectOverdue(r)
    PROVE  Inductive'
<1>1. WorkersOK'
  <2>1. r \in 1..n /\ Gone(r) /\ UNCHANGED <<n, ask>>
    BY DEF Inductive, LoopOK, PlaceOK, ListsOK, CollectOverdue, rows
  <2>. QED
    BY <2>1, GoneKeeps DEF Inductive
<1>2. LoopOK'
  <2>1. /\ Call("close", r, "collect") /\ r \in 1..n
        /\ todo' \subseteq todo /\ held' \subseteq held /\ UNCHANGED <<n, dues, leaving>>
    BY DEF CollectOverdue, Drop, rows, Inductive, LoopOK, PlaceOK, ListsOK
  <2>. QED
    BY <2>1, CallKeeps DEF Inductive, Calls, Backs
<1>. QED
  BY <1>1, <1>2, RowsStay DEF Inductive, CollectOverdue, FaultsOK

LEMMA CollectBrokenInductive ==
    ASSUME Inductive, NEW r \in Run, CollectBroken(r)
    PROVE  Inductive'
<1>1. WorkersOK'
  <2>1. r \in 1..n /\ Gone(r) /\ UNCHANGED <<n, ask>>
    BY DEF Inductive, LoopOK, PlaceOK, ListsOK, CollectBroken, rows
  <2>. QED
    BY <2>1, GoneKeeps DEF Inductive
<1>2. LoopOK'
  <2>1. /\ Call("close", r, "collect") /\ r \in 1..n
        /\ todo' \subseteq todo /\ held' \subseteq held /\ UNCHANGED <<n, dues, leaving>>
    BY DEF CollectBroken, Drop, rows, Inductive, LoopOK, PlaceOK, ListsOK
  <2>. QED
    BY <2>1, CallKeeps DEF Inductive, Calls, Backs
<1>. QED
  BY <1>1, <1>2, RowsStay DEF Inductive, CollectBroken, FaultsOK

LEMMA CollectDeferredInductive ==
    ASSUME Inductive, NEW r \in Run, CollectDeferred(r)
    PROVE  Inductive'
<1>1. RowsOK'
  BY RunsAssumption DEF Inductive, RowsOK, rows, CollectDeferred, At, Drop, Gone, Goes, Lost
<1>2. WorkersOK'
  <2>1. r \in 1..n /\ Gone(r) /\ UNCHANGED <<n, ask>>
    BY DEF Inductive, LoopOK, PlaceOK, ListsOK, CollectDeferred
  <2>. QED
    BY <2>1, GoneKeeps DEF Inductive
<1>3. LoopOK'
  BY RunsAssumption DEF Inductive, RowsOK, WorkersOK, LoopOK, PlaceOK, ListsOK, Calls, Backs,
     rows, loop, CollectDeferred, At, Drop, Gone, Goes, Lost
<1>. QED
  BY <1>1, <1>2, <1>3 DEF Inductive, FaultsOK, CollectDeferred

LEMMA CollectWellInductive ==
    ASSUME Inductive, NEW r \in Run, CollectWell(r)
    PROVE  Inductive'
<1>1. RowsOK'
  BY RunsAssumption DEF Inductive, RowsOK, rows, CollectWell, At, To, Drop, Gone, Goes, Lost,
     Call
<1>2. WorkersOK'
  <2>1. r \in 1..n /\ Gone(r) /\ UNCHANGED <<n, ask>>
    BY DEF Inductive, LoopOK, PlaceOK, ListsOK, CollectWell
  <2>. QED
    BY <2>1, GoneKeeps DEF Inductive
<1>3. LoopOK'
  BY RunsAssumption DEF Inductive, RowsOK, WorkersOK, LoopOK, PlaceOK, ListsOK, Calls, Backs,
     rows, loop, CollectWell, At, To, Drop, Gone, Goes, Lost, Call
<1>. QED
  BY <1>1, <1>2, <1>3 DEF Inductive, FaultsOK, CollectWell

LEMMA CollectFailsInductive ==
    ASSUME Inductive, NEW r \in Run, CollectFails(r)
    PROVE  Inductive'
<1>1. WorkersOK'
  <2>1. r \in 1..n /\ Gone(r) /\ UNCHANGED <<n, ask>>
    BY DEF Inductive, LoopOK, PlaceOK, ListsOK, CollectFails, rows
  <2>. QED
    BY <2>1, GoneKeeps DEF Inductive
<1>2. LoopOK'
  <2>1. Abort(held \ {r}) /\ held' = held \ {r} /\ UNCHANGED n
    BY DEF CollectFails, Drop, rows
  <2>. QED
    BY <2>1, AbortKeeps DEF Inductive
<1>3. FaultsOK'
  BY RunsAssumption DEF Inductive, FaultsOK, CollectFails, At, To, Drop, Gone, Goes, Lost, Abort
<1>. QED
  BY <1>1, <1>2, <1>3, RowsStay DEF Inductive, CollectFails

LEMMA SettleEndInductive ==
    ASSUME Inductive, SettleEnd
    PROVE  Inductive'
<1>1. RowsOK'
  BY RunsAssumption DEF Inductive, RowsOK, rows, SettleEnd, At, To, Return
<1>2. WorkersOK'
  BY RunsAssumption DEF Inductive, RowsOK, WorkersOK, rows, worker, SettleEnd, At, To, Return
<1>3. LoopOK'
  BY RunsAssumption DEF Inductive, RowsOK, WorkersOK, LoopOK, PlaceOK, ListsOK, Calls, Backs,
     rows, loop, SettleEnd, At, To, Return
<1>4. FaultsOK'
  BY RunsAssumption DEF Inductive, FaultsOK, SettleEnd, At, To, Return
<1>. QED
  BY <1>1, <1>2, <1>3, <1>4 DEF Inductive

LEMMA CloseReadInductive ==
    ASSUME Inductive, CloseRead
    PROVE  Inductive'
<1>1. LoopOK'
  BY RunsAssumption DEF Inductive, RowsOK, WorkersOK, LoopOK, PlaceOK, ListsOK, Calls, Backs,
     rows, loop, CloseRead, At, To, Return
<1>. QED
  BY <1>1, RowsStay, WorkersStay DEF Inductive, CloseRead, rows, FaultsOK

LEMMA CloseCommitInductive ==
    ASSUME Inductive, CloseCommit
    PROVE  Inductive'
<1>1. RowsOK'
  BY CloseAsKeeps DEF Inductive, LoopOK, PlaceOK, ListsOK, CloseCommit, At, Calls
<1>2. WorkersOK'
  BY RunsAssumption DEF Inductive, RowsOK, WorkersOK, rows, worker, CloseCommit, CloseAs, At,
     To, Return
<1>3. LoopOK'
  BY ReturnKeeps DEF Inductive, LoopOK, PlaceOK, ListsOK, CloseCommit, CloseAs, At, Calls
<1>. QED
  BY <1>1, <1>2, <1>3 DEF Inductive, FaultsOK, CloseCommit

LEMMA TickInductive ==
    ASSUME Inductive, Tick
    PROVE  Inductive'
<1>1. LoopOK'
  <2>1. /\ pc' \in {"take", "reap"} /\ todo' \subseteq todo \cup Queued
        /\ UNCHANGED <<n, dues, cur, back, held, leaving>>
    BY DEF Tick, To, rows
  <2>2. Queued \subseteq 1..n
    BY DEF Queued, Inductive, RowsOK
  <2>. QED
    BY <2>1, <2>2 DEF Inductive, LoopOK, PlaceOK, ListsOK, Calls, Backs
<1>. QED
  BY <1>1, RowsStay, WorkersStay DEF Inductive, Tick, rows, FaultsOK

LEMMA TakeInductive ==
    ASSUME Inductive, Take
    PROVE  Inductive'
<1>1. RowsOK'
  <2>1. PICK r \in todo : \/ status[r] = "queued" /\ status' = [status EXCEPT ![r] = "running"]
                         \/ UNCHANGED status
    BY DEF Take
  <2>2. r \in Run /\ n \in Nat
    BY <2>1, Ids DEF Inductive, LoopOK, PlaceOK, ListsOK
  <2>3. UNCHANGED <<n, slot, finished, phase, owed>>
    BY DEF Take
  <2>4. CASE UNCHANGED status
    BY <2>3, <2>4, RowsStay DEF Inductive, rows
  <2>5. CASE status[r] = "queued" /\ status' = [status EXCEPT ![r] = "running"]
    BY <2>2, <2>3, <2>5 DEF Inductive, RowsOK
  <2>. QED
    BY <2>1, <2>4, <2>5
<1>2. WorkersOK'
  BY RunsAssumption DEF Inductive, RowsOK, WorkersOK, rows, worker, Take, Call, At, To
<1>3. LoopOK'
  BY RunsAssumption DEF Inductive, RowsOK, WorkersOK, LoopOK, PlaceOK, ListsOK, Calls, Backs,
     rows, loop, Take, Call, At, To
<1>. QED
  BY <1>1, <1>2, <1>3 DEF Inductive, FaultsOK, Take

LEMMA DueInductive ==
    ASSUME Inductive, Due
    PROVE  Inductive'
<1>1. LoopOK'
  BY RunsAssumption DEF Inductive, RowsOK, WorkersOK, LoopOK, PlaceOK, ListsOK, Calls, Backs,
     rows, loop, Due, At, To
<1>. QED
  BY <1>1, RowsStay, WorkersStay DEF Inductive, Due, rows, FaultsOK

LEMMA StartDueInductive ==
    ASSUME Inductive, StartDue
    PROVE  Inductive'
<1>1. RowsOK'
  <2>1. CASE UNCHANGED rows
    BY <2>1, RowsStay DEF Inductive
  <2>2. CASE \E s \in dues : CanStart(s) /\ Insert(s, "running")
    BY <2>2, RunsAssumption DEF Inductive, RowsOK, LoopOK, PlaceOK, ListsOK, CanStart, Insert
  <2>. QED
    BY <2>1, <2>2 DEF StartDue
<1>2. WorkersOK'
  BY RunsAssumption DEF Inductive, RowsOK, WorkersOK, rows, worker, StartDue, CanStart,
     Insert, Call, At, To
<1>3. LoopOK'
  BY RunsAssumption DEF Inductive, RowsOK, WorkersOK, LoopOK, PlaceOK, ListsOK, Calls, Backs,
     rows, loop, StartDue, CanStart, Insert, Call, At, To
<1>. QED
  BY <1>1, <1>2, <1>3 DEF Inductive, FaultsOK, StartDue

LEMMA TickDoneInductive ==
    ASSUME Inductive, TickDone
    PROVE  Inductive'
<1>1. LoopOK'
  BY RunsAssumption DEF Inductive, RowsOK, WorkersOK, LoopOK, PlaceOK, ListsOK, Calls, Backs,
     rows, loop, TickDone, At, To
<1>. QED
  BY <1>1, RowsStay, WorkersStay DEF Inductive, TickDone, rows, FaultsOK

LEMMA SpawnInductive ==
    ASSUME Inductive, Spawn
    PROVE  Inductive'
<1>1. WorkersOK'
  <2>1. UNCHANGED <<n, slice, call, ask>>
    BY DEF Spawn, rows
  <2>2. cur \in 1..n
    BY DEF Spawn, At, Inductive, LoopOK, PlaceOK, ListsOK, RowsOK, Calls
  <2>3. /\ proc' \in [Run -> Alive \cup {"none", "exit0", "exit1", "gone"}]
        /\ \A q \in Run : q # cur => proc'[q] = proc[q]
    <3>1. UNCHANGED proc \/ proc' = [proc EXCEPT ![cur] = "reading"]
      BY DEF Spawn, Goes
    <3>. QED
      BY <3>1 DEF Inductive, WorkersOK
  <2>. QED
    BY <2>1, <2>2, <2>3, Ids DEF Inductive, WorkersOK
<1>2. LoopOK'
  <2>1. /\ pc = "spawn"
        /\ UNCHANGED <<n, todo, dues, leaving>>
        /\ \/ held' = held \cup {cur} /\ Return
           \/ pc' = "close" /\ UNCHANGED <<held, cur, back>>
    BY DEF Spawn, At, To, rows
  <2>2. CASE held' = held \cup {cur} /\ Return
    <3>1. cur \in 1..n
      BY <2>1 DEF Inductive, LoopOK, PlaceOK, ListsOK, RowsOK, Calls
    <3>2. held' \subseteq 1..n
      BY <2>2, <3>1 DEF Inductive, LoopOK, PlaceOK, ListsOK
    <3>. QED
      BY <2>1, <2>2, <3>2, ReturnKeeps DEF Inductive, Calls
  <2>3. CASE pc' = "close" /\ UNCHANGED <<held, cur, back>>
    BY <2>1, <2>3 DEF Inductive, LoopOK, PlaceOK, ListsOK, Calls, Backs
  <2>. QED
    BY <2>1, <2>2, <2>3
<1>. QED
  BY <1>1, <1>2, RowsStay DEF Inductive, Spawn, FaultsOK

LEMMA ShutdownOneInductive ==
    ASSUME Inductive, ShutdownOne
    PROVE  Inductive'
<1>1. WorkersOK'
  <2>1. PICK r \in todo : UNCHANGED worker \/ Gone(r)
    BY DEF ShutdownOne
  <2>2. r \in 1..n /\ UNCHANGED <<n, ask>>
    BY <2>1 DEF Inductive, LoopOK, PlaceOK, ListsOK, RowsOK, ShutdownOne, rows
  <2>. QED
    BY <2>1, <2>2, GoneKeeps, WorkersStay DEF Inductive
<1>2. LoopOK'
  <2>1. PICK r \in todo : /\ todo' = todo \ {r}
                         /\ \/ UNCHANGED <<pc, held, cur, back>>
                            \/ Drop(r) /\ Call("close", r, "shutdown")
    BY DEF ShutdownOne
  <2>2. r \in 1..n /\ UNCHANGED <<n, dues, leaving>>
    BY <2>1 DEF Inductive, LoopOK, PlaceOK, ListsOK, ShutdownOne, rows
  <2>3. CASE UNCHANGED <<pc, held, cur, back>>
    BY <2>1, <2>2, <2>3 DEF Inductive, LoopOK, PlaceOK, ListsOK
  <2>4. CASE Drop(r) /\ Call("close", r, "shutdown")
    BY <2>1, <2>2, <2>4, CallKeeps DEF Inductive, Drop, Calls, Backs
  <2>. QED
    BY <2>1, <2>3, <2>4
<1>. QED
  BY <1>1, <1>2, RowsStay DEF Inductive, ShutdownOne, FaultsOK

LEMMA ShutdownDoneInductive ==
    ASSUME Inductive, ShutdownDone
    PROVE  Inductive'
<1>1. LoopOK'
  BY RunsAssumption DEF Inductive, RowsOK, WorkersOK, LoopOK, PlaceOK, ListsOK, Calls, Backs,
     rows, loop, ShutdownDone, At, To
<1>. QED
  BY <1>1, RowsStay, WorkersStay DEF Inductive, ShutdownDone, rows, FaultsOK

LEMMA ReleaseInductive ==
    ASSUME Inductive, Release
    PROVE  Inductive'
<1>1. LoopOK'
  BY RunsAssumption DEF Inductive, RowsOK, WorkersOK, LoopOK, PlaceOK, ListsOK, Calls, Backs,
     rows, loop, Release, At, To
<1>. QED
  BY <1>1, RowsStay, WorkersStay DEF Inductive, Release, rows, FaultsOK

LEMMA StopInductive ==
    ASSUME Inductive, Stop
    PROVE  Inductive'
<1>1. LoopOK'
  BY RunsAssumption DEF Inductive, RowsOK, WorkersOK, LoopOK, PlaceOK, ListsOK, Calls, Backs,
     rows, loop, Stop, At, To
<1>2. FaultsOK'
  BY RunsAssumption DEF Inductive, FaultsOK, Stop, At, To
<1>. QED
  BY <1>1, <1>2, RowsStay, WorkersStay DEF Inductive, Stop, rows

LEMMA RaiseInductive ==
    ASSUME Inductive, Raise
    PROVE  Inductive'
<1>1. LoopOK'
  BY AbortKeeps DEF Inductive, Raise, rows
<1>2. FaultsOK'
  BY RunsAssumption DEF Inductive, FaultsOK, Raise, Abort, InDatabase, To
<1>. QED
  BY <1>1, <1>2, RowsStay, WorkersStay DEF Inductive, Raise, rows

LEMMA ExitInductive ==
    ASSUME Inductive, Exit, FaultsOK'
    PROVE  Inductive'
<1>1. WorkersOK'
  <2>1. UNCHANGED <<n, call, ask>>
    BY DEF Exit, rows
  <2>2. /\ proc' \in [Run -> Alive \cup {"none", "exit0", "exit1", "gone"}]
        /\ \A q \in Run : proc[q] = "none" => proc'[q] = "none"
    BY DEF Exit, Inductive, WorkersOK, IsAlive
  <2>3. slice' \in [Run -> {"none", "fresh", "stale"}]
    BY DEF Exit, Inductive, WorkersOK
  <2>. QED
    BY <2>1, <2>2, <2>3, Ids DEF Inductive, WorkersOK
<1>2. LoopOK'
  <2>1. /\ pc' = "down" /\ held' = {} /\ todo' = {} /\ dues' = {}
        /\ cur' = 0 /\ back' = "none" /\ leaving' = FALSE /\ UNCHANGED n
    BY DEF Exit, To, rows
  <2>2. PlaceOK'
    <3>1. cur' \in 0..n'
      BY <2>1, Ids DEF Inductive
    <3>. QED
      BY <2>1, <3>1 DEF PlaceOK, Calls, Backs
  <2>3. ListsOK'
    BY <2>1 DEF ListsOK
  <2>. QED
    BY <2>2, <2>3 DEF LoopOK
<1>3. FaultsOK'
  OBVIOUS
<1>. QED
  BY <1>1, <1>2, <1>3, RowsStay DEF Inductive, Exit

LEMMA RollbackInductive ==
    ASSUME Inductive, NEW r \in Run, Rollback(r)
    PROVE  Inductive'
<1>1. WorkersOK'
  <2>1. UNCHANGED n
    BY DEF Rollback, rows
  <2>2. CASE UNCHANGED worker
    <3>1. PICK what \in ask[r] : ask' = [ask EXCEPT ![r] = @ \ {what}]
      BY <2>2 DEF Rollback, worker, Inductive, WorkersOK
    <3>. QED
      BY <2>1, <2>2, <3>1 DEF Inductive, WorkersOK, worker
  <2>3. CASE /\ call[r] \in {"good", "bad"}
             /\ call' = [call EXCEPT ![r] = "none"]
             /\ proc' = [proc EXCEPT ![r] = IF IsAlive(r) THEN "exit1" ELSE @]
             /\ UNCHANGED <<slice, ask>>
    <3>1. /\ proc' \in [Run -> Alive \cup {"none", "exit0", "exit1", "gone"}]
          /\ \A q \in Run : proc[q] = "none" => proc'[q] = "none"
      BY <2>3 DEF Inductive, WorkersOK, IsAlive
    <3>. QED
      BY <2>1, <2>3, <3>1 DEF Inductive, WorkersOK
  <2>. QED
    BY <2>2, <2>3 DEF Rollback
<1>2. FaultsOK'
  BY RunsAssumption DEF Inductive, FaultsOK, Rollback, loop
<1>. QED
  BY <1>1, <1>2, RowsStay, LoopStays DEF Inductive, Rollback, rows

(* The ids of reparses queued together: as many as channels, each given to *)
(* one of them.                                                            *)
LEMMA NewIds ==
    ASSUME RowsOK, NEW S \in Selections, NEW new \in SUBSET S,
           NEW at \in [new -> (n + 1)..(n + Cardinality(new))],
           \A c, d \in new : c < d => at[c] < at[d]
    PROVE  /\ Cardinality(new) \in Nat
           /\ \A c, d \in new : at[c] = at[d] => c = d
           /\ \A r \in (n + 1)..(n + Cardinality(new)) : \E c \in new : at[c] = r
<1>. DEFINE ids == (n + 1)..(n + Cardinality(new))
<1>1. n \in Nat
  BY Ids
<1>2. new \subseteq Channel /\ new \subseteq Nat /\ IsFiniteSet(Channel)
  BY RunsAssumption
<1>3. IsFiniteSet(new) /\ Cardinality(new) \in Nat
  BY <1>2, FS_Subset, FS_CardinalityType
<1>4. ASSUME NEW c \in new, NEW d \in new, at[c] = at[d]
      PROVE  c = d
  <2>1. at[c] \in Int /\ at[d] \in Int
    BY <1>1, <1>3
  <2>2. ~(c < d) /\ ~(d < c)
    BY <1>4, <2>1
  <2>. QED
    BY <1>2, <2>2
<1>5. IsFiniteSet(ids) /\ Cardinality(ids) = Cardinality(new)
  BY <1>1, <1>3, FS_Interval
<1>6. at \in Injection(new, ids)
  BY <1>4, Fun_IsInj
<1>7. at \in Surjection(new, ids)
  BY <1>5, <1>6, FS_Injection
<1>. QED
  BY <1>3, <1>4, <1>7 DEF Surjection

(* What queueing reparses does to the rows: the new ones are queued, each   *)
(* in a slot of its own that was not live.                                 *)
LEMMA NewReparses ==
    ASSUME RowsOK, NEW S \in Selections, QueueReparses(S)
    PROVE  /\ n \in Nat /\ n' \in n..MaxRuns
           /\ slot' \in [Run -> Slot] /\ status' \in [Run -> Status]
           /\ \A r \in Run : r <= n \/ r > n' => status'[r] = status[r] /\ slot'[r] = slot[r]
           /\ \A r \in Run : n < r /\ r <= n' => status'[r] = "queued" /\ ~Taken(slot'[r])
           /\ \A r, q \in Run : n < r /\ r <= n' /\ n < q /\ q <= n' /\ slot'[r] = slot'[q]
                                => r = q
<1>. DEFINE new == {c \in S : ~Taken(<<c, "reparse">>)}
            ids == (n + 1)..(n + Cardinality(new))
<1>1. PICK at \in [new -> ids] :
        /\ \A c, d \in new : c < d => at[c] < at[d]
        /\ slot' = [r \in Run |-> IF \E c \in new : at[c] = r
                                  THEN <<CHOOSE c \in new : at[c] = r, "reparse">>
                                  ELSE slot[r]]
        /\ status' = [r \in Run |-> IF \E c \in new : at[c] = r
                                    THEN "queued" ELSE status[r]]
  BY DEF QueueReparses
<1>2. n' = n + Cardinality(new) /\ n + Cardinality(new) <= MaxRuns
  BY DEF QueueReparses
<1>3. /\ n \in Nat /\ Cardinality(new) \in Nat
      /\ \A r \in ids : \E c \in new : at[c] = r
      /\ \A c, d \in new : at[c] = at[d] => c = d
  <2>1. new \in SUBSET S
    OBVIOUS
  <2>. HIDE DEF new
  <2>. QED
    BY <1>1, <2>1, Ids, NewIds
<1>4. \A c, d \in new : at[c] = at[d] => c = d
  BY <1>3
<1>5. \A c \in new : c \in Channel /\ ~Taken(<<c, "reparse">>)
  BY RunsAssumption
<1>6. n' \in n..MaxRuns /\ ids = (n + 1)..n'
  BY <1>2, <1>3, RunsAssumption
<1>. HIDE DEF new
<1>7. \A r \in Run : (\E c \in new : at[c] = r) <=> r \in ids
  BY <1>3
<1>8. ASSUME NEW r \in ids
      PROVE  /\ r \in Run /\ status'[r] = "queued"
             /\ \E c \in new : at[c] = r /\ slot'[r] = <<c, "reparse">>
  <2>1. r \in Run
    BY <1>2, <1>3, RunsAssumption
  <2>2. PICK c \in new : at[c] = r
    BY <1>3
  <2>3. \A d \in new : at[d] = r => d = c
    BY <1>4, <2>2
  <2>4. (CHOOSE d \in new : at[d] = r) = c
    BY <2>2, <2>3
  <2>. QED
    BY <1>1, <2>1, <2>2, <2>4
<1>9. slot' \in [Run -> Slot]
  <2>1. \A r \in ids : slot'[r] \in Slot
    BY <1>5, <1>8
  <2>. QED
    BY <1>1, <1>7, <2>1 DEF RowsOK
<1>10. status' \in [Run -> Status]
  BY <1>1 DEF RowsOK
<1>11. \A r \in Run : r \notin ids => status'[r] = status[r] /\ slot'[r] = slot[r]
  BY <1>1, <1>7
<1>12. \A r, q \in ids : slot'[r] = slot'[q] => r = q
  BY <1>8
<1>13. \A r \in ids : ~Taken(slot'[r])
  BY <1>5, <1>8
<1>14. \A r \in Run : r \in ids <=> n < r /\ r <= n'
  BY <1>2, <1>3
<1>. QED
  BY <1>3, <1>6, <1>8, <1>9, <1>10, <1>11, <1>12, <1>13, <1>14

LEMMA QueueReparsesInductive ==
    ASSUME Inductive, NEW S \in Selections, QueueReparses(S)
    PROVE  Inductive'
<1>. UNCHANGED <<finished, phase, owed, worker, ask, loop, faults>>
  BY DEF QueueReparses
<1>1. /\ n \in Nat /\ n' \in n..MaxRuns
      /\ slot' \in [Run -> Slot] /\ status' \in [Run -> Status]
      /\ \A r \in Run : r <= n \/ r > n' => status'[r] = status[r]
      /\ \A r \in Run : n < r /\ r <= n' => status'[r] = "queued"
  BY NewReparses DEF Inductive
<1>2. \A r \in Run : \/ r <= n /\ status'[r] = status[r]
                     \/ n < r /\ r <= n' /\ status[r] = "none" /\ status'[r] = "queued"
                     \/ n < r /\ n' < r /\ status'[r] = status[r]
  BY <1>1 DEF Inductive, RowsOK
<1>3. RowsOK'
  <2>1. \A r \in Run : finished'[r] <=> status'[r] \in Ended
    BY <1>2 DEF Inductive, RowsOK
  <2>2. \A r \in Run : status'[r] = "none" <=> r > n'
    BY <1>1, <1>2 DEF Inductive, RowsOK
  <2>. QED
    BY <1>1, <2>1, <2>2, RunsAssumption DEF Inductive, RowsOK
<1>4. WorkersOK'
  BY <1>1 DEF Inductive, WorkersOK, worker
<1>5. PlaceOK'
  BY <1>1 DEF Inductive, LoopOK, PlaceOK, loop
<1>6. ListsOK' /\ FaultsOK'
  BY <1>1 DEF Inductive, LoopOK, ListsOK, FaultsOK, loop
<1>. QED
  BY <1>3, <1>4, <1>5, <1>6 DEF Inductive, LoopOK

-----------------------------------------------------------------------------
(* One step per action. *)
LEMMA PersonInductive == Inductive /\ Person => Inductive'
  BY EnqueueInductive, QueueReparsesInductive, AskInductive DEF Person

LEMMA WorkerSideInductive ==
    ASSUME Inductive, NEW r \in Run, Api(r) \/ Worker(r)
    PROVE  Inductive'
  BY AskCommitInductive, BatchCommitInductive, ReportCommitInductive, ReadSliceInductive,
     HandOverInductive, CollectedInductive, ReportInductive, DieInductive DEF Api, Worker

LEMMA FailInductive == Inductive /\ Fail => Inductive'
  BY ExitInductive DEF Fail, Inductive, FaultsOK

LEMMA SchedulerInductive == Inductive /\ Scheduler => Inductive'
<1>. SUFFICES ASSUME Inductive, Scheduler PROVE Inductive'
  OBVIOUS
<1>1. CASE \/ Start \/ ReapAsk \/ ReapAnswer \/ KillCancelled
  BY <1>1, StartInductive, ReapAskInductive, ReapAnswerInductive, KillCancelledInductive
<1>2. CASE \E r \in Run : \/ CollectAlive(r) \/ CollectOverdue(r) \/ CollectBroken(r)
                          \/ CollectDeferred(r) \/ CollectWell(r)
  BY <1>2, CollectAliveInductive, CollectOverdueInductive, CollectBrokenInductive,
     CollectDeferredInductive, CollectWellInductive
<1>3. CASE SettleEnd \/ CloseRead \/ CloseCommit
  BY <1>3, SettleEndInductive, CloseReadInductive, CloseCommitInductive
<1>4. CASE Tick \/ Take \/ Due \/ StartDue \/ TickDone \/ Spawn
  BY <1>4, TickInductive, TakeInductive, DueInductive, StartDueInductive, TickDoneInductive,
     SpawnInductive
<1>5. CASE ShutdownOne \/ ShutdownDone \/ Release \/ Fail
  BY <1>5, ShutdownOneInductive, ShutdownDoneInductive, ReleaseInductive, FailInductive
<1>. QED
  BY <1>1, <1>2, <1>3, <1>4, <1>5 DEF Scheduler

LEMMA CrashInductive == Inductive /\ Crash => Inductive'
<1>. SUFFICES ASSUME Inductive, Crash PROVE Inductive'
  OBVIOUS
<1>1. FaultsOK'
  BY RunsAssumption DEF Inductive, FaultsOK, Crash
<1>. QED
  BY <1>1, ExitInductive DEF Crash

LEMMA FaultInductive == Inductive /\ Fault => Inductive'
  BY CollectFailsInductive, RollbackInductive, StopInductive, RaiseInductive, CrashInductive
     DEF Fault

LEMMA StepInductive == Inductive /\ [Next]_vars => Inductive'
<1>. SUFFICES ASSUME Inductive, [Next]_vars PROVE Inductive'
  OBVIOUS
<1>1. CASE UNCHANGED vars
  BY <1>1, RowsStay, WorkersStay, LoopStays DEF vars, rows, Inductive, FaultsOK
<1>2. CASE Next
  BY <1>2, PersonInductive, WorkerSideInductive, SchedulerInductive, FaultInductive DEF Next
<1>. QED
  BY <1>1, <1>2

(* Every variable has its type, and finished_at is set exactly on the rows *)
(* that ended: no write of this code meets the CHECK of models.Run.        *)
THEOREM TypeCorrect == Spec => []TypeOK
<1>1. Spec => []Inductive
  BY InitInductive, StepInductive, PTL DEF Spec
<1>. QED
  BY <1>1, InductiveTypeOK, PTL

-----------------------------------------------------------------------------
(* Who has a run that waits, or works.                                     *)

(* A queued run has no worker, and nobody holds it or is closing it. *)
Waiting == \A r \in Run :
    status[r] = "queued" => /\ proc[r] = "none" /\ call[r] = "none" /\ r \notin held
                            /\ pc \in Calls => cur # r

(* A worker exits 0, and is killed for a cancel, when its run has ended. *)
Spent == /\ \A r \in Run : proc[r] = "exit0" => status[r] \in Ended
         /\ pc = "kill" => \A r \in todo : status[r] \in Ended

Owned == Waiting /\ RunningIsOwned /\ Spent

LEMMA EnqueueOwned ==
    ASSUME Inductive, Owned, NEW s \in Wanted, Enqueue(s), Inductive'
    PROVE  Owned'
  BY DEF Owned, Waiting, RunningIsOwned, Spent, Inductive, RowsOK, WorkersOK, LoopOK,
     PlaceOK, ListsOK, rows, worker, loop, Calls, Backs, Enqueue, CanStart, Insert

LEMMA AskOwned ==
    ASSUME Inductive, Owned, NEW r \in Run, NEW what \in Requests, Ask(r, what), Inductive'
    PROVE  Owned'
  BY DEF Owned, Waiting, RunningIsOwned, Spent, Inductive, RowsOK, WorkersOK, LoopOK,
     PlaceOK, ListsOK, rows, worker, loop, Calls, Backs, Ask

LEMMA AskCommitOwned ==
    ASSUME Inductive, Owned, NEW r \in Run, AskCommit(r), Inductive'
    PROVE  Owned'
  BY DEF Owned, Waiting, RunningIsOwned, Spent, Inductive, RowsOK, WorkersOK, LoopOK,
     PlaceOK, ListsOK, rows, worker, loop, Calls, Backs, AskCommit, CloseAs, Verdicts

LEMMA BatchCommitOwned ==
    ASSUME Inductive, Owned, NEW r \in Run, BatchCommit(r), Inductive'
    PROVE  Owned'
  BY DEF Owned, Waiting, RunningIsOwned, Spent, Inductive, RowsOK, WorkersOK, LoopOK,
     PlaceOK, ListsOK, rows, worker, loop, Calls, Backs, BatchCommit, Goes

LEMMA ReportCommitOwned ==
    ASSUME Inductive, Owned, NEW r \in Run, ReportCommit(r), Inductive'
    PROVE  Owned'
  BY DEF Owned, Waiting, RunningIsOwned, Spent, Inductive, RowsOK, WorkersOK, LoopOK,
     PlaceOK, ListsOK, rows, worker, loop, Calls, Backs, ReportCommit, CloseAs, Verdicts,
     Goes, IsAlive

LEMMA ReadSliceOwned ==
    ASSUME Inductive, Owned, NEW r \in Run, ReadSlice(r), Inductive'
    PROVE  Owned'
  BY DEF Owned, Waiting, RunningIsOwned, Spent, Inductive, RowsOK, WorkersOK, LoopOK,
     PlaceOK, ListsOK, rows, worker, loop, Calls, Backs, ReadSlice

LEMMA HandOverOwned ==
    ASSUME Inductive, Owned, NEW r \in Run, HandOver(r), Inductive'
    PROVE  Owned'
  BY DEF Owned, Waiting, RunningIsOwned, Spent, Inductive, RowsOK, WorkersOK, LoopOK,
     PlaceOK, ListsOK, rows, worker, loop, Calls, Backs, HandOver, Goes

LEMMA CollectedOwned ==
    ASSUME Inductive, Owned, NEW r \in Run, Collected(r), Inductive'
    PROVE  Owned'
  BY DEF Owned, Waiting, RunningIsOwned, Spent, Inductive, RowsOK, WorkersOK, LoopOK,
     PlaceOK, ListsOK, rows, worker, loop, Calls, Backs, Collected, Goes

LEMMA ReportOwned ==
    ASSUME Inductive, Owned, NEW r \in Run, Report(r), Inductive'
    PROVE  Owned'
  BY DEF Owned, Waiting, RunningIsOwned, Spent, Inductive, RowsOK, WorkersOK, LoopOK,
     PlaceOK, ListsOK, rows, worker, loop, Calls, Backs, Report, Goes

LEMMA DieOwned ==
    ASSUME Inductive, Owned, NEW r \in Run, Die(r), Inductive'
    PROVE  Owned'
  BY DEF Owned, Waiting, RunningIsOwned, Spent, Inductive, RowsOK, WorkersOK, LoopOK,
     PlaceOK, ListsOK, rows, worker, loop, Calls, Backs, Die, Goes, Lost, IsAlive

LEMMA StartOwned ==
    ASSUME Inductive, Owned, Start, Inductive'
    PROVE  Owned'
  BY DEF Owned, Waiting, RunningIsOwned, Spent, Inductive, RowsOK, WorkersOK, LoopOK,
     PlaceOK, ListsOK, rows, worker, loop, Calls, Backs, Start, At, To

LEMMA ReapAskOwned ==
    ASSUME Inductive, Owned, ReapAsk, Inductive'
    PROVE  Owned'
  BY DEF Owned, Waiting, RunningIsOwned, Spent, Inductive, RowsOK, WorkersOK, LoopOK,
     PlaceOK, ListsOK, rows, worker, loop, Calls, Backs, ReapAsk, At, To, IsAlive

LEMMA ReapAnswerOwned ==
    ASSUME Inductive, Owned, ReapAnswer, Inductive'
    PROVE  Owned'
  BY DEF Owned, Waiting, RunningIsOwned, Spent, Inductive, RowsOK, WorkersOK, LoopOK,
     PlaceOK, ListsOK, rows, worker, loop, Calls, Backs, ReapAnswer, At, To

LEMMA KillCancelledOwned ==
    ASSUME Inductive, Owned, KillCancelled, Inductive'
    PROVE  Owned'
  BY DEF Owned, Waiting, RunningIsOwned, Spent, Inductive, RowsOK, WorkersOK, LoopOK,
     PlaceOK, ListsOK, rows, worker, loop, Calls, Backs, KillCancelled, At, To, Drop, Gone,
     Goes, Lost, Abort, IsAlive

LEMMA CollectAliveOwned ==
    ASSUME Inductive, Owned, NEW r \in Run, CollectAlive(r), Inductive'
    PROVE  Owned'
  BY DEF Owned, Waiting, RunningIsOwned, Spent, Inductive, RowsOK, WorkersOK, LoopOK,
     PlaceOK, ListsOK, rows, worker, loop, Calls, Backs, CollectAlive, At

LEMMA CollectOverdueOwned ==
    ASSUME Inductive, Owned, NEW r \in Run, CollectOverdue(r), Inductive'
    PROVE  Owned'
<1>1. Waiting'
  BY DEF Owned, Waiting, Inductive, WorkersOK, CollectOverdue, rows, IsAlive, Drop, Gone,
     Goes, Call
<1>2. RunningIsOwned'
  BY DEF Owned, RunningIsOwned, CollectOverdue, rows, At, To, Drop, Call
<1>3. Spent'
  BY DEF Owned, Spent, Inductive, WorkersOK, CollectOverdue, rows, Gone, Goes, Call, To
<1>. QED
  BY <1>1, <1>2, <1>3 DEF Owned

LEMMA CollectBrokenOwned ==
    ASSUME Inductive, Owned, NEW r \in Run, CollectBroken(r), Inductive'
    PROVE  Owned'
  BY DEF Owned, Waiting, RunningIsOwned, Spent, Inductive, RowsOK, WorkersOK, LoopOK,
     PlaceOK, ListsOK, rows, worker, loop, Calls, Backs, CollectBroken, At, To, Drop, Gone,
     Goes, Lost, Call

LEMMA CollectDeferredOwned ==
    ASSUME Inductive, Owned, NEW r \in Run, CollectDeferred(r), Inductive'
    PROVE  Owned'
  BY DEF Owned, Waiting, RunningIsOwned, Spent, Inductive, RowsOK, WorkersOK, LoopOK,
     PlaceOK, ListsOK, rows, worker, loop, Calls, Backs, CollectDeferred, At, Drop, Gone,
     Goes, Lost

LEMMA CollectWellOwned ==
    ASSUME Inductive, Owned, NEW r \in Run, CollectWell(r), Inductive'
    PROVE  Owned'
  BY DEF Owned, Waiting, RunningIsOwned, Spent, Inductive, RowsOK, WorkersOK, LoopOK,
     PlaceOK, ListsOK, rows, worker, loop, Calls, Backs, CollectWell, At, To, Drop, Gone,
     Goes, Lost, Call

LEMMA CollectFailsOwned ==
    ASSUME Inductive, Owned, NEW r \in Run, CollectFails(r), Inductive'
    PROVE  Owned'
  BY DEF Owned, Waiting, RunningIsOwned, Spent, Inductive, RowsOK, WorkersOK, LoopOK,
     PlaceOK, ListsOK, rows, worker, loop, Calls, Backs, CollectFails, At, To, Drop, Gone,
     Goes, Lost, Abort

LEMMA SettleEndOwned ==
    ASSUME Inductive, Owned, SettleEnd, Inductive'
    PROVE  Owned'
  BY DEF Owned, Waiting, RunningIsOwned, Spent, Inductive, RowsOK, WorkersOK, LoopOK,
     PlaceOK, ListsOK, rows, worker, loop, Calls, Backs, SettleEnd, At, To, Return

LEMMA CloseReadOwned ==
    ASSUME Inductive, Owned, CloseRead, Inductive'
    PROVE  Owned'
  BY DEF Owned, Waiting, RunningIsOwned, Spent, Inductive, RowsOK, WorkersOK, LoopOK,
     PlaceOK, ListsOK, rows, worker, loop, Calls, Backs, CloseRead, At, To, Return

LEMMA CloseCommitOwned ==
    ASSUME Inductive, Owned, CloseCommit, Inductive'
    PROVE  Owned'
  BY DEF Owned, Waiting, RunningIsOwned, Spent, Inductive, RowsOK, WorkersOK, LoopOK,
     PlaceOK, ListsOK, rows, worker, loop, Calls, Backs, CloseCommit, CloseAs, At, To, Return

LEMMA TickOwned ==
    ASSUME Inductive, Owned, Tick, Inductive'
    PROVE  Owned'
  BY DEF Owned, Waiting, RunningIsOwned, Spent, Inductive, RowsOK, WorkersOK, LoopOK,
     PlaceOK, ListsOK, rows, worker, loop, Calls, Backs, Tick, Queued, At, To

LEMMA TakeOwned ==
    ASSUME Inductive, Owned, Take, Inductive'
    PROVE  Owned'
  BY DEF Owned, Waiting, RunningIsOwned, Spent, Inductive, RowsOK, WorkersOK, LoopOK,
     PlaceOK, ListsOK, rows, worker, loop, Calls, Backs, Take, Call, At, To

LEMMA DueOwned ==
    ASSUME Inductive, Owned, Due, Inductive'
    PROVE  Owned'
  BY DEF Owned, Waiting, RunningIsOwned, Spent, Inductive, RowsOK, WorkersOK, LoopOK,
     PlaceOK, ListsOK, rows, worker, loop, Calls, Backs, Due, At, To

LEMMA StartDueOwned ==
    ASSUME Inductive, Owned, StartDue, Inductive'
    PROVE  Owned'
  BY DEF Owned, Waiting, RunningIsOwned, Spent, Inductive, RowsOK, WorkersOK, LoopOK,
     PlaceOK, ListsOK, rows, worker, loop, Calls, Backs, StartDue, CanStart, Insert, Call,
     At, To

LEMMA TickDoneOwned ==
    ASSUME Inductive, Owned, TickDone, Inductive'
    PROVE  Owned'
  BY DEF Owned, Waiting, RunningIsOwned, Spent, Inductive, RowsOK, WorkersOK, LoopOK,
     PlaceOK, ListsOK, rows, worker, loop, Calls, Backs, TickDone, At, To

LEMMA SpawnOwned ==
    ASSUME Inductive, Owned, Spawn, Inductive'
    PROVE  Owned'
  BY DEF Owned, Waiting, RunningIsOwned, Spent, Inductive, RowsOK, WorkersOK, LoopOK,
     PlaceOK, ListsOK, rows, worker, loop, Calls, Backs, Spawn, Goes, Return, At, To

LEMMA ShutdownOneOwned ==
    ASSUME Inductive, Owned, ShutdownOne, Inductive'
    PROVE  Owned'
<1>1. PICK r \in todo :
        \/ UNCHANGED <<proc, slice, call, pc, held, cur>>
        \/ IsAlive(r) /\ Gone(r) /\ Drop(r) /\ Call("close", r, "shutdown")
  BY DEF ShutdownOne, worker
<1>2. r \in Run /\ UNCHANGED <<status, leaving>>
  BY <1>1, Ids DEF ShutdownOne, rows, At, Inductive, LoopOK, ListsOK
<1>3. Waiting'
  BY <1>1, <1>2 DEF Owned, Waiting, Gone, Goes, Drop, Call, IsAlive, Inductive, WorkersOK
<1>4. RunningIsOwned'
  BY <1>1, <1>2 DEF Owned, RunningIsOwned, ShutdownOne, Call, To, At, Drop
<1>5. Spent'
  BY <1>1, <1>2 DEF Owned, Spent, ShutdownOne, Gone, Goes, Call, To, At, Inductive, WorkersOK
<1>. QED
  BY <1>3, <1>4, <1>5 DEF Owned

LEMMA ShutdownDoneOwned ==
    ASSUME Inductive, Owned, ShutdownDone, Inductive'
    PROVE  Owned'
  BY DEF Owned, Waiting, RunningIsOwned, Spent, Inductive, RowsOK, WorkersOK, LoopOK,
     PlaceOK, ListsOK, rows, worker, loop, Calls, Backs, ShutdownDone, At, To

LEMMA ReleaseOwned ==
    ASSUME Inductive, Owned, Release, Inductive'
    PROVE  Owned'
  BY DEF Owned, Waiting, RunningIsOwned, Spent, Inductive, RowsOK, WorkersOK, LoopOK,
     PlaceOK, ListsOK, rows, worker, loop, Calls, Backs, Release, At, To

LEMMA StopOwned ==
    ASSUME Inductive, Owned, Stop, Inductive'
    PROVE  Owned'
  BY DEF Owned, Waiting, RunningIsOwned, Spent, Inductive, RowsOK, WorkersOK, LoopOK,
     PlaceOK, ListsOK, rows, worker, loop, Calls, Backs, Stop, At, To

LEMMA RaiseOwned ==
    ASSUME Inductive, Owned, Raise, Inductive'
    PROVE  Owned'
  BY DEF Owned, Waiting, RunningIsOwned, Spent, Inductive, RowsOK, WorkersOK, LoopOK,
     PlaceOK, ListsOK, rows, worker, loop, Calls, Backs, Raise, Abort, InDatabase, To

LEMMA ExitOwned ==
    ASSUME Inductive, Owned, Exit, Inductive'
    PROVE  Owned'
<1>1. Waiting'
  <2>1. /\ pc' = "down" /\ held' = {} /\ UNCHANGED <<status, call>>
        /\ \A r \in Run : proc[r] = "none" => proc'[r] = "none"
    BY DEF Exit, To, rows, Inductive, WorkersOK, IsAlive
  <2>. QED
    BY <2>1 DEF Owned, Waiting, Calls
<1>2. RunningIsOwned' /\ Spent'
  BY DEF Owned, Spent, RunningIsOwned, Exit, To, rows, Inductive, WorkersOK
<1>. QED
  BY <1>1, <1>2 DEF Owned

LEMMA RollbackOwned ==
    ASSUME Inductive, Owned, NEW r \in Run, Rollback(r), Inductive'
    PROVE  Owned'
  BY DEF Owned, Waiting, RunningIsOwned, Spent, Inductive, RowsOK, WorkersOK, LoopOK,
     PlaceOK, ListsOK, rows, worker, loop, Calls, Backs, Rollback, loop

LEMMA QueueReparsesOwned ==
    ASSUME Inductive, Owned, NEW S \in Selections, QueueReparses(S)
    PROVE  Owned'
<1>. UNCHANGED <<worker, loop>>
  BY DEF QueueReparses
<1>1. \A r \in Run : \/ status'[r] = status[r]
                     \/ r > n /\ status[r] = "none" /\ status'[r] = "queued"
  <2>1. \A r \in Run : r > n => status[r] = "none"
    BY DEF Inductive, RowsOK
  <2>2. \A r \in Run : status'[r] = status[r] \/ (r > n /\ status'[r] = "queued")
    BY Ids, NewReparses DEF Inductive
  <2>. QED
    BY <2>1, <2>2
<1>2. \A r \in Run : r > n => proc[r] = "none" /\ call[r] = "none" /\ r \notin held /\ r # cur
  BY Ids DEF Inductive, WorkersOK, LoopOK, PlaceOK, ListsOK
<1>3. todo \subseteq Run
  BY Ids DEF Inductive, LoopOK, ListsOK
<1>. QED
  BY <1>1, <1>2, <1>3 DEF Owned, Waiting, RunningIsOwned, Spent, worker, loop

LEMMA StepOwned == Inductive /\ Owned /\ [Next]_vars /\ Inductive' => Owned'
<1>. SUFFICES ASSUME Inductive, Owned, [Next]_vars, Inductive' PROVE Owned'
  OBVIOUS
<1>1. CASE UNCHANGED vars
  BY <1>1 DEF vars, rows, worker, loop, Owned, Waiting, RunningIsOwned, Spent
<1>2. CASE Person
  BY <1>2, EnqueueOwned, QueueReparsesOwned, AskOwned DEF Person
<1>3. CASE \E r \in Run : Api(r) \/ Worker(r)
  BY <1>3, AskCommitOwned, BatchCommitOwned, ReportCommitOwned, ReadSliceOwned, HandOverOwned,
     CollectedOwned, ReportOwned, DieOwned DEF Api, Worker
<1>4. CASE Scheduler
  <2>1. CASE Start \/ ReapAsk \/ ReapAnswer \/ KillCancelled
    BY <2>1, StartOwned, ReapAskOwned, ReapAnswerOwned, KillCancelledOwned
  <2>2. CASE \E r \in Run : \/ CollectAlive(r) \/ CollectOverdue(r) \/ CollectBroken(r)
                            \/ CollectDeferred(r) \/ CollectWell(r)
    BY <2>2, CollectAliveOwned, CollectOverdueOwned, CollectBrokenOwned, CollectDeferredOwned,
       CollectWellOwned
  <2>3. CASE SettleEnd \/ CloseRead \/ CloseCommit
    BY <2>3, SettleEndOwned, CloseReadOwned, CloseCommitOwned
  <2>4. CASE Tick \/ Take \/ Due \/ StartDue \/ TickDone \/ Spawn
    BY <2>4, TickOwned, TakeOwned, DueOwned, StartDueOwned, TickDoneOwned, SpawnOwned
  <2>5. CASE ShutdownOne \/ ShutdownDone \/ Release \/ Fail
    BY <2>5, ShutdownOneOwned, ShutdownDoneOwned, ReleaseOwned, ExitOwned DEF Fail
  <2>. QED
    BY <1>4, <2>1, <2>2, <2>3, <2>4, <2>5 DEF Scheduler
<1>5. CASE Fault
  BY <1>5, CollectFailsOwned, RollbackOwned, StopOwned, RaiseOwned, ExitOwned DEF Fault, Crash
<1>. QED
  BY <1>1, <1>2, <1>3, <1>4, <1>5 DEF Next

LEMMA InitOwned == Init => Owned
  BY DEF Init, Owned, Waiting, RunningIsOwned, Spent

LEMMA AlwaysOwned == Spec => [](Inductive /\ Owned)
<1>1. Init => Inductive /\ Owned
  BY InitInductive, InitOwned
<1>2. Inductive /\ Owned /\ [Next]_vars => (Inductive /\ Owned)'
  BY StepInductive, StepOwned
<1>. QED
  BY <1>1, <1>2, PTL DEF Spec

(* While the loop runs, a run that says it is running has the scheduler    *)
(* behind it: over every interleaving of people, workers and reaping, no   *)
(* run keeps its channel's slot with nobody to close it.                   *)
THEOREM RunningOwned == Spec => []RunningIsOwned
<1>1. Inductive /\ Owned => RunningIsOwned
  BY DEF Owned
<1>. QED
  BY <1>1, AlwaysOwned, PTL

-----------------------------------------------------------------------------
(* The rows move in six ways only.                                         *)

(* A row is closed by a request for it, or by the scheduler. *)
Closed(r) == /\ \E how \in Ended : CloseAs(r, how)
             /\ \/ ask[r] # {}
                \/ call[r] # "none"
                \/ pc = "closing" /\ cur = r

Begun(r) == /\ status[r] = "queued"
            /\ status' = [status EXCEPT ![r] = "running"]
            /\ UNCHANGED slot

RowMove == \/ UNCHANGED <<slot, status>>
           \/ \E r \in 1..n : Closed(r)
           \/ Start
           \/ \E r \in Run : Begun(r)
           \/ \E s \in Slot, how \in {"queued", "running"} : CanStart(s) /\ Insert(s, how)
           \/ \E S \in Selections : QueueReparses(S)

LEMMA StepRowMove == Inductive /\ [Next]_vars => RowMove
<1>. SUFFICES ASSUME Inductive, [Next]_vars PROVE RowMove
  OBVIOUS
<1>1. CASE UNCHANGED vars
  BY <1>1 DEF vars, rows, RowMove
<1>2. CASE Person
  BY <1>2, RunsAssumption DEF Person, Enqueue, Ask, rows, RowMove
<1>3. ASSUME NEW r \in Run, AskCommit(r) PROVE RowMove
  <2>1. PICK what \in ask[r] : \E how \in Verdicts(what) : CloseAs(r, how)
    BY <1>3 DEF AskCommit
  <2>2. what \in {"cancel", "good", "bad"} /\ r \in 1..n
    BY <2>1, RunsAssumption DEF Inductive, RowsOK, WorkersOK
  <2>3. Closed(r)
    BY <2>1, <2>2, VerdictsEnd DEF Closed
  <2>. QED
    BY <2>2, <2>3 DEF RowMove
<1>4. ASSUME NEW r \in Run, ReportCommit(r) PROVE RowMove
  <2>1. PICK how \in Verdicts(call[r]) : CloseAs(r, how)
    BY <1>4 DEF ReportCommit
  <2>2. call[r] \in {"cancel", "good", "bad"} /\ r \in 1..n
    BY <1>4 DEF ReportCommit, Inductive, RowsOK, WorkersOK
  <2>3. Closed(r)
    BY <2>1, <2>2, VerdictsEnd DEF Closed
  <2>. QED
    BY <2>2, <2>3 DEF RowMove
<1>5. CASE \E r \in Run : BatchCommit(r) \/ Worker(r)
  BY <1>5 DEF BatchCommit, Worker, ReadSlice, HandOver, Collected, Report, Die, rows, RowMove
<1>6. CASE CloseCommit
  <2>1. cur \in 1..n
    BY <1>6, Ids DEF CloseCommit, At, Inductive, LoopOK, PlaceOK, Calls
  <2>2. Closed(cur)
    BY <1>6 DEF CloseCommit, At, Closed
  <2>. QED
    BY <2>1, <2>2 DEF RowMove
<1>7. CASE Take
  BY <1>7, Ids DEF Take, Begun, RowMove, Inductive, LoopOK, ListsOK
<1>8. CASE StartDue
  BY <1>8 DEF StartDue, RowMove, rows, Inductive, LoopOK, ListsOK
<1>9. CASE Scheduler /\ ~Start /\ ~CloseCommit /\ ~Take /\ ~StartDue
  <2>. SUFFICES UNCHANGED <<slot, status>>
    BY DEF RowMove
  <2>1. CASE ReapAsk \/ ReapAnswer \/ KillCancelled \/ SettleEnd \/ CloseRead
    BY <2>1 DEF ReapAsk, ReapAnswer, KillCancelled, SettleEnd, CloseRead, rows
  <2>2. CASE \E r \in Run : \/ CollectAlive(r) \/ CollectOverdue(r) \/ CollectBroken(r)
                            \/ CollectDeferred(r) \/ CollectWell(r)
    BY <2>2 DEF CollectAlive, CollectOverdue, CollectBroken, CollectDeferred, CollectWell, rows
  <2>3. CASE Tick \/ Due \/ TickDone \/ Spawn
    BY <2>3 DEF Tick, Due, TickDone, Spawn, rows
  <2>4. CASE ShutdownOne \/ ShutdownDone \/ Release \/ Fail
    BY <2>4 DEF ShutdownOne, ShutdownDone, Release, Fail, Exit, rows
  <2>. QED
    BY <1>9, <2>1, <2>2, <2>3, <2>4 DEF Scheduler
<1>10. CASE Fault
  BY <1>10 DEF Fault, CollectFails, Rollback, Stop, Raise, Crash, Exit, rows, RowMove
<1>. QED
  BY <1>1, <1>2, <1>3, <1>4, <1>5, <1>6, <1>7, <1>8, <1>9, <1>10
     DEF Next, Api, RowMove, Scheduler

(* A queued run waits over any number of restarts: nothing takes it out of *)
(* the queue but a worker of its own, or a person.                         *)
THEOREM QueuedOutlives == Spec => QueuedOutlivesScheduler
<1>. DEFINE Stays == \A r \in Run : status[r] = "queued" =>
                        status'[r] \in {"queued", "running"} \/ ask[r] # {}
<1>1. Inductive /\ Owned /\ [Next]_vars => [Stays]_vars
  <2>. SUFFICES ASSUME Inductive, Owned, [Next]_vars, NEW r \in Run, status[r] = "queued"
                PROVE  status'[r] \in {"queued", "running"} \/ ask[r] # {}
    OBVIOUS
  <2>1. CASE UNCHANGED <<slot, status>>
    BY <2>1
  <2>2. ASSUME NEW q \in 1..n, Closed(q) PROVE status'[r] = "queued" \/ ask[r] # {}
    <3>1. q \in Run
      BY Ids DEF Inductive
    <3>2. CASE q = r
      BY <2>2, <3>2 DEF Closed, Owned, Waiting, Calls
    <3>3. CASE q # r
      BY <2>2, <3>1, <3>3 DEF Closed, CloseAs, Inductive, RowsOK
    <3>. QED
      BY <3>2, <3>3
  <2>3. CASE Start
    BY <2>3 DEF Start, Inductive, RowsOK
  <2>4. CASE \E q \in Run : Begun(q)
    BY <2>4 DEF Begun, Inductive, RowsOK
  <2>5. CASE \E s \in Slot, how \in {"queued", "running"} : CanStart(s) /\ Insert(s, how)
    BY <2>5 DEF Insert, Inductive, RowsOK
  <2>6. ASSUME NEW S \in Selections, QueueReparses(S) PROVE status'[r] = "queued"
    BY <2>6, NewReparses DEF Inductive, RowsOK
  <2>. QED
    BY <2>1, <2>2, <2>3, <2>4, <2>5, <2>6, StepRowMove DEF RowMove
<1>. QED
  BY <1>1, AlwaysOwned, PTL DEF Spec, QueuedOutlivesScheduler

-----------------------------------------------------------------------------
(* Runs implements RunBoard.                                               *)

Stages == [r \in Run |-> IF status[r] \in Ended THEN "closed" ELSE status[r]]

LEMMA BoardStep == Inductive /\ [Next]_vars /\ Inductive' => [Board!BoardNext]_(Board!boardVars)
<1>. SUFFICES ASSUME Inductive, [Next]_vars, Inductive'
              PROVE  Board!BoardNext \/ UNCHANGED <<slot, Stages>>
  BY DEF Board!boardVars, Stages
<1>. USE DEF Board!BoardNext
<1>1. CASE UNCHANGED <<slot, status>>
  BY <1>1 DEF Stages
<1>2. ASSUME NEW r \in 1..n, Closed(r) PROVE Board!BoardNext \/ UNCHANGED <<slot, Stages>>
  <2>1. PICK how \in Ended : CloseAs(r, how)
    BY <1>2 DEF Closed
  <2>2. r \in Run /\ status[r] # "none"
    BY Ids DEF Inductive, RowsOK
  <2>3. UNCHANGED slot /\ status' = [status EXCEPT ![r] = how]
    BY <2>1 DEF CloseAs
  <2>4. CASE status[r] \in Ended
    BY <2>2, <2>3, <2>4 DEF Stages, Inductive, RowsOK
  <2>5. CASE status[r] \notin Ended
    <3>1. Board!Close({r})
      BY <2>2, <2>3, <2>5 DEF Board!Close, Board!Live, Inductive, RowsOK
    <3>. QED
      BY <2>2, <3>1
  <2>. QED
    BY <2>4, <2>5
<1>3. CASE Start
  <2>1. PICK R \in SUBSET Run : R = {r \in Run : status[r] = "running"}
    OBVIOUS
  <2>2. Board!Close(R)
    BY <1>3, <2>1 DEF Start, Board!Close, Board!Live, Inductive, RowsOK
  <2>. QED
    BY <2>2
<1>4. ASSUME NEW r \in Run, Begun(r) PROVE Board!BoardNext
  <2>1. Stages' = [Stages EXCEPT ![r] = "running"]
    BY <1>4 DEF Begun, Stages, Inductive, RowsOK
  <2>2. Stages[r] = "queued" /\ UNCHANGED slot
    BY <1>4 DEF Begun, Stages
  <2>3. Board!Begin(r)
    BY <2>1, <2>2 DEF Stages, Board!Begin
  <2>. QED
    BY <2>3
<1>5. ASSUME NEW s \in Slot, NEW how \in {"queued", "running"}, CanStart(s), Insert(s, how)
      PROVE  Board!BoardNext
  <2>1. n + 1 \in Run /\ status[n + 1] = "none"
    BY <1>5, Ids, RunsAssumption DEF CanStart, Inductive, RowsOK
  <2>2. \A q \in Run : Live(q) => slot[q] # s
    BY <1>5 DEF CanStart, Taken
  <2>3. Board!Admit({n + 1}, how)
    BY <1>5, <2>1, <2>2 DEF Insert, Board!Admit, Board!Live, Live, Inductive, RowsOK
  <2>. QED
    BY <2>1, <2>3
<1>6. ASSUME NEW S \in Selections, QueueReparses(S) PROVE Board!BoardNext
  <2>. DEFINE R == {r \in Run : n < r /\ r <= n'}
  <2>1. /\ \A r \in Run : r \notin R => status'[r] = status[r] /\ slot'[r] = slot[r]
        /\ \A r \in R : status'[r] = "queued" /\ ~Taken(slot'[r])
        /\ \A r, q \in R : slot'[r] = slot'[q] => r = q
        /\ \A r \in R : status[r] = "none"
    BY <1>6, NewReparses DEF Inductive, RowsOK
  <2>2. Board!Admit(R, "queued")
    BY <2>1 DEF Board!Admit, Board!Live, Taken, Live, Inductive, RowsOK
  <2>. QED
    BY <2>2
<1>. QED
  BY <1>1, <1>2, <1>3, <1>4, <1>5, <1>6, StepRowMove DEF RowMove

(* The table keeps RunBoard's promise: one live row per channel and kind,  *)
(* and a closed row never live again.                                      *)
THEOREM Implements == Spec => KeepsTheBoard
<1>1. Init => Board!BoardInit
  BY InitInductive DEF Init, Inductive, RowsOK, Board!BoardInit
<1>. QED
  BY <1>1, BoardStep, AlwaysOwned, PTL DEF Spec, KeepsTheBoard, Board!BoardSpec

(* What the board promises follows from its own steps: rows that are added *)
(* together share no slot and take none that is live.                      *)
LEMMA BoardOneLive ==
    ASSUME Board!OneLive, Board!BoardNext
    PROVE  Board!OneLive'
<1>. DEFINE Lives(r) == Stages[r] \in {"queued", "running"}
<1>1. /\ \A r \in Run : Board!Live(r) <=> Lives(r)
      /\ \A r \in Run : Board!Live(r)' <=> Lives(r)'
  BY DEF Board!Live, Stages
<1>2. \A r, q \in Run : Lives(r) /\ Lives(q) /\ slot[r] = slot[q] => r = q
  BY <1>1 DEF Board!OneLive
<1>3. ASSUME NEW R \in SUBSET Run, NEW how \in {"queued", "running"}, Board!Admit(R, how)
      PROVE  \A r, q \in Run : Lives(r)' /\ Lives(q)' /\ slot'[r] = slot'[q] => r = q
  <2>1. \A r \in Run : Stages'[r] = IF r \in R THEN how ELSE Stages[r]
    BY <1>3 DEF Board!Admit, Stages
  <2>2. /\ \A r \in Run \ R : slot'[r] = slot[r]
        /\ \A r \in R : /\ \A q \in R : slot'[q] = slot'[r] => q = r
                        /\ \A q \in Run : Lives(q) => slot[q] # slot'[r]
    BY <1>1, <1>3 DEF Board!Admit
  <2>. QED
    BY <1>2, <2>1, <2>2
<1>4. ASSUME NEW r \in Run, Board!Begin(r)
      PROVE  \A p, q \in Run : Lives(p)' /\ Lives(q)' /\ slot'[p] = slot'[q] => p = q
  <2>1. /\ Stages[r] = "queued" /\ slot' = slot
        /\ \A q \in Run : Stages'[q] = IF q = r THEN "running" ELSE Stages[q]
    BY <1>4 DEF Board!Begin, Stages
  <2>. QED
    BY <1>2, <2>1
<1>5. ASSUME NEW R \in SUBSET Run, Board!Close(R)
      PROVE  \A r, q \in Run : Lives(r)' /\ Lives(q)' /\ slot'[r] = slot'[q] => r = q
  <2>1. slot' = slot /\ \A r \in Run : Stages'[r] = IF r \in R THEN "closed" ELSE Stages[r]
    BY <1>5 DEF Board!Close, Stages
  <2>. QED
    BY <1>2, <2>1
<1>. QED
  BY <1>1, <1>3, <1>4, <1>5 DEF Board!BoardNext, Board!OneLive

(* Whatever is started, asked for, cancelled, swept or reported, and       *)
(* however many schedulers crash: a channel has at most one live run of a  *)
(* kind.                                                                   *)
THEOREM OneLiveRun == Spec => []Board!OneLive
<1>1. Init => Board!OneLive
  BY InitInductive DEF Init, Inductive, RowsOK, Board!OneLive, Board!Live
<1>2. Board!OneLive /\ [Board!BoardNext]_(Board!boardVars) => Board!OneLive'
  <2>1. Board!OneLive /\ UNCHANGED Board!boardVars => Board!OneLive'
    BY DEF Board!OneLive, Board!Live, Board!boardVars
  <2>. QED
    BY <2>1, BoardOneLive
<1>. QED
  BY <1>1, <1>2, BoardStep, AlwaysOwned, PTL DEF Spec

-----------------------------------------------------------------------------
(* What is read after a cancel.                                            *)

(* A slice that is not on its way is in a reader's hands, and a stale one  *)
(* in those of a reader whose run is cancelled for good: the scheduler     *)
(* closes a run only when its worker is dead, or was never born.           *)
Sliced ==
    /\ LateSliceRefused
    /\ \A r \in Run : slice[r] # "none" /\ call[r] # "batch" => proc[r] = "reading" /\ call[r] = "none"
    /\ \A r \in Run : slice[r] = "stale" => status[r] = "cancelled"
    /\ pc \in {"close", "closing"} => ~IsAlive(cur)
    /\ pc = "spawn" => proc[cur] = "none"

LEMMA EnqueueSliced ==
    ASSUME Inductive, Owned, Sliced, Requests \subseteq {"cancel"}, NEW s \in Wanted, Enqueue(s), Inductive'
    PROVE  Sliced'
  BY RunsAssumption DEF Sliced, LateSliceRefused, IsAlive, Waiting, Owned, Inductive, RowsOK,
     WorkersOK, LoopOK, PlaceOK, ListsOK, rows, worker, loop, Calls, Backs, Enqueue,
     CanStart, Insert

LEMMA AskSliced ==
    ASSUME Inductive, Owned, Sliced, Requests \subseteq {"cancel"}, NEW r \in Run, NEW what \in Requests, Ask(r, what), Inductive'
    PROVE  Sliced'
  BY RunsAssumption DEF Sliced, LateSliceRefused, IsAlive, Waiting, Owned, Inductive, RowsOK,
     WorkersOK, LoopOK, PlaceOK, ListsOK, rows, worker, loop, Calls, Backs, Ask

LEMMA AskCommitSliced ==
    ASSUME Inductive, Owned, Sliced, Requests \subseteq {"cancel"}, NEW r \in Run, AskCommit(r), Inductive'
    PROVE  Sliced'
  BY RunsAssumption DEF Sliced, LateSliceRefused, IsAlive, Waiting, Owned, Inductive, RowsOK,
     WorkersOK, LoopOK, PlaceOK, ListsOK, rows, worker, loop, Calls, Backs, AskCommit,
     CloseAs, Verdicts

LEMMA BatchCommitSliced ==
    ASSUME Inductive, Owned, Sliced, Requests \subseteq {"cancel"}, NEW r \in Run, BatchCommit(r), Inductive'
    PROVE  Sliced'
  BY RunsAssumption DEF Sliced, LateSliceRefused, IsAlive, Waiting, Owned, Inductive, RowsOK,
     WorkersOK, LoopOK, PlaceOK, ListsOK, rows, worker, loop, Calls, Backs, BatchCommit, Goes

LEMMA ReportCommitSliced ==
    ASSUME Inductive, Owned, Sliced, Requests \subseteq {"cancel"}, NEW r \in Run, ReportCommit(r), Inductive'
    PROVE  Sliced'
  BY RunsAssumption DEF Sliced, LateSliceRefused, IsAlive, Waiting, Owned, Inductive, RowsOK,
     WorkersOK, LoopOK, PlaceOK, ListsOK, rows, worker, loop, Calls, Backs, ReportCommit,
     CloseAs, Verdicts, Goes, IsAlive

LEMMA ReadSliceSliced ==
    ASSUME Inductive, Owned, Sliced, Requests \subseteq {"cancel"}, NEW r \in Run, ReadSlice(r), Inductive'
    PROVE  Sliced'
  BY RunsAssumption DEF Sliced, LateSliceRefused, IsAlive, Waiting, Owned, Inductive, RowsOK,
     WorkersOK, LoopOK, PlaceOK, ListsOK, rows, worker, loop, Calls, Backs, ReadSlice

LEMMA HandOverSliced ==
    ASSUME Inductive, Owned, Sliced, Requests \subseteq {"cancel"}, NEW r \in Run, HandOver(r), Inductive'
    PROVE  Sliced'
  BY RunsAssumption DEF Sliced, LateSliceRefused, IsAlive, Waiting, Owned, Inductive, RowsOK,
     WorkersOK, LoopOK, PlaceOK, ListsOK, rows, worker, loop, Calls, Backs, HandOver, Goes

LEMMA CollectedSliced ==
    ASSUME Inductive, Owned, Sliced, Requests \subseteq {"cancel"}, NEW r \in Run, Collected(r), Inductive'
    PROVE  Sliced'
  BY RunsAssumption DEF Sliced, LateSliceRefused, IsAlive, Waiting, Owned, Inductive, RowsOK,
     WorkersOK, LoopOK, PlaceOK, ListsOK, rows, worker, loop, Calls, Backs, Collected, Goes

LEMMA ReportSliced ==
    ASSUME Inductive, Owned, Sliced, Requests \subseteq {"cancel"}, NEW r \in Run, Report(r), Inductive'
    PROVE  Sliced'
  BY RunsAssumption DEF Sliced, LateSliceRefused, IsAlive, Waiting, Owned, Inductive, RowsOK,
     WorkersOK, LoopOK, PlaceOK, ListsOK, rows, worker, loop, Calls, Backs, Report, Goes

LEMMA DieSliced ==
    ASSUME Inductive, Owned, Sliced, Requests \subseteq {"cancel"}, NEW r \in Run, Die(r), Inductive'
    PROVE  Sliced'
  BY RunsAssumption DEF Sliced, LateSliceRefused, IsAlive, Waiting, Owned, Inductive, RowsOK,
     WorkersOK, LoopOK, PlaceOK, ListsOK, rows, worker, loop, Calls, Backs, Die, Goes, Lost,
     IsAlive

LEMMA StartSliced ==
    ASSUME Inductive, Owned, Sliced, Requests \subseteq {"cancel"}, Start, Inductive'
    PROVE  Sliced'
  BY RunsAssumption DEF Sliced, LateSliceRefused, IsAlive, Waiting, Owned, Inductive, RowsOK,
     WorkersOK, LoopOK, PlaceOK, ListsOK, rows, worker, loop, Calls, Backs, Start, At, To

LEMMA ReapAskSliced ==
    ASSUME Inductive, Owned, Sliced, Requests \subseteq {"cancel"}, ReapAsk, Inductive'
    PROVE  Sliced'
  BY RunsAssumption DEF Sliced, LateSliceRefused, IsAlive, Waiting, Owned, Inductive, RowsOK,
     WorkersOK, LoopOK, PlaceOK, ListsOK, rows, worker, loop, Calls, Backs, ReapAsk, At, To,
     IsAlive

LEMMA ReapAnswerSliced ==
    ASSUME Inductive, Owned, Sliced, Requests \subseteq {"cancel"}, ReapAnswer, Inductive'
    PROVE  Sliced'
  BY RunsAssumption DEF Sliced, LateSliceRefused, IsAlive, Waiting, Owned, Inductive, RowsOK,
     WorkersOK, LoopOK, PlaceOK, ListsOK, rows, worker, loop, Calls, Backs, ReapAnswer, At,
     To

LEMMA KillCancelledSliced ==
    ASSUME Inductive, Owned, Sliced, Requests \subseteq {"cancel"}, KillCancelled, Inductive'
    PROVE  Sliced'
  BY RunsAssumption DEF Sliced, LateSliceRefused, IsAlive, Waiting, Owned, Inductive, RowsOK,
     WorkersOK, LoopOK, PlaceOK, ListsOK, rows, worker, loop, Calls, Backs, KillCancelled,
     At, To, Drop, Gone, Goes, Lost, Abort, IsAlive

LEMMA CollectAliveSliced ==
    ASSUME Inductive, Owned, Sliced, Requests \subseteq {"cancel"}, NEW r \in Run, CollectAlive(r), Inductive'
    PROVE  Sliced'
  BY RunsAssumption DEF Sliced, LateSliceRefused, IsAlive, Waiting, Owned, Inductive, RowsOK,
     WorkersOK, LoopOK, PlaceOK, ListsOK, rows, worker, loop, Calls, Backs, CollectAlive, At

LEMMA CollectOverdueSliced ==
    ASSUME Inductive, Owned, Sliced, Requests \subseteq {"cancel"}, NEW r \in Run, CollectOverdue(r), Inductive'
    PROVE  Sliced'
  BY RunsAssumption DEF Sliced, LateSliceRefused, IsAlive, Waiting, Owned, Inductive, RowsOK,
     WorkersOK, LoopOK, PlaceOK, ListsOK, rows, worker, loop, Calls, Backs, CollectOverdue,
     At, To, Drop, Gone, Goes, Lost, Call

LEMMA CollectBrokenSliced ==
    ASSUME Inductive, Owned, Sliced, Requests \subseteq {"cancel"}, NEW r \in Run, CollectBroken(r), Inductive'
    PROVE  Sliced'
  BY RunsAssumption DEF Sliced, LateSliceRefused, IsAlive, Waiting, Owned, Inductive, RowsOK,
     WorkersOK, LoopOK, PlaceOK, ListsOK, rows, worker, loop, Calls, Backs, CollectBroken,
     At, To, Drop, Gone, Goes, Lost, Call

LEMMA CollectDeferredSliced ==
    ASSUME Inductive, Owned, Sliced, Requests \subseteq {"cancel"}, NEW r \in Run, CollectDeferred(r), Inductive'
    PROVE  Sliced'
  BY RunsAssumption DEF Sliced, LateSliceRefused, IsAlive, Waiting, Owned, Inductive, RowsOK,
     WorkersOK, LoopOK, PlaceOK, ListsOK, rows, worker, loop, Calls, Backs, CollectDeferred,
     At, Drop, Gone, Goes, Lost

LEMMA CollectWellSliced ==
    ASSUME Inductive, Owned, Sliced, Requests \subseteq {"cancel"}, NEW r \in Run, CollectWell(r), Inductive'
    PROVE  Sliced'
  BY RunsAssumption DEF Sliced, LateSliceRefused, IsAlive, Waiting, Owned, Inductive, RowsOK,
     WorkersOK, LoopOK, PlaceOK, ListsOK, rows, worker, loop, Calls, Backs, CollectWell, At,
     To, Drop, Gone, Goes, Lost, Call

LEMMA CollectFailsSliced ==
    ASSUME Inductive, Owned, Sliced, Requests \subseteq {"cancel"}, NEW r \in Run, CollectFails(r), Inductive'
    PROVE  Sliced'
  BY RunsAssumption DEF Sliced, LateSliceRefused, IsAlive, Waiting, Owned, Inductive, RowsOK,
     WorkersOK, LoopOK, PlaceOK, ListsOK, rows, worker, loop, Calls, Backs, CollectFails, At,
     To, Drop, Gone, Goes, Lost, Abort

LEMMA SettleEndSliced ==
    ASSUME Inductive, Owned, Sliced, Requests \subseteq {"cancel"}, SettleEnd, Inductive'
    PROVE  Sliced'
  BY RunsAssumption DEF Sliced, LateSliceRefused, IsAlive, Waiting, Owned, Inductive, RowsOK,
     WorkersOK, LoopOK, PlaceOK, ListsOK, rows, worker, loop, Calls, Backs, SettleEnd, At,
     To, Return

LEMMA CloseReadSliced ==
    ASSUME Inductive, Owned, Sliced, Requests \subseteq {"cancel"}, CloseRead, Inductive'
    PROVE  Sliced'
  BY RunsAssumption DEF Sliced, LateSliceRefused, IsAlive, Waiting, Owned, Inductive, RowsOK,
     WorkersOK, LoopOK, PlaceOK, ListsOK, rows, worker, loop, Calls, Backs, CloseRead, At,
     To, Return

LEMMA CloseCommitSliced ==
    ASSUME Inductive, Owned, Sliced, Requests \subseteq {"cancel"}, CloseCommit, Inductive'
    PROVE  Sliced'
  BY RunsAssumption DEF Sliced, LateSliceRefused, IsAlive, Waiting, Owned, Inductive, RowsOK,
     WorkersOK, LoopOK, PlaceOK, ListsOK, rows, worker, loop, Calls, Backs, CloseCommit,
     CloseAs, At, To, Return

LEMMA TickSliced ==
    ASSUME Inductive, Owned, Sliced, Requests \subseteq {"cancel"}, Tick, Inductive'
    PROVE  Sliced'
  BY RunsAssumption DEF Sliced, LateSliceRefused, IsAlive, Waiting, Owned, Inductive, RowsOK,
     WorkersOK, LoopOK, PlaceOK, ListsOK, rows, worker, loop, Calls, Backs, Tick, Queued, At,
     To

LEMMA TakeSliced ==
    ASSUME Inductive, Owned, Sliced, Requests \subseteq {"cancel"}, Take, Inductive'
    PROVE  Sliced'
  BY RunsAssumption DEF Sliced, LateSliceRefused, IsAlive, Waiting, Owned, Inductive, RowsOK,
     WorkersOK, LoopOK, PlaceOK, ListsOK, rows, worker, loop, Calls, Backs, Take, Call, At,
     To

LEMMA DueSliced ==
    ASSUME Inductive, Owned, Sliced, Requests \subseteq {"cancel"}, Due, Inductive'
    PROVE  Sliced'
  BY RunsAssumption DEF Sliced, LateSliceRefused, IsAlive, Waiting, Owned, Inductive, RowsOK,
     WorkersOK, LoopOK, PlaceOK, ListsOK, rows, worker, loop, Calls, Backs, Due, At, To

LEMMA StartDueSliced ==
    ASSUME Inductive, Owned, Sliced, Requests \subseteq {"cancel"}, StartDue, Inductive'
    PROVE  Sliced'
  BY RunsAssumption DEF Sliced, LateSliceRefused, IsAlive, Waiting, Owned, Inductive, RowsOK,
     WorkersOK, LoopOK, PlaceOK, ListsOK, rows, worker, loop, Calls, Backs, StartDue,
     CanStart, Insert, Call, At, To

LEMMA TickDoneSliced ==
    ASSUME Inductive, Owned, Sliced, Requests \subseteq {"cancel"}, TickDone, Inductive'
    PROVE  Sliced'
  BY RunsAssumption DEF Sliced, LateSliceRefused, IsAlive, Waiting, Owned, Inductive, RowsOK,
     WorkersOK, LoopOK, PlaceOK, ListsOK, rows, worker, loop, Calls, Backs, TickDone, At, To

LEMMA SpawnSliced ==
    ASSUME Inductive, Owned, Sliced, Requests \subseteq {"cancel"}, Spawn, Inductive'
    PROVE  Sliced'
  BY RunsAssumption DEF Sliced, LateSliceRefused, IsAlive, Waiting, Owned, Inductive, RowsOK,
     WorkersOK, LoopOK, PlaceOK, ListsOK, rows, worker, loop, Calls, Backs, Spawn, Goes,
     Return, At, To

LEMMA ShutdownOneSliced ==
    ASSUME Inductive, Owned, Sliced, Requests \subseteq {"cancel"}, ShutdownOne, Inductive'
    PROVE  Sliced'
  BY RunsAssumption DEF Sliced, LateSliceRefused, IsAlive, Waiting, Owned, Inductive, RowsOK,
     WorkersOK, LoopOK, PlaceOK, ListsOK, rows, worker, loop, Calls, Backs, ShutdownOne,
     Drop, Gone, Goes, Lost, Call, At, To

LEMMA ShutdownDoneSliced ==
    ASSUME Inductive, Owned, Sliced, Requests \subseteq {"cancel"}, ShutdownDone, Inductive'
    PROVE  Sliced'
  BY RunsAssumption DEF Sliced, LateSliceRefused, IsAlive, Waiting, Owned, Inductive, RowsOK,
     WorkersOK, LoopOK, PlaceOK, ListsOK, rows, worker, loop, Calls, Backs, ShutdownDone, At,
     To

LEMMA ReleaseSliced ==
    ASSUME Inductive, Owned, Sliced, Requests \subseteq {"cancel"}, Release, Inductive'
    PROVE  Sliced'
  BY RunsAssumption DEF Sliced, LateSliceRefused, IsAlive, Waiting, Owned, Inductive, RowsOK,
     WorkersOK, LoopOK, PlaceOK, ListsOK, rows, worker, loop, Calls, Backs, Release, At, To

LEMMA StopSliced ==
    ASSUME Inductive, Owned, Sliced, Requests \subseteq {"cancel"}, Stop, Inductive'
    PROVE  Sliced'
  BY RunsAssumption DEF Sliced, LateSliceRefused, IsAlive, Waiting, Owned, Inductive, RowsOK,
     WorkersOK, LoopOK, PlaceOK, ListsOK, rows, worker, loop, Calls, Backs, Stop, At, To

LEMMA RaiseSliced ==
    ASSUME Inductive, Owned, Sliced, Requests \subseteq {"cancel"}, Raise, Inductive'
    PROVE  Sliced'
  BY RunsAssumption DEF Sliced, LateSliceRefused, IsAlive, Waiting, Owned, Inductive, RowsOK,
     WorkersOK, LoopOK, PlaceOK, ListsOK, rows, worker, loop, Calls, Backs, Raise, Abort,
     InDatabase, To

LEMMA ExitSliced ==
    ASSUME Inductive, Owned, Sliced, Requests \subseteq {"cancel"}, Exit, Inductive'
    PROVE  Sliced'
  BY RunsAssumption DEF Sliced, LateSliceRefused, IsAlive, Waiting, Owned, Inductive, RowsOK,
     WorkersOK, LoopOK, PlaceOK, ListsOK, rows, worker, loop, Calls, Backs, Exit, At, To

LEMMA RollbackSliced ==
    ASSUME Inductive, Owned, Sliced, Requests \subseteq {"cancel"}, NEW r \in Run, Rollback(r), Inductive'
    PROVE  Sliced'
  BY RunsAssumption DEF Sliced, LateSliceRefused, IsAlive, Waiting, Owned, Inductive, RowsOK,
     WorkersOK, LoopOK, PlaceOK, ListsOK, rows, worker, loop, Calls, Backs, Rollback, loop

LEMMA QueueReparsesSliced ==
    ASSUME Inductive, Sliced, NEW S \in Selections, QueueReparses(S)
    PROVE  Sliced'
<1>. UNCHANGED <<worker, loop>>
  BY DEF QueueReparses
<1>1. \A r \in Run : status[r] = "cancelled" => status'[r] = "cancelled"
  <2>1. \A r \in Run : r > n => status[r] = "none"
    BY DEF Inductive, RowsOK
  <2>2. \A r \in Run : r <= n => status'[r] = status[r]
    BY NewReparses DEF Inductive
  <2>. QED
    BY <2>1, <2>2, Ids DEF Inductive
<1>. QED
  BY <1>1 DEF Sliced, LateSliceRefused, IsAlive, worker, loop

LEMMA StepSliced ==
    ASSUME Inductive, Owned, Sliced, Requests \subseteq {"cancel"}, [Next]_vars, Inductive'
    PROVE  Sliced'
<1>1. CASE UNCHANGED vars
  BY <1>1 DEF vars, rows, worker, loop, Sliced, LateSliceRefused, IsAlive
<1>2. CASE Person
  BY <1>2, EnqueueSliced, QueueReparsesSliced, AskSliced DEF Person
<1>3. CASE \E r \in Run : Api(r) \/ Worker(r)
  BY <1>3, AskCommitSliced, BatchCommitSliced, ReportCommitSliced, ReadSliceSliced,
     HandOverSliced,
     CollectedSliced, ReportSliced, DieSliced DEF Api, Worker
<1>4. CASE Scheduler
  <2>1. CASE Start \/ ReapAsk \/ ReapAnswer \/ KillCancelled
    BY <2>1, StartSliced, ReapAskSliced, ReapAnswerSliced, KillCancelledSliced
  <2>2. CASE \E r \in Run : \/ CollectAlive(r) \/ CollectOverdue(r) \/ CollectBroken(r)
                            \/ CollectDeferred(r) \/ CollectWell(r)
    BY <2>2, CollectAliveSliced, CollectOverdueSliced, CollectBrokenSliced,
       CollectDeferredSliced,
       CollectWellSliced
  <2>3. CASE SettleEnd \/ CloseRead \/ CloseCommit
    BY <2>3, SettleEndSliced, CloseReadSliced, CloseCommitSliced
  <2>4. CASE Tick \/ Take \/ Due \/ StartDue \/ TickDone \/ Spawn
    BY <2>4, TickSliced, TakeSliced, DueSliced, StartDueSliced, TickDoneSliced, SpawnSliced
  <2>5. CASE ShutdownOne \/ ShutdownDone \/ Release \/ Fail
    BY <2>5, ShutdownOneSliced, ShutdownDoneSliced, ReleaseSliced, ExitSliced DEF Fail
  <2>. QED
    BY <1>4, <2>1, <2>2, <2>3, <2>4, <2>5 DEF Scheduler
<1>5. CASE Fault
  BY <1>5, CollectFailsSliced, RollbackSliced, StopSliced, RaiseSliced, ExitSliced DEF Fault,
     Crash
<1>. QED
  BY <1>1, <1>2, <1>3, <1>4, <1>5 DEF Next

(* Nothing a worker reads after the cancel of its run is let in, as long   *)
(* as nobody reports for a worker by hand, which could reopen a cancelled  *)
(* run's door by overwriting its status.                                   *)
THEOREM LateRefused ==
    ASSUME Requests \subseteq {"cancel"}
    PROVE  Spec => []LateSliceRefused
<1>1. Init => Sliced
  BY DEF Init, Sliced, LateSliceRefused, IsAlive
<1>2. Sliced /\ [Next]_vars /\ Inductive /\ Owned /\ (Inductive /\ Owned)' => Sliced'
  BY StepSliced
<1>3. Sliced => LateSliceRefused
  BY DEF Sliced
<1>. QED
  BY <1>1, <1>2, <1>3, AlwaysOwned, PTL DEF Spec

-----------------------------------------------------------------------------
(* How many workers live at once, and whose runs are settled, for every    *)
(* value of the constants of Runs.                                         *)

USE DEF Run, Kind, Slot, Ended, Status, Alive

(* The loop has promised a worker to those it holds, to the one it is      *)
(* spawning and to those it is about to take.                              *)
Taking   == pc = "take" \/ (pc \in Calls /\ back = "take")
Promised == held \cup {r \in todo : Taking} \cup {r \in {cur} : pc = "spawn"}

(* Who lives is held; slots are due only while the loop starts them.       *)
Held == CrashTakesWorkers => \A r \in Run : IsAlive(r) => r \in held
Dues == dues # {} => pc = "start" \/ (pc \in Calls /\ back = "start")
Fits == Held /\ Dues /\ Cardinality(Promised) + Cardinality(dues) <= MaxRunning

(* The step promises nobody a worker.                                      *)
Shrinks == Promised' \subseteq Promised /\ dues' \subseteq dues

LEMMA EnqueueShrinks ==
    ASSUME Inductive, Held, Dues, NEW s \in Wanted, Enqueue(s)
    PROVE  Held' /\ Dues' /\ Shrinks
  BY RunsAssumption DEF Held, Dues, Shrinks, Promised, Taking, IsAlive, Inductive,
     RowsOK, WorkersOK, LoopOK, PlaceOK, ListsOK, rows, worker, loop, Calls, Backs,
     Enqueue, CanStart, Insert

LEMMA AskShrinks ==
    ASSUME Inductive, Held, Dues, NEW r \in Run, NEW what \in Requests, Ask(r, what)
    PROVE  Held' /\ Dues' /\ Shrinks
  BY RunsAssumption DEF Held, Dues, Shrinks, Promised, Taking, IsAlive, Inductive,
     RowsOK, WorkersOK, LoopOK, PlaceOK, ListsOK, rows, worker, loop, Calls, Backs,
     Ask

LEMMA AskCommitShrinks ==
    ASSUME Inductive, Held, Dues, NEW r \in Run, AskCommit(r)
    PROVE  Held' /\ Dues' /\ Shrinks
  BY RunsAssumption DEF Held, Dues, Shrinks, Promised, Taking, IsAlive, Inductive,
     RowsOK, WorkersOK, LoopOK, PlaceOK, ListsOK, rows, worker, loop, Calls, Backs,
     AskCommit, CloseAs, Verdicts

LEMMA BatchCommitShrinks ==
    ASSUME Inductive, Held, Dues, NEW r \in Run, BatchCommit(r)
    PROVE  Held' /\ Dues' /\ Shrinks
  BY RunsAssumption DEF Held, Dues, Shrinks, Promised, Taking, IsAlive, Inductive,
     RowsOK, WorkersOK, LoopOK, PlaceOK, ListsOK, rows, worker, loop, Calls, Backs,
     BatchCommit, Goes

LEMMA ReportCommitShrinks ==
    ASSUME Inductive, Held, Dues, NEW r \in Run, ReportCommit(r)
    PROVE  Held' /\ Dues' /\ Shrinks
  BY RunsAssumption DEF Held, Dues, Shrinks, Promised, Taking, IsAlive, Inductive,
     RowsOK, WorkersOK, LoopOK, PlaceOK, ListsOK, rows, worker, loop, Calls, Backs,
     ReportCommit, CloseAs, Verdicts, Goes

LEMMA ReadSliceShrinks ==
    ASSUME Inductive, Held, Dues, NEW r \in Run, ReadSlice(r)
    PROVE  Held' /\ Dues' /\ Shrinks
  BY RunsAssumption DEF Held, Dues, Shrinks, Promised, Taking, IsAlive, Inductive,
     RowsOK, WorkersOK, LoopOK, PlaceOK, ListsOK, rows, worker, loop, Calls, Backs,
     ReadSlice

LEMMA HandOverShrinks ==
    ASSUME Inductive, Held, Dues, NEW r \in Run, HandOver(r)
    PROVE  Held' /\ Dues' /\ Shrinks
  BY RunsAssumption DEF Held, Dues, Shrinks, Promised, Taking, IsAlive, Inductive,
     RowsOK, WorkersOK, LoopOK, PlaceOK, ListsOK, rows, worker, loop, Calls, Backs,
     HandOver, Goes

LEMMA CollectedShrinks ==
    ASSUME Inductive, Held, Dues, NEW r \in Run, Collected(r)
    PROVE  Held' /\ Dues' /\ Shrinks
  BY RunsAssumption DEF Held, Dues, Shrinks, Promised, Taking, IsAlive, Inductive,
     RowsOK, WorkersOK, LoopOK, PlaceOK, ListsOK, rows, worker, loop, Calls, Backs,
     Collected, Goes

LEMMA ReportShrinks ==
    ASSUME Inductive, Held, Dues, NEW r \in Run, Report(r)
    PROVE  Held' /\ Dues' /\ Shrinks
  BY RunsAssumption DEF Held, Dues, Shrinks, Promised, Taking, IsAlive, Inductive,
     RowsOK, WorkersOK, LoopOK, PlaceOK, ListsOK, rows, worker, loop, Calls, Backs,
     Report, Goes

LEMMA DieShrinks ==
    ASSUME Inductive, Held, Dues, NEW r \in Run, Die(r)
    PROVE  Held' /\ Dues' /\ Shrinks
  BY RunsAssumption DEF Held, Dues, Shrinks, Promised, Taking, IsAlive, Inductive,
     RowsOK, WorkersOK, LoopOK, PlaceOK, ListsOK, rows, worker, loop, Calls, Backs,
     Die, Goes, Lost

LEMMA StartShrinks ==
    ASSUME Inductive, Held, Dues, Start
    PROVE  Held' /\ Dues' /\ Shrinks
  BY RunsAssumption DEF Held, Dues, Shrinks, Promised, Taking, IsAlive, Inductive,
     RowsOK, WorkersOK, LoopOK, PlaceOK, ListsOK, rows, worker, loop, Calls, Backs,
     Start, At, To

LEMMA ReapAskShrinks ==
    ASSUME Inductive, Held, Dues, ReapAsk
    PROVE  Held' /\ Dues' /\ Shrinks
  BY RunsAssumption DEF Held, Dues, Shrinks, Promised, Taking, IsAlive, Inductive,
     RowsOK, WorkersOK, LoopOK, PlaceOK, ListsOK, rows, worker, loop, Calls, Backs,
     ReapAsk, At, To

LEMMA ReapAnswerShrinks ==
    ASSUME Inductive, Held, Dues, ReapAnswer
    PROVE  Held' /\ Dues' /\ Shrinks
  BY RunsAssumption DEF Held, Dues, Shrinks, Promised, Taking, IsAlive, Inductive,
     RowsOK, WorkersOK, LoopOK, PlaceOK, ListsOK, rows, worker, loop, Calls, Backs,
     ReapAnswer, At, To

LEMMA KillCancelledShrinks ==
    ASSUME Inductive, Held, Dues, KillCancelled
    PROVE  Held' /\ Dues' /\ Shrinks
  BY RunsAssumption DEF Held, Dues, Shrinks, Promised, Taking, IsAlive, Inductive,
     RowsOK, WorkersOK, LoopOK, PlaceOK, ListsOK, rows, worker, loop, Calls, Backs,
     KillCancelled, At, To, Drop, Gone, Goes, Lost, Abort

LEMMA CollectAliveShrinks ==
    ASSUME Inductive, Held, Dues, NEW r \in Run, CollectAlive(r)
    PROVE  Held' /\ Dues' /\ Shrinks
  BY RunsAssumption DEF Held, Dues, Shrinks, Promised, Taking, IsAlive, Inductive,
     RowsOK, WorkersOK, LoopOK, PlaceOK, ListsOK, rows, worker, loop, Calls, Backs,
     CollectAlive, At

LEMMA CollectOverdueShrinks ==
    ASSUME Inductive, Held, Dues, NEW r \in Run, CollectOverdue(r)
    PROVE  Held' /\ Dues' /\ Shrinks
  BY RunsAssumption DEF Held, Dues, Shrinks, Promised, Taking, IsAlive, Inductive,
     RowsOK, WorkersOK, LoopOK, PlaceOK, ListsOK, rows, worker, loop, Calls, Backs,
     CollectOverdue, At, To, Drop, Gone, Goes, Lost, Call

LEMMA CollectBrokenShrinks ==
    ASSUME Inductive, Held, Dues, NEW r \in Run, CollectBroken(r)
    PROVE  Held' /\ Dues' /\ Shrinks
  BY RunsAssumption DEF Held, Dues, Shrinks, Promised, Taking, IsAlive, Inductive,
     RowsOK, WorkersOK, LoopOK, PlaceOK, ListsOK, rows, worker, loop, Calls, Backs,
     CollectBroken, At, To, Drop, Gone, Goes, Lost, Call

LEMMA CollectDeferredShrinks ==
    ASSUME Inductive, Held, Dues, NEW r \in Run, CollectDeferred(r)
    PROVE  Held' /\ Dues' /\ Shrinks
  BY RunsAssumption DEF Held, Dues, Shrinks, Promised, Taking, IsAlive, Inductive,
     RowsOK, WorkersOK, LoopOK, PlaceOK, ListsOK, rows, worker, loop, Calls, Backs,
     CollectDeferred, At, Drop, Gone, Goes, Lost

LEMMA CollectWellShrinks ==
    ASSUME Inductive, Held, Dues, NEW r \in Run, CollectWell(r)
    PROVE  Held' /\ Dues' /\ Shrinks
  BY RunsAssumption DEF Held, Dues, Shrinks, Promised, Taking, IsAlive, Inductive,
     RowsOK, WorkersOK, LoopOK, PlaceOK, ListsOK, rows, worker, loop, Calls, Backs,
     CollectWell, At, To, Drop, Gone, Goes, Lost, Call

LEMMA CollectFailsShrinks ==
    ASSUME Inductive, Held, Dues, NEW r \in Run, CollectFails(r)
    PROVE  Held' /\ Dues' /\ Shrinks
  BY RunsAssumption DEF Held, Dues, Shrinks, Promised, Taking, IsAlive, Inductive,
     RowsOK, WorkersOK, LoopOK, PlaceOK, ListsOK, rows, worker, loop, Calls, Backs,
     CollectFails, At, To, Drop, Gone, Goes, Lost, Abort

LEMMA SettleEndShrinks ==
    ASSUME Inductive, Held, Dues, SettleEnd
    PROVE  Held' /\ Dues' /\ Shrinks
  BY RunsAssumption DEF Held, Dues, Shrinks, Promised, Taking, IsAlive, Inductive,
     RowsOK, WorkersOK, LoopOK, PlaceOK, ListsOK, rows, worker, loop, Calls, Backs,
     SettleEnd, At, To, Return

LEMMA CloseReadShrinks ==
    ASSUME Inductive, Held, Dues, CloseRead
    PROVE  Held' /\ Dues' /\ Shrinks
  BY RunsAssumption DEF Held, Dues, Shrinks, Promised, Taking, IsAlive, Inductive,
     RowsOK, WorkersOK, LoopOK, PlaceOK, ListsOK, rows, worker, loop, Calls, Backs,
     CloseRead, At, To, Return

LEMMA CloseCommitShrinks ==
    ASSUME Inductive, Held, Dues, CloseCommit
    PROVE  Held' /\ Dues' /\ Shrinks
  BY RunsAssumption DEF Held, Dues, Shrinks, Promised, Taking, IsAlive, Inductive,
     RowsOK, WorkersOK, LoopOK, PlaceOK, ListsOK, rows, worker, loop, Calls, Backs,
     CloseCommit, CloseAs, At, To, Return

LEMMA TakeShrinks ==
    ASSUME Inductive, Held, Dues, Take
    PROVE  Held' /\ Dues' /\ Shrinks
  BY RunsAssumption DEF Held, Dues, Shrinks, Promised, Taking, IsAlive, Inductive,
     RowsOK, WorkersOK, LoopOK, PlaceOK, ListsOK, rows, worker, loop, Calls, Backs,
     Take, Call, At, To

LEMMA TickDoneShrinks ==
    ASSUME Inductive, Held, Dues, TickDone
    PROVE  Held' /\ Dues' /\ Shrinks
  BY RunsAssumption DEF Held, Dues, Shrinks, Promised, Taking, IsAlive, Inductive,
     RowsOK, WorkersOK, LoopOK, PlaceOK, ListsOK, rows, worker, loop, Calls, Backs,
     TickDone, At, To

LEMMA SpawnShrinks ==
    ASSUME Inductive, Held, Dues, Spawn
    PROVE  Held' /\ Dues' /\ Shrinks
  BY RunsAssumption DEF Held, Dues, Shrinks, Promised, Taking, IsAlive, Inductive,
     RowsOK, WorkersOK, LoopOK, PlaceOK, ListsOK, rows, worker, loop, Calls, Backs,
     Spawn, Goes, Return, At, To

LEMMA ShutdownOneShrinks ==
    ASSUME Inductive, Held, Dues, ShutdownOne
    PROVE  Held' /\ Dues' /\ Shrinks
  BY RunsAssumption DEF Held, Dues, Shrinks, Promised, Taking, IsAlive, Inductive,
     RowsOK, WorkersOK, LoopOK, PlaceOK, ListsOK, rows, worker, loop, Calls, Backs,
     ShutdownOne, Drop, Gone, Goes, Lost, Call, At, To

LEMMA ShutdownDoneShrinks ==
    ASSUME Inductive, Held, Dues, ShutdownDone
    PROVE  Held' /\ Dues' /\ Shrinks
  BY RunsAssumption DEF Held, Dues, Shrinks, Promised, Taking, IsAlive, Inductive,
     RowsOK, WorkersOK, LoopOK, PlaceOK, ListsOK, rows, worker, loop, Calls, Backs,
     ShutdownDone, At, To

LEMMA ReleaseShrinks ==
    ASSUME Inductive, Held, Dues, Release
    PROVE  Held' /\ Dues' /\ Shrinks
  BY RunsAssumption DEF Held, Dues, Shrinks, Promised, Taking, IsAlive, Inductive,
     RowsOK, WorkersOK, LoopOK, PlaceOK, ListsOK, rows, worker, loop, Calls, Backs,
     Release, At, To

LEMMA StopShrinks ==
    ASSUME Inductive, Held, Dues, Stop
    PROVE  Held' /\ Dues' /\ Shrinks
  BY RunsAssumption DEF Held, Dues, Shrinks, Promised, Taking, IsAlive, Inductive,
     RowsOK, WorkersOK, LoopOK, PlaceOK, ListsOK, rows, worker, loop, Calls, Backs,
     Stop, At, To

LEMMA RaiseShrinks ==
    ASSUME Inductive, Held, Dues, Raise
    PROVE  Held' /\ Dues' /\ Shrinks
  BY RunsAssumption DEF Held, Dues, Shrinks, Promised, Taking, IsAlive, Inductive,
     RowsOK, WorkersOK, LoopOK, PlaceOK, ListsOK, rows, worker, loop, Calls, Backs,
     Raise, Abort, InDatabase, To

LEMMA ExitShrinks ==
    ASSUME Inductive, Held, Dues, Exit
    PROVE  Held' /\ Dues' /\ Shrinks
  BY RunsAssumption DEF Held, Dues, Shrinks, Promised, Taking, IsAlive, Inductive,
     RowsOK, WorkersOK, LoopOK, PlaceOK, ListsOK, rows, worker, loop, Calls, Backs,
     Exit, At, To

LEMMA RollbackShrinks ==
    ASSUME Inductive, Held, Dues, NEW r \in Run, Rollback(r)
    PROVE  Held' /\ Dues' /\ Shrinks
  BY RunsAssumption DEF Held, Dues, Shrinks, Promised, Taking, IsAlive, Inductive,
     RowsOK, WorkersOK, LoopOK, PlaceOK, ListsOK, rows, worker, loop, Calls, Backs,
     Rollback

LEMMA QueueReparsesShrinks ==
    ASSUME Inductive, Held, Dues, NEW S \in Selections, QueueReparses(S)
    PROVE  Held' /\ Dues' /\ Shrinks
<1>1. UNCHANGED <<worker, loop>>
  BY DEF QueueReparses
<1>. QED
  BY <1>1 DEF Held, Dues, Shrinks, Promised, Taking, IsAlive, worker, loop

LEMMA SlotsFinite == IsFiniteSet(Slot)
<1>1. Kind = ({"full"} \cup {"quick"}) \cup {"reparse"}
  OBVIOUS
<1>2. IsFiniteSet(Kind)
  <2>. HIDE DEF Kind
  <2>. QED
    BY <1>1, FS_Singleton, FS_Union
<1>. QED
  BY <1>2, FS_Product, RunsAssumption

(* What the loop names is finite. *)
LEMMA Finite ==
    ASSUME Inductive
    PROVE  /\ IsFiniteSet(1..n) /\ IsFiniteSet(held) /\ IsFiniteSet(dues) /\ IsFiniteSet(Promised)
           /\ Cardinality(held) \in Nat /\ Cardinality(dues) \in Nat
           /\ Cardinality(Promised) \in Nat
<1>1. n \in Nat
  BY Ids DEF Inductive
<1>2. IsFiniteSet(1..n)
  BY <1>1, FS_Interval
<1>3. held \subseteq 1..n /\ Promised \subseteq 1..n
  <2>1. held \subseteq 1..n /\ todo \subseteq 1..n
    BY DEF Inductive, LoopOK, ListsOK
  <2>2. pc = "spawn" => cur \in 1..n
    BY <1>1 DEF Inductive, LoopOK, PlaceOK, Calls
  <2>. QED
    BY <2>1, <2>2 DEF Promised
<1>4. IsFiniteSet(held) /\ IsFiniteSet(Promised)
  BY <1>2, <1>3, FS_Subset
<1>5. IsFiniteSet(dues)
  BY SlotsFinite, FS_Subset DEF Inductive, LoopOK, ListsOK
<1>. QED
  BY <1>2, <1>4, <1>5, FS_CardinalityType

(* A step that promises nothing keeps to what is allowed. *)
LEMMA ShrinksFits ==
    ASSUME Inductive, Fits, Shrinks, Inductive', Held', Dues'
    PROVE  Fits'
<1>1. Cardinality(Promised') <= Cardinality(Promised) /\ Cardinality(dues') <= Cardinality(dues)
  BY Finite, FS_Subset DEF Shrinks
<1>2. /\ Cardinality(Promised) \in Nat /\ Cardinality(dues) \in Nat
      /\ Cardinality(Promised') \in Nat /\ Cardinality(dues') \in Nat
  <2>1. IsFiniteSet(Promised') /\ IsFiniteSet(dues')
    BY Finite, FS_Subset DEF Shrinks
  <2>. QED
    BY <2>1, Finite, FS_CardinalityType
<1>3. Cardinality(Promised') + Cardinality(dues') <= MaxRunning
  BY <1>1, <1>2, RunsAssumption DEF Fits
<1>. QED
  BY <1>3 DEF Fits

(* The first queued runs there is room for. *)
LEMMA TickFits ==
    ASSUME Inductive, Fits, Tick, Inductive'
    PROVE  Fits'
<1>1. UNCHANGED <<worker, held, dues>> /\ dues = {} /\ pc' # "spawn"
  BY DEF Tick, Fits, Dues, worker, To, At, Calls
<1>2. Held' /\ Dues'
  BY <1>1 DEF Fits, Held, Dues, IsAlive, worker
<1>3. /\ IsFiniteSet(held) /\ Cardinality(held) \in Nat /\ Cardinality(dues') = 0
      /\ Cardinality(held) <= MaxRunning
  <2>1. Cardinality(held) <= Cardinality(Promised)
    BY Finite, FS_Subset DEF Promised
  <2>2. Cardinality(dues) = 0
    BY <1>1, FS_EmptySet
  <2>. QED
    BY <1>1, <2>1, <2>2, Finite, RunsAssumption DEF Fits
<1>4. CASE Cardinality(held) < MaxRunning
  <2>. DEFINE first == {r \in Queued : Cardinality(Below(Queued, r)) < Room}
  <2>1. Queued \in SUBSET Nat /\ IsFiniteSet(Queued) /\ Room \in Nat
    <3>1. \A r \in Run : status[r] = "queued" => r \in 1..n
      BY RunsAssumption DEF Inductive, RowsOK
    <3>2. Queued \subseteq 1..n
      BY <3>1 DEF Queued
    <3>3. IsFiniteSet(Queued)
      BY <3>2, Finite, FS_Subset
    <3>4. Room \in Nat
      BY <1>3, <1>4, RunsAssumption DEF Room
    <3>. QED
      BY <3>2, <3>3, <3>4
  <2>2. IsFiniteSet(first) /\ Cardinality(first) \in Nat /\ Cardinality(first) <= Room
    BY <2>1, FirstFew
  <2>3. Promised' \subseteq held \cup first
    BY <1>1, <1>4 DEF Tick, Promised, Below
  <2>4. /\ IsFiniteSet(held \cup first) /\ Cardinality(held \cup first) \in Nat
        /\ Cardinality(held \cup first) <= Cardinality(held) + Cardinality(first)
    <3>. HIDE DEF first
    <3>1. IsFiniteSet(held \cap first)
      BY <1>3, FS_Subset
    <3>. QED
      BY <1>3, <2>2, <3>1, FS_Union, FS_CardinalityType
  <2>5. Cardinality(Promised') <= Cardinality(held \cup first) /\ Cardinality(Promised') \in Nat
    <3>. HIDE DEF first
    <3>. QED
      BY <2>3, <2>4, FS_Subset, FS_CardinalityType
  <2>6. Cardinality(Promised') <= MaxRunning
    <3>. HIDE DEF first
    <3>. QED
      BY <1>3, <2>2, <2>4, <2>5, RunsAssumption DEF Room
  <2>. QED
    BY <1>2, <1>3, <2>5, <2>6, RunsAssumption DEF Fits
<1>5. CASE ~(Cardinality(held) < MaxRunning)
  <2>1. Shrinks
    BY <1>1, <1>5 DEF Tick, Shrinks, Promised, Taking, To, At, Calls
  <2>. QED
    BY <1>2, <2>1, ShrinksFits
<1>. QED
  BY <1>4, <1>5

(* As many slots as there is room for; nothing is being taken any more. *)
LEMMA DueFits ==
    ASSUME Inductive, Fits, Due, Inductive'
    PROVE  Fits'
<1>1. UNCHANGED <<worker, held>> /\ pc' = "start"
      /\ (dues' # {} => Cardinality(dues') + Cardinality(held) <= MaxRunning)
  BY DEF Due, worker, To
<1>2. Held' /\ Dues'
  BY <1>1 DEF Fits, Held, Dues, IsAlive, worker
<1>3. Promised' = held
  BY <1>1 DEF Promised, Taking, Calls
<1>4. CASE dues' = {}
  <2>1. Shrinks
    BY <1>3, <1>4 DEF Shrinks, Promised
  <2>. QED
    BY <1>2, <2>1, ShrinksFits
<1>5. CASE dues' # {}
  <2>1. IsFiniteSet(dues') /\ Cardinality(dues') \in Nat
    <3>1. dues' \subseteq Slot
      BY DEF Inductive, LoopOK, ListsOK
    <3>. QED
      BY <3>1, SlotsFinite, FS_Subset, FS_CardinalityType
  <2>. QED
    BY <1>1, <1>2, <1>3, <1>5, <2>1, Finite, RunsAssumption DEF Fits
<1>. QED
  BY <1>4, <1>5

(* A slot that was due becomes a run that is spawned. *)
LEMMA StartDueFits ==
    ASSUME Inductive, Fits, StartDue, Inductive'
    PROVE  Fits'
<1>1. PICK s \in dues :
        /\ dues' = dues \ {s}
        /\ \/ pc' = "spawn" /\ cur' = n + 1 /\ back' = "start"
           \/ UNCHANGED <<pc, cur, back>>
  BY DEF StartDue, Call, To
<1>2. UNCHANGED <<worker, held, todo>> /\ pc = "start"
  BY DEF StartDue, worker, At
<1>3. Held' /\ Dues'
  BY <1>1, <1>2 DEF Fits, Held, Dues, IsAlive, worker, Calls
<1>4. Promised = held
  BY <1>2 DEF Promised, Taking, Calls
<1>5. CASE pc' = "spawn" /\ cur' = n + 1 /\ back' = "start"
  <2>1. Promised' = held \cup {n + 1}
    BY <1>2, <1>5 DEF Promised, Taking
  <2>2. Cardinality(Promised') <= Cardinality(held) + 1 /\ Cardinality(Promised') \in Nat
    <3>1. IsFiniteSet(held \cup {n + 1})
          /\ Cardinality(held \cup {n + 1}) \in {Cardinality(held), Cardinality(held) + 1}
      BY Finite, FS_AddElement
    <3>. QED
      BY <2>1, <3>1, Finite
  <2>3. Cardinality(dues') = Cardinality(dues) - 1
    BY <1>1, Finite, FS_RemoveElement
  <2>4. Cardinality(Promised') + Cardinality(dues') <= MaxRunning
    BY <1>4, <2>2, <2>3, Finite, RunsAssumption DEF Fits
  <2>. QED
    BY <1>3, <2>4 DEF Fits
<1>6. CASE UNCHANGED <<pc, cur, back>>
  <2>1. Shrinks
    BY <1>1, <1>2, <1>6 DEF Shrinks, Promised, Taking
  <2>. QED
    BY <1>3, <2>1, ShrinksFits
<1>. QED
  BY <1>1, <1>5, <1>6

LEMMA StepFits ==
    ASSUME Inductive, Fits, [Next]_vars, Inductive'
    PROVE  Fits'
<1>. Held /\ Dues
  BY DEF Fits
<1>. SUFFICES ASSUME ~Tick, ~Due, ~StartDue PROVE Held' /\ Dues' /\ Shrinks
  BY TickFits, DueFits, StartDueFits, ShrinksFits
<1>1. CASE UNCHANGED vars
  BY <1>1 DEF vars, worker, loop, Held, Dues, Shrinks, Promised, Taking, IsAlive
<1>2. CASE Person
  BY <1>2, EnqueueShrinks, QueueReparsesShrinks, AskShrinks DEF Person
<1>3. CASE \E r \in Run : Api(r) \/ Worker(r)
  BY <1>3, AskCommitShrinks, BatchCommitShrinks, ReportCommitShrinks, ReadSliceShrinks,
     HandOverShrinks, CollectedShrinks, ReportShrinks, DieShrinks DEF Api, Worker
<1>4. CASE Scheduler
  <2>1. CASE Start \/ ReapAsk \/ ReapAnswer \/ KillCancelled
    BY <2>1, StartShrinks, ReapAskShrinks, ReapAnswerShrinks, KillCancelledShrinks
  <2>2. CASE \E r \in Run : \/ CollectAlive(r) \/ CollectOverdue(r) \/ CollectBroken(r)
                            \/ CollectDeferred(r) \/ CollectWell(r)
    BY <2>2, CollectAliveShrinks, CollectOverdueShrinks, CollectBrokenShrinks,
       CollectDeferredShrinks, CollectWellShrinks
  <2>3. CASE SettleEnd \/ CloseRead \/ CloseCommit
    BY <2>3, SettleEndShrinks, CloseReadShrinks, CloseCommitShrinks
  <2>4. CASE Tick \/ Take \/ Due \/ StartDue \/ TickDone \/ Spawn
    BY <2>4, TakeShrinks, TickDoneShrinks, SpawnShrinks
  <2>5. CASE ShutdownOne \/ ShutdownDone \/ Release \/ Fail
    BY <2>5, ShutdownOneShrinks, ShutdownDoneShrinks, ReleaseShrinks, ExitShrinks DEF Fail
  <2>. QED
    BY <1>4, <2>1, <2>2, <2>3, <2>4, <2>5 DEF Scheduler
<1>5. CASE Fault
  BY <1>5, CollectFailsShrinks, RollbackShrinks, StopShrinks, RaiseShrinks, ExitShrinks
  DEF Fault, Crash
<1>. QED
  BY <1>1, <1>2, <1>3, <1>4, <1>5 DEF Next

(* No more workers live than the scheduler may run, over any number of     *)
(* crashes, stops and errors in the middle of a tick, as long as they die  *)
(* with its container.                                                     *)
THEOREM AllowedKept == Spec => []NoMoreThanAllowed
<1>1. Init => Fits
  <2>. SUFFICES ASSUME Init PROVE Fits
    OBVIOUS
  <2>1. Held /\ Dues /\ Promised = {} /\ dues = {}
    BY DEF Init, Held, Dues, Promised, Taking, IsAlive, Calls
  <2>. QED
    BY <2>1, FS_EmptySet, RunsAssumption DEF Fits
<1>2. Fits /\ [Next]_vars /\ Inductive /\ Inductive' => Fits'
  BY StepFits
<1>3. Inductive /\ Fits => NoMoreThanAllowed
  <2>. SUFFICES ASSUME Inductive, Fits, CrashTakesWorkers
                PROVE  Cardinality({r \in Run : IsAlive(r)}) <= MaxRunning
    BY DEF NoMoreThanAllowed
  <2>. DEFINE living == {r \in Run : IsAlive(r)}
  <2>1. living \subseteq Promised
    BY DEF Fits, Held, Promised
  <2>2. Cardinality(living) <= Cardinality(Promised) /\ Cardinality(living) \in Nat
    <3>. HIDE DEF living
    <3>. QED
      BY <2>1, Finite, FS_Subset, FS_CardinalityType
  <2>. QED
    BY <2>2, Finite, RunsAssumption DEF Fits
<1>. QED
  BY <1>1, <1>2, <1>3, AlwaysOwned, PTL DEF Spec

-----------------------------------------------------------------------------
(* Whose runs are settled. *)

OnlyCancels == Requests \subseteq {"cancel"}
WellEnded   == {"ok", "rejected", "cancelled"}

(* Nobody has settled run r, and nobody will.                              *)
Unsettled(r) == proc[r] \in {"none", "gone"} /\ phase[r] = "none"

(* A worker that exited well has reported, and so has the worker of a run  *)
(* that is settled, which is gone: no other report of it is on its way. A  *)
(* run the loop is closing was not settled, one it is starting is new, and *)
(* one it is settling is marked so.                                        *)
Judged ==
    /\ \A r \in Run : proc[r] = "exit0" => status[r] \in WellEnded /\ call[r] = "none"
    /\ \A r \in Run : phase[r] # "none" =>
          status[r] \in WellEnded /\ call[r] = "none" /\ proc[r] = "gone"
    /\ pc \in {"close", "closing"} => Unsettled(cur)
    /\ pc = "spawn" => Unsettled(cur) /\ proc[cur] = "none"
    /\ pc = "settling" => phase[cur] # "none"

LEMMA EnqueueJudged ==
    ASSUME Inductive, Owned, Judged, OnlyCancels, NEW s \in Wanted, Enqueue(s), Inductive'
    PROVE  Judged'
  BY RunsAssumption DEF Judged, WellEnded, Unsettled, OnlyCancels, IsAlive, Waiting, Owned, Inductive, RowsOK,
     WorkersOK, LoopOK, PlaceOK, ListsOK, rows, worker, loop, Calls, Backs, Enqueue,
     CanStart, Insert

LEMMA AskJudged ==
    ASSUME Inductive, Owned, Judged, OnlyCancels, NEW r \in Run, NEW what \in Requests, Ask(r, what), Inductive'
    PROVE  Judged'
  BY RunsAssumption DEF Judged, WellEnded, Unsettled, OnlyCancels, IsAlive, Waiting, Owned, Inductive, RowsOK,
     WorkersOK, LoopOK, PlaceOK, ListsOK, rows, worker, loop, Calls, Backs, Ask

LEMMA AskCommitJudged ==
    ASSUME Inductive, Owned, Judged, OnlyCancels, NEW r \in Run, AskCommit(r), Inductive'
    PROVE  Judged'
  BY RunsAssumption DEF Judged, WellEnded, Unsettled, OnlyCancels, IsAlive, Waiting, Owned, Inductive, RowsOK,
     WorkersOK, LoopOK, PlaceOK, ListsOK, rows, worker, loop, Calls, Backs, AskCommit,
     CloseAs, Verdicts

LEMMA BatchCommitJudged ==
    ASSUME Inductive, Owned, Judged, OnlyCancels, NEW r \in Run, BatchCommit(r), Inductive'
    PROVE  Judged'
  BY RunsAssumption DEF Judged, WellEnded, Unsettled, OnlyCancels, IsAlive, Waiting, Owned, Inductive, RowsOK,
     WorkersOK, LoopOK, PlaceOK, ListsOK, rows, worker, loop, Calls, Backs, BatchCommit, Goes

LEMMA ReportCommitJudged ==
    ASSUME Inductive, Owned, Judged, OnlyCancels, NEW r \in Run, ReportCommit(r), Inductive'
    PROVE  Judged'
  BY RunsAssumption DEF Judged, WellEnded, Unsettled, OnlyCancels, IsAlive, Waiting, Owned, Inductive, RowsOK,
     WorkersOK, LoopOK, PlaceOK, ListsOK, rows, worker, loop, Calls, Backs, ReportCommit,
     CloseAs, Verdicts, Goes, IsAlive

LEMMA ReadSliceJudged ==
    ASSUME Inductive, Owned, Judged, OnlyCancels, NEW r \in Run, ReadSlice(r), Inductive'
    PROVE  Judged'
  BY RunsAssumption DEF Judged, WellEnded, Unsettled, OnlyCancels, IsAlive, Waiting, Owned, Inductive, RowsOK,
     WorkersOK, LoopOK, PlaceOK, ListsOK, rows, worker, loop, Calls, Backs, ReadSlice

LEMMA HandOverJudged ==
    ASSUME Inductive, Owned, Judged, OnlyCancels, NEW r \in Run, HandOver(r), Inductive'
    PROVE  Judged'
  BY RunsAssumption DEF Judged, WellEnded, Unsettled, OnlyCancels, IsAlive, Waiting, Owned, Inductive, RowsOK,
     WorkersOK, LoopOK, PlaceOK, ListsOK, rows, worker, loop, Calls, Backs, HandOver, Goes

LEMMA CollectedJudged ==
    ASSUME Inductive, Owned, Judged, OnlyCancels, NEW r \in Run, Collected(r), Inductive'
    PROVE  Judged'
  BY RunsAssumption DEF Judged, WellEnded, Unsettled, OnlyCancels, IsAlive, Waiting, Owned, Inductive, RowsOK,
     WorkersOK, LoopOK, PlaceOK, ListsOK, rows, worker, loop, Calls, Backs, Collected, Goes

LEMMA ReportJudged ==
    ASSUME Inductive, Owned, Judged, OnlyCancels, NEW r \in Run, Report(r), Inductive'
    PROVE  Judged'
  BY RunsAssumption DEF Judged, WellEnded, Unsettled, OnlyCancels, IsAlive, Waiting, Owned, Inductive, RowsOK,
     WorkersOK, LoopOK, PlaceOK, ListsOK, rows, worker, loop, Calls, Backs, Report, Goes

LEMMA DieJudged ==
    ASSUME Inductive, Owned, Judged, OnlyCancels, NEW r \in Run, Die(r), Inductive'
    PROVE  Judged'
  BY RunsAssumption DEF Judged, WellEnded, Unsettled, OnlyCancels, IsAlive, Waiting, Owned, Inductive, RowsOK,
     WorkersOK, LoopOK, PlaceOK, ListsOK, rows, worker, loop, Calls, Backs, Die, Goes, Lost,
     IsAlive

LEMMA StartJudged ==
    ASSUME Inductive, Owned, Judged, OnlyCancels, Start, Inductive'
    PROVE  Judged'
  BY RunsAssumption DEF Judged, WellEnded, Unsettled, OnlyCancels, IsAlive, Waiting, Owned, Inductive, RowsOK,
     WorkersOK, LoopOK, PlaceOK, ListsOK, rows, worker, loop, Calls, Backs, Start, At, To

LEMMA ReapAskJudged ==
    ASSUME Inductive, Owned, Judged, OnlyCancels, ReapAsk, Inductive'
    PROVE  Judged'
  BY RunsAssumption DEF Judged, WellEnded, Unsettled, OnlyCancels, IsAlive, Waiting, Owned, Inductive, RowsOK,
     WorkersOK, LoopOK, PlaceOK, ListsOK, rows, worker, loop, Calls, Backs, ReapAsk, At, To,
     IsAlive

LEMMA ReapAnswerJudged ==
    ASSUME Inductive, Owned, Judged, OnlyCancels, ReapAnswer, Inductive'
    PROVE  Judged'
  BY RunsAssumption DEF Judged, WellEnded, Unsettled, OnlyCancels, IsAlive, Waiting, Owned, Inductive, RowsOK,
     WorkersOK, LoopOK, PlaceOK, ListsOK, rows, worker, loop, Calls, Backs, ReapAnswer, At,
     To

LEMMA KillCancelledJudged ==
    ASSUME Inductive, Owned, Judged, OnlyCancels, KillCancelled, Inductive'
    PROVE  Judged'
  BY RunsAssumption DEF Judged, WellEnded, Unsettled, OnlyCancels, IsAlive, Waiting, Owned, Inductive, RowsOK,
     WorkersOK, LoopOK, PlaceOK, ListsOK, rows, worker, loop, Calls, Backs, KillCancelled,
     At, To, Drop, Gone, Goes, Lost, Abort, IsAlive

LEMMA CollectAliveJudged ==
    ASSUME Inductive, Owned, Judged, OnlyCancels, NEW r \in Run, CollectAlive(r), Inductive'
    PROVE  Judged'
  BY RunsAssumption DEF Judged, WellEnded, Unsettled, OnlyCancels, IsAlive, Waiting, Owned, Inductive, RowsOK,
     WorkersOK, LoopOK, PlaceOK, ListsOK, rows, worker, loop, Calls, Backs, CollectAlive, At

LEMMA CollectOverdueJudged ==
    ASSUME Inductive, Owned, Judged, OnlyCancels, NEW r \in Run, CollectOverdue(r), Inductive'
    PROVE  Judged'
  BY RunsAssumption DEF Judged, WellEnded, Unsettled, OnlyCancels, IsAlive, Waiting, Owned, Inductive, RowsOK,
     WorkersOK, LoopOK, PlaceOK, ListsOK, rows, worker, loop, Calls, Backs, CollectOverdue,
     At, To, Drop, Gone, Goes, Lost, Call

LEMMA CollectBrokenJudged ==
    ASSUME Inductive, Owned, Judged, OnlyCancels, NEW r \in Run, CollectBroken(r), Inductive'
    PROVE  Judged'
  BY RunsAssumption DEF Judged, WellEnded, Unsettled, OnlyCancels, IsAlive, Waiting, Owned, Inductive, RowsOK,
     WorkersOK, LoopOK, PlaceOK, ListsOK, rows, worker, loop, Calls, Backs, CollectBroken,
     At, To, Drop, Gone, Goes, Lost, Call

LEMMA CollectDeferredJudged ==
    ASSUME Inductive, Owned, Judged, OnlyCancels, NEW r \in Run, CollectDeferred(r), Inductive'
    PROVE  Judged'
  BY RunsAssumption DEF Judged, WellEnded, Unsettled, OnlyCancels, IsAlive, Waiting, Owned, Inductive, RowsOK,
     WorkersOK, LoopOK, PlaceOK, ListsOK, rows, worker, loop, Calls, Backs, CollectDeferred,
     At, Drop, Gone, Goes, Lost

LEMMA CollectWellJudged ==
    ASSUME Inductive, Owned, Judged, OnlyCancels, NEW r \in Run, CollectWell(r), Inductive'
    PROVE  Judged'
  BY RunsAssumption DEF Judged, WellEnded, Unsettled, OnlyCancels, IsAlive, Waiting, Owned, Inductive, RowsOK,
     WorkersOK, LoopOK, PlaceOK, ListsOK, rows, worker, loop, Calls, Backs, CollectWell, At,
     To, Drop, Gone, Goes, Lost, Call

LEMMA CollectFailsJudged ==
    ASSUME Inductive, Owned, Judged, OnlyCancels, NEW r \in Run, CollectFails(r), Inductive'
    PROVE  Judged'
  BY RunsAssumption DEF Judged, WellEnded, Unsettled, OnlyCancels, IsAlive, Waiting, Owned, Inductive, RowsOK,
     WorkersOK, LoopOK, PlaceOK, ListsOK, rows, worker, loop, Calls, Backs, CollectFails, At,
     To, Drop, Gone, Goes, Lost, Abort

LEMMA SettleEndJudged ==
    ASSUME Inductive, Owned, Judged, OnlyCancels, SettleEnd, Inductive'
    PROVE  Judged'
  BY RunsAssumption DEF Judged, WellEnded, Unsettled, OnlyCancels, IsAlive, Waiting, Owned, Inductive, RowsOK,
     WorkersOK, LoopOK, PlaceOK, ListsOK, rows, worker, loop, Calls, Backs, SettleEnd, At,
     To, Return

LEMMA CloseReadJudged ==
    ASSUME Inductive, Owned, Judged, OnlyCancels, CloseRead, Inductive'
    PROVE  Judged'
  BY RunsAssumption DEF Judged, WellEnded, Unsettled, OnlyCancels, IsAlive, Waiting, Owned, Inductive, RowsOK,
     WorkersOK, LoopOK, PlaceOK, ListsOK, rows, worker, loop, Calls, Backs, CloseRead, At,
     To, Return

LEMMA CloseCommitJudged ==
    ASSUME Inductive, Owned, Judged, OnlyCancels, CloseCommit, Inductive'
    PROVE  Judged'
  BY RunsAssumption DEF Judged, WellEnded, Unsettled, OnlyCancels, IsAlive, Waiting, Owned, Inductive, RowsOK,
     WorkersOK, LoopOK, PlaceOK, ListsOK, rows, worker, loop, Calls, Backs, CloseCommit,
     CloseAs, At, To, Return

LEMMA TickJudged ==
    ASSUME Inductive, Owned, Judged, OnlyCancels, Tick, Inductive'
    PROVE  Judged'
  BY RunsAssumption DEF Judged, WellEnded, Unsettled, OnlyCancels, IsAlive, Waiting, Owned, Inductive, RowsOK,
     WorkersOK, LoopOK, PlaceOK, ListsOK, rows, worker, loop, Calls, Backs, Tick, Queued, At,
     To

LEMMA TakeJudged ==
    ASSUME Inductive, Owned, Judged, OnlyCancels, Take, Inductive'
    PROVE  Judged'
<1>1. PICK r \in todo :
          \/ /\ status[r] = "queued"
             /\ status' = [status EXCEPT ![r] = "running"]
             /\ pc' = "spawn" /\ cur' = r
          \/ UNCHANGED <<status, pc, cur>> /\ pc = "take"
  BY DEF Take, Call, To, At
<1>2. UNCHANGED <<proc, call, phase>> /\ r \in Run
  <2>1. r \in Run
    BY RunsAssumption DEF Inductive, LoopOK, ListsOK, RowsOK
  <2>. QED
    BY <2>1 DEF Take, worker
<1>3. CASE status[r] = "queued" /\ status' = [status EXCEPT ![r] = "running"]
                                /\ pc' = "spawn" /\ cur' = r
  <2>1. proc[r] = "none" /\ phase[r] = "none"
    BY <1>2, <1>3 DEF Owned, Waiting, Judged, WellEnded
  <2>2. \A q \in Run : status[q] \in WellEnded => status'[q] = status[q]
    BY <1>2, <1>3 DEF Inductive, RowsOK, WellEnded
  <2>. QED
    BY <1>2, <1>3, <2>1, <2>2 DEF Judged, Unsettled
<1>4. CASE UNCHANGED <<status, pc, cur>> /\ pc = "take"
  BY <1>2, <1>4 DEF Judged, Unsettled
<1>. QED
  BY <1>1, <1>3, <1>4

LEMMA DueJudged ==
    ASSUME Inductive, Owned, Judged, OnlyCancels, Due, Inductive'
    PROVE  Judged'
  BY RunsAssumption DEF Judged, WellEnded, Unsettled, OnlyCancels, IsAlive, Waiting, Owned, Inductive, RowsOK,
     WorkersOK, LoopOK, PlaceOK, ListsOK, rows, worker, loop, Calls, Backs, Due, At, To

LEMMA StartDueJudged ==
    ASSUME Inductive, Owned, Judged, OnlyCancels, StartDue, Inductive'
    PROVE  Judged'
  BY RunsAssumption DEF Judged, WellEnded, Unsettled, OnlyCancels, IsAlive, Waiting, Owned, Inductive, RowsOK,
     WorkersOK, LoopOK, PlaceOK, ListsOK, rows, worker, loop, Calls, Backs, StartDue,
     CanStart, Insert, Call, At, To

LEMMA TickDoneJudged ==
    ASSUME Inductive, Owned, Judged, OnlyCancels, TickDone, Inductive'
    PROVE  Judged'
  BY RunsAssumption DEF Judged, WellEnded, Unsettled, OnlyCancels, IsAlive, Waiting, Owned, Inductive, RowsOK,
     WorkersOK, LoopOK, PlaceOK, ListsOK, rows, worker, loop, Calls, Backs, TickDone, At, To

LEMMA SpawnJudged ==
    ASSUME Inductive, Owned, Judged, OnlyCancels, Spawn, Inductive'
    PROVE  Judged'
  BY RunsAssumption DEF Judged, WellEnded, Unsettled, OnlyCancels, IsAlive, Waiting, Owned, Inductive, RowsOK,
     WorkersOK, LoopOK, PlaceOK, ListsOK, rows, worker, loop, Calls, Backs, Spawn, Goes,
     Return, At, To

LEMMA ShutdownOneJudged ==
    ASSUME Inductive, Owned, Judged, OnlyCancels, ShutdownOne, Inductive'
    PROVE  Judged'
  BY RunsAssumption DEF Judged, WellEnded, Unsettled, OnlyCancels, IsAlive, Waiting, Owned, Inductive, RowsOK,
     WorkersOK, LoopOK, PlaceOK, ListsOK, rows, worker, loop, Calls, Backs, ShutdownOne,
     Drop, Gone, Goes, Lost, Call, At, To

LEMMA ShutdownDoneJudged ==
    ASSUME Inductive, Owned, Judged, OnlyCancels, ShutdownDone, Inductive'
    PROVE  Judged'
  BY RunsAssumption DEF Judged, WellEnded, Unsettled, OnlyCancels, IsAlive, Waiting, Owned, Inductive, RowsOK,
     WorkersOK, LoopOK, PlaceOK, ListsOK, rows, worker, loop, Calls, Backs, ShutdownDone, At,
     To

LEMMA ReleaseJudged ==
    ASSUME Inductive, Owned, Judged, OnlyCancels, Release, Inductive'
    PROVE  Judged'
  BY RunsAssumption DEF Judged, WellEnded, Unsettled, OnlyCancels, IsAlive, Waiting, Owned, Inductive, RowsOK,
     WorkersOK, LoopOK, PlaceOK, ListsOK, rows, worker, loop, Calls, Backs, Release, At, To

LEMMA StopJudged ==
    ASSUME Inductive, Owned, Judged, OnlyCancels, Stop, Inductive'
    PROVE  Judged'
  BY RunsAssumption DEF Judged, WellEnded, Unsettled, OnlyCancels, IsAlive, Waiting, Owned, Inductive, RowsOK,
     WorkersOK, LoopOK, PlaceOK, ListsOK, rows, worker, loop, Calls, Backs, Stop, At, To

LEMMA RaiseJudged ==
    ASSUME Inductive, Owned, Judged, OnlyCancels, Raise, Inductive'
    PROVE  Judged'
  BY RunsAssumption DEF Judged, WellEnded, Unsettled, OnlyCancels, IsAlive, Waiting, Owned, Inductive, RowsOK,
     WorkersOK, LoopOK, PlaceOK, ListsOK, rows, worker, loop, Calls, Backs, Raise, Abort,
     InDatabase, To

LEMMA ExitJudged ==
    ASSUME Inductive, Owned, Judged, OnlyCancels, Exit, Inductive'
    PROVE  Judged'
  BY RunsAssumption DEF Judged, WellEnded, Unsettled, OnlyCancels, IsAlive, Waiting, Owned, Inductive, RowsOK,
     WorkersOK, LoopOK, PlaceOK, ListsOK, rows, worker, loop, Calls, Backs, Exit, At, To

LEMMA RollbackJudged ==
    ASSUME Inductive, Owned, Judged, OnlyCancels, NEW r \in Run, Rollback(r), Inductive'
    PROVE  Judged'
  BY RunsAssumption DEF Judged, WellEnded, Unsettled, OnlyCancels, IsAlive, Waiting, Owned, Inductive, RowsOK,
     WorkersOK, LoopOK, PlaceOK, ListsOK, rows, worker, loop, Calls, Backs, Rollback, loop

LEMMA QueueReparsesJudged ==
    ASSUME Inductive, Judged, NEW S \in Selections, QueueReparses(S)
    PROVE  Judged'
<1>1. UNCHANGED <<worker, loop, phase>>
  BY DEF QueueReparses
<1>2. \A r \in Run : status[r] \in WellEnded => status'[r] = status[r]
  <2>1. \A r \in Run : r > n => status[r] = "none"
    BY DEF Inductive, RowsOK
  <2>2. \A r \in Run : r <= n => status'[r] = status[r]
    BY NewReparses DEF Inductive
  <2>. QED
    BY <2>1, <2>2, Ids DEF Inductive, WellEnded
<1>. QED
  BY <1>1, <1>2 DEF Judged, Unsettled, worker, loop

LEMMA StepJudged ==
    ASSUME Inductive, Owned, Judged, OnlyCancels, [Next]_vars, Inductive'
    PROVE  Judged'
<1>1. CASE UNCHANGED vars
  BY <1>1 DEF vars, rows, worker, loop, Judged, Unsettled
<1>2. CASE Person
  BY <1>2, EnqueueJudged, QueueReparsesJudged, AskJudged DEF Person
<1>3. CASE \E r \in Run : Api(r) \/ Worker(r)
  BY <1>3, AskCommitJudged, BatchCommitJudged, ReportCommitJudged, ReadSliceJudged,
     HandOverJudged,
     CollectedJudged, ReportJudged, DieJudged DEF Api, Worker
<1>4. CASE Scheduler
  <2>1. CASE Start \/ ReapAsk \/ ReapAnswer \/ KillCancelled
    BY <2>1, StartJudged, ReapAskJudged, ReapAnswerJudged, KillCancelledJudged
  <2>2. CASE \E r \in Run : \/ CollectAlive(r) \/ CollectOverdue(r) \/ CollectBroken(r)
                            \/ CollectDeferred(r) \/ CollectWell(r)
    BY <2>2, CollectAliveJudged, CollectOverdueJudged, CollectBrokenJudged,
       CollectDeferredJudged,
       CollectWellJudged
  <2>3. CASE SettleEnd \/ CloseRead \/ CloseCommit
    BY <2>3, SettleEndJudged, CloseReadJudged, CloseCommitJudged
  <2>4. CASE Tick \/ Take \/ Due \/ StartDue \/ TickDone \/ Spawn
    BY <2>4, TickJudged, TakeJudged, DueJudged, StartDueJudged, TickDoneJudged, SpawnJudged
  <2>5. CASE ShutdownOne \/ ShutdownDone \/ Release \/ Fail
    BY <2>5, ShutdownOneJudged, ShutdownDoneJudged, ReleaseJudged, ExitJudged DEF Fail
  <2>. QED
    BY <1>4, <2>1, <2>2, <2>3, <2>4, <2>5 DEF Scheduler
<1>5. CASE Fault
  BY <1>5, CollectFailsJudged, RollbackJudged, StopJudged, RaiseJudged, ExitJudged DEF Fault,
     Crash
<1>. QED
  BY <1>1, <1>2, <1>3, <1>4, <1>5 DEF Next

(* What is settled, or put off, or tried to, is a run whose worker ended   *)
(* well, as long as nobody reports for a worker by hand: a report by hand  *)
(* that says "bad" may close a run that its worker has reported well, in   *)
(* the window CancelIsFinal is about.                                      *)
THEOREM SettledReported ==
    ASSUME Requests \subseteq {"cancel"}
    PROVE  Spec => []OnlyReportedIsSettled
<1>1. Init => Judged
  BY DEF Init, Judged, Unsettled
<1>2. Judged /\ [Next]_vars /\ Inductive /\ Owned /\ (Inductive /\ Owned)' => Judged'
  BY StepJudged DEF OnlyCancels
<1>3. Judged => OnlyReportedIsSettled
  BY DEF Judged, WellEnded, OnlyReportedIsSettled
<1>. QED
  BY <1>1, <1>2, <1>3, AlwaysOwned, PTL DEF Spec
=============================================================================
