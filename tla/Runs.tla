-------------------------------- MODULE Runs --------------------------------
(***************************************************************************)
(* The table `runs` and everybody who writes to it: people through the     *)
(* admin API, the scheduler's loop, and one worker process per run that    *)
(* talks to the worker API.                                                *)
(*                                                                         *)
(* An API request is a transaction in READ COMMITTED that reads the row,   *)
(* decides, and writes at commit without having locked it, so it is two    *)
(* steps here: past its check, and committed.  Statements that decide in   *)
(* the database (begin, sweep, an insert under the unique index) are one.  *)
(***************************************************************************)
EXTENDS Naturals, FiniteSets

CONSTANTS Channel,           \* source ids; a smaller number is an older source
          HasQuick,          \* the channels with a non-empty delivers_quick
          Scheduled,         \* the slots an enabled channel has a cron for
          Wanted,            \* the slots people ask a run of
          Selections,        \* the channels a reparse request may cover
          MaxRunning,        \* settings.scheduler_max_running
          Requests,          \* what people do to a run: cancel it, or report
                             \* for it on the admin `finish` route
          CrashTakesWorkers, \* whether workers die with the scheduler, as
                             \* they do when its container goes
          MaxRuns,           \* bound: rows ever inserted
          MaxFaults          \* bound: crashes, stops and failed transactions

Kind == {"full", "quick", "reparse"}
Slot == Channel \X Kind
Run  == 1..MaxRuns

ASSUME RunsAssumption ==
    /\ Channel \subseteq Nat /\ Channel # {} /\ IsFiniteSet(Channel)
    /\ HasQuick \subseteq Channel
    /\ Scheduled \subseteq Channel \X {"full", "quick"}
    /\ Wanted \subseteq Slot
    /\ Selections \subseteq SUBSET Channel
    /\ MaxRunning \in Nat \ {0}
    /\ MaxRuns \in Nat
    /\ MaxFaults \in Nat
    /\ Requests \subseteq {"cancel", "good", "bad"}
    /\ CrashTakesWorkers \in BOOLEAN

VARIABLES
    n,        \* rows inserted so far; ids are given out in order
    slot,     \* source_id and kind of a row
    status,   \* its status, "none" before it is inserted
    finished, \* whether finished_at is set
    phase,    \* what the scheduler wrote to progress->phase
    owed,     \* runs whose settling was put off and not made up for since
    proc,     \* the worker process of a run
    slice,    \* what the worker has read and not yet handed over
    call,     \* the worker's request that is past its check
    ask,      \* people's requests that are past their check
    pc,       \* where the scheduler's loop is
    todo,     \* the runs it still has to visit there
    dues,     \* the due slots it still has to start
    cur,      \* the run it is spawning, closing or settling, 0 for none
    back,     \* where it goes after that
    held,     \* Scheduler.workers
    leaving,  \* past the loop, in shutdown
    faults    \* crashes, stops and failed transactions so far

rows   == <<n, slot, status, finished, phase, owed>>
worker == <<proc, slice, call>>
loop   == <<pc, todo, dues, cur, back, held, leaving>>
vars   == <<rows, worker, ask, loop, faults>>

Ended  == {"ok", "rejected", "failed", "interrupted", "cancelled"}
Status == {"none", "queued", "running"} \cup Ended
Alive  == {"reading", "good", "bad"}

Live(r)    == status[r] \in {"queued", "running"}
KindOf(r)  == slot[r][2]
Taken(s)   == \E r \in Run : Live(r) /\ slot[r] = s
IsAlive(r) == proc[r] \in Alive

Init ==
    /\ n = 0
    /\ slot     = [r \in Run |-> CHOOSE s \in Slot : TRUE]
    /\ status   = [r \in Run |-> "none"]
    /\ finished = [r \in Run |-> FALSE]
    /\ phase    = [r \in Run |-> "none"]
    /\ owed     = {}
    /\ proc     = [r \in Run |-> "none"]
    /\ slice    = [r \in Run |-> "none"]
    /\ call     = [r \in Run |-> "none"]
    /\ ask      = [r \in Run |-> {}]
    /\ pc = "down" /\ todo = {} /\ dues = {} /\ cur = 0 /\ back = "none"
    /\ held = {} /\ leaving = FALSE
    /\ faults = 0

-----------------------------------------------------------------------------
(* People, through the admin API. *)

(* Mutant of CanStart, for KeepsTheBoard: no unique index. *)
CanStartTwice(s) == n < MaxRuns /\ (s[2] = "quick" => s[1] \in HasQuick)

(* One row inserted in a slot: refused by the unique index when the slot   *)
(* is live, and before that when the channel has no quick pass.            *)
CanStart(s) == /\ n < MaxRuns
               /\ ~Taken(s)
               /\ s[2] = "quick" => s[1] \in HasQuick

Insert(s, how) == /\ n' = n + 1
                  /\ slot'   = [slot EXCEPT ![n + 1] = s]
                  /\ status' = [status EXCEPT ![n + 1] = how]
                  /\ UNCHANGED <<finished, phase, owed>>

Enqueue(s) == /\ CanStart(s)
              /\ Insert(s, "queued")
              /\ UNCHANGED <<worker, ask, loop, faults>>

(* A reparse of every channel of the selection that has none live, in one  *)
(* transaction, in the order of the channels' ids.                         *)
QueueReparses(S) ==
    LET new == {c \in S : ~Taken(<<c, "reparse">>)}
        ids == (n + 1)..(n + Cardinality(new))
    IN /\ new # {}
       /\ n + Cardinality(new) <= MaxRuns
       /\ \E at \in [new -> ids] :
            /\ \A c, d \in new : c < d => at[c] < at[d]
            /\ slot' = [r \in Run |-> IF \E c \in new : at[c] = r
                                      THEN <<CHOOSE c \in new : at[c] = r, "reparse">>
                                      ELSE slot[r]]
            /\ status' = [r \in Run |-> IF \E c \in new : at[c] = r
                                        THEN "queued" ELSE status[r]]
       /\ n' = n + Cardinality(new)
       /\ UNCHANGED <<finished, phase, owed, worker, ask, loop, faults>>

(* A cancel, or a report by hand, that found the row open. *)
Ask(r, what) == /\ what \notin ask[r]
                /\ status[r] # "none" /\ ~finished[r]
                /\ ask' = [ask EXCEPT ![r] = @ \cup {what}]
                /\ UNCHANGED <<rows, worker, loop, faults>>

(* Mutant of CloseAs, for TypeOK: finished_at is forgotten. *)
CloseAsOpen(r, how) == /\ status' = [status EXCEPT ![r] = how]
                       /\ UNCHANGED <<n, slot, finished, phase, owed>>

(* Closing a row writes the status and finished_at together, whatever the  *)
(* row says by then.                                                       *)
CloseAs(r, how) == /\ status'   = [status EXCEPT ![r] = how]
                   /\ finished' = [finished EXCEPT ![r] = TRUE]
                   /\ UNCHANGED <<n, slot, phase, owed>>

(* What a request closes the row as: the contract judges a report without  *)
(* an error.                                                               *)
Verdicts(report) == CASE report = "bad"    -> {"failed"}
                      [] report = "good"   -> {"ok", "rejected"}
                      [] report = "cancel" -> {"cancelled"}

AskCommit(r) ==
    /\ \E what \in ask[r] : /\ \E how \in Verdicts(what) : CloseAs(r, how)
                           /\ ask' = [ask EXCEPT ![r] = @ \ {what}]
    /\ UNCHANGED <<worker, loop, faults>>

-----------------------------------------------------------------------------
(* The worker of run r, one request at a time, and the API behind it. *)

Goes(r, to) == proc' = [proc EXCEPT ![r] = to]

(* A slice of listings is read. Whether the row was cancelled before that  *)
(* is remembered for the property LateSliceRefused.                        *)
ReadSlice(r) ==
    /\ proc[r] = "reading" /\ slice[r] = "none" /\ call[r] = "none"
    /\ slice' = [slice EXCEPT ![r] = IF status[r] = "cancelled" THEN "stale" ELSE "fresh"]
    /\ UNCHANGED <<rows, proc, call, ask, loop, faults>>

(* Mutant of HandOver, for LateSliceRefused: the status is not looked at. *)
HandOverUnchecked(r) ==
    /\ proc[r] = "reading" /\ slice[r] # "none" /\ call[r] = "none"
    /\ call' = [call EXCEPT ![r] = "batch"]
    /\ UNCHANGED <<rows, proc, slice, ask, loop, faults>>

(* It is handed over: refused when the run is cancelled and only then, and *)
(* a refusal ends the pass with an error.                                  *)
HandOver(r) ==
    /\ proc[r] = "reading" /\ slice[r] # "none" /\ call[r] = "none"
    /\ \/ /\ status[r] = "cancelled"
          /\ Goes(r, "bad")
          /\ slice' = [slice EXCEPT ![r] = "none"]
          /\ UNCHANGED call
       \/ /\ status[r] # "cancelled"
          /\ call' = [call EXCEPT ![r] = "batch"]
          /\ UNCHANGED <<proc, slice>>
    /\ UNCHANGED <<rows, ask, loop, faults>>

(* The batch commits, or fails and leaves the worker an error to report;   *)
(* either way whether its worker still lives or not.                       *)
BatchCommit(r) ==
    /\ call[r] = "batch"
    /\ call' = [call EXCEPT ![r] = "none"]
    /\ slice' = [slice EXCEPT ![r] = "none"]
    /\ \/ UNCHANGED proc
       \/ proc[r] = "reading" /\ Goes(r, "bad")
    /\ UNCHANGED <<rows, ask, loop, faults>>

(* The pass ends, with an error of its own or with everything handed over. *)
Collected(r) == /\ proc[r] = "reading" /\ slice[r] = "none" /\ call[r] = "none"
                /\ \E how \in {"good", "bad"} : Goes(r, how)
                /\ UNCHANGED <<rows, slice, call, ask, loop, faults>>

(* It reports; a run that is closed refuses, which ends it with exit 1.    *)
Report(r) == /\ proc[r] \in {"good", "bad"} /\ call[r] = "none"
             /\ \/ /\ finished[r]
                   /\ Goes(r, "exit1")
                   /\ UNCHANGED call
                \/ /\ ~finished[r]
                   /\ call' = [call EXCEPT ![r] = proc[r]]
                   /\ UNCHANGED proc
             /\ UNCHANGED <<rows, slice, ask, loop, faults>>

(* The report commits. The worker exits 0 only when it had no error to     *)
(* report and the answer reached it.                                       *)
ReportCommit(r) ==
    /\ call[r] \in {"good", "bad"}
    /\ \E how \in Verdicts(call[r]) : CloseAs(r, how)
    /\ call' = [call EXCEPT ![r] = "none"]
    /\ \/ ~IsAlive(r) /\ UNCHANGED proc
       \/ IsAlive(r) /\ Goes(r, "exit1")
       \/ IsAlive(r) /\ call[r] = "good" /\ Goes(r, "exit0")
    /\ UNCHANGED <<slice, ask, loop, faults>>

(* What is read and not yet sent is lost with the process; what the API    *)
(* has let past its check commits all the same.                            *)
Lost(r) == slice' = [slice EXCEPT ![r] = IF call[r] = "none" THEN "none" ELSE @]

(* It dies: a crash, or a service it could not reach. *)
Die(r) == /\ IsAlive(r)
          /\ Goes(r, "exit1")
          /\ Lost(r)
          /\ UNCHANGED <<rows, call, ask, loop, faults>>

-----------------------------------------------------------------------------
(* The scheduler. Its loop is reap, tick, sleep; the other calls of the    *)
(* loop (reread, beat, keep_the_day) touch no row of this table.           *)

At(here)  == pc = here
To(there) == pc' = there

(* A call the loop makes for one run, and its return. *)
Call(there, r, then) == To(there) /\ cur' = r /\ back' = then
Return == To(back) /\ cur' = 0 /\ back' = "none"

(* An error leaves the loop for shutdown, and shutdown for the end of the  *)
(* process; `left` are the workers still held.                             *)
Abort(left) == /\ IF leaving THEN To("fail") /\ todo' = {}
                             ELSE To("shutdown") /\ todo' = left
               /\ leaving' = TRUE
               /\ dues' = {} /\ cur' = 0 /\ back' = "none"

(* Mutant of Start, for QueuedOutlivesScheduler: the queue is swept too. *)
StartSweepingAll ==
    /\ At("down")
    /\ To("reap")
    /\ status'   = [r \in Run |-> IF Live(r) THEN "interrupted" ELSE status[r]]
    /\ finished' = [r \in Run |-> finished[r] \/ Live(r)]
    /\ UNCHANGED <<n, slot, phase, owed, worker, ask, todo, dues, cur, back, held, leaving,
                   faults>>

(* The lock is taken and every running row closed as interrupted. *)
Start ==
    /\ At("down")
    /\ To("reap")
    /\ status'   = [r \in Run |-> IF status[r] = "running" THEN "interrupted" ELSE status[r]]
    /\ finished' = [r \in Run |-> finished[r] \/ status[r] = "running"]
    /\ UNCHANGED <<n, slot, phase, owed, worker, ask, todo, dues, cur, back, held, leaving,
                   faults>>

(* reap, first half: which of the workers that are alive now belong to a   *)
(* run that was cancelled.                                                 *)
ReapAsk == /\ At("reap")
           /\ LET alive == {r \in held : IsAlive(r)}
              IN IF alive = {} THEN To("collect") /\ todo' = held
                               ELSE To("doomed") /\ todo' = alive
           /\ UNCHANGED <<rows, worker, ask, dues, cur, back, held, leaving, faults>>

(* Mutant of ReapAnswer, for CancelledWorkerDies: the answer is not used. *)
ReapAnswerUnused ==
    /\ At("doomed")
    /\ To("collect") /\ todo' = held
    /\ UNCHANGED <<rows, worker, ask, dues, cur, back, held, leaving, faults>>

ReapAnswer ==
    /\ At("doomed")
    /\ LET cancelled == {r \in todo : status[r] = "cancelled"}
       IN IF cancelled = {} THEN To("collect") /\ todo' = held
                            ELSE To("kill") /\ todo' = cancelled
    /\ UNCHANGED <<rows, worker, ask, dues, cur, back, held, leaving, faults>>

Gone(r) == Goes(r, "gone") /\ Lost(r) /\ UNCHANGED call

Drop(r) == held' = held \ {r}

(* Its worker is dropped and killed. One that exited since the question    *)
(* may be past killing, and that error ends the loop.                      *)
KillCancelled ==
    /\ At("kill")
    /\ \E r \in todo :
         /\ Drop(r)
         /\ Gone(r)
         /\ \/ /\ IF todo = {r} THEN To("collect") /\ todo' = held \ {r}
                                ELSE To("kill") /\ todo' = todo \ {r}
               /\ UNCHANGED <<dues, cur, back, leaving>>
            \/ ~IsAlive(r) /\ Abort(held \ {r})
    /\ UNCHANGED <<rows, ask, faults>>

(* reap, second half. A worker still working is let be; *)
CollectAlive(r) == /\ At("collect") /\ r \in todo /\ IsAlive(r)
                   /\ todo' = todo \ {r}
                   /\ UNCHANGED <<rows, worker, ask, pc, dues, cur, back, held, leaving,
                                  faults>>

(* one past its timeout is killed and its run closed; *)
CollectOverdue(r) == /\ At("collect") /\ r \in todo /\ IsAlive(r)
                     /\ todo' = todo \ {r}
                     /\ Drop(r) /\ Gone(r)
                     /\ Call("close", r, "collect")
                     /\ UNCHANGED <<rows, ask, dues, leaving, faults>>

(* Mutant of CollectBroken, for EveryRunEnds: its run is left open. *)
CollectBrokenUnclosed(r) ==
    /\ At("collect") /\ r \in todo /\ proc[r] = "exit1"
    /\ todo' = todo \ {r}
    /\ Drop(r) /\ Gone(r)
    /\ UNCHANGED <<rows, ask, pc, dues, cur, back, leaving, faults>>

(* so is the run of one that exited with an error; *)
CollectBroken(r) == /\ At("collect") /\ r \in todo /\ proc[r] = "exit1"
                    /\ todo' = todo \ {r}
                    /\ Drop(r) /\ Gone(r)
                    /\ Call("close", r, "collect")
                    /\ UNCHANGED <<rows, ask, dues, leaving, faults>>

ReparsesWaiting == \E q \in Run : Live(q) /\ KindOf(q) = "reparse"

(* of those that exited well, a reparse leaves the settling to the         *)
(* reparses still open,                                                    *)
CollectDeferred(r) ==
    /\ At("collect") /\ r \in todo /\ proc[r] = "exit0"
    /\ KindOf(r) = "reparse" /\ ReparsesWaiting
    /\ todo' = todo \ {r}
    /\ Drop(r) /\ Gone(r)
    /\ phase' = [phase EXCEPT ![r] = "settle_deferred"]
    /\ owed' = owed \cup {r}
    /\ UNCHANGED <<n, slot, status, finished, ask, pc, dues, cur, back, leaving, faults>>

(* Mutants of CollectWell: for OnlyReportedIsSettled, the exit code is not *)
(* looked at; for FullIsSettled, only a reparse is settled.                *)
CollectAnyExit(r) ==
    /\ At("collect") /\ r \in todo /\ proc[r] \in {"exit0", "exit1"}
    /\ KindOf(r) # "quick"
    /\ todo' = todo \ {r}
    /\ Drop(r) /\ Gone(r)
    /\ phase' = [phase EXCEPT ![r] = "settling"]
    /\ Call("settling", r, "collect")
    /\ UNCHANGED <<n, slot, status, finished, owed, ask, dues, leaving, faults>>

CollectUnsettled(r) ==
    /\ At("collect") /\ r \in todo /\ proc[r] = "exit0"
    /\ KindOf(r) # "reparse"
    /\ todo' = todo \ {r}
    /\ Drop(r) /\ Gone(r)
    /\ UNCHANGED <<rows, ask, pc, dues, cur, back, leaving, faults>>

(* a full pass or the last reparse is settled, and a quick pass is not.    *)
CollectWell(r) ==
    /\ At("collect") /\ r \in todo /\ proc[r] = "exit0"
    /\ KindOf(r) = "reparse" => ~ReparsesWaiting
    /\ todo' = todo \ {r}
    /\ Drop(r) /\ Gone(r)
    /\ IF KindOf(r) = "quick"
       THEN UNCHANGED <<phase, pc, cur, back>>
       ELSE /\ phase' = [phase EXCEPT ![r] = "settling"]
            /\ Call("settling", r, "collect")
    /\ UNCHANGED <<n, slot, status, finished, owed, ask, dues, leaving, faults>>

(* The question to the database raised, when the worker was dropped. *)
CollectFails(r) ==
    /\ At("collect") /\ r \in todo /\ proc[r] = "exit0" /\ KindOf(r) = "reparse"
    /\ faults < MaxFaults /\ faults' = faults + 1
    /\ Drop(r) /\ Gone(r)
    /\ Abort(held \ {r})
    /\ UNCHANGED <<rows, ask>>

(* settle walks the whole queue, so it makes up for what was put off; when *)
(* it fails, the listings wait where they were.                            *)
SettleEnd ==
    /\ At("settling")
    /\ \/ /\ phase' = [phase EXCEPT ![cur] = "settled"]
          /\ owed' = {}
          /\ UNCHANGED faults
       \/ /\ faults < MaxFaults /\ faults' = faults + 1
          /\ phase' = [phase EXCEPT ![cur] = "unsettled"]
          /\ UNCHANGED owed
    /\ Return
    /\ UNCHANGED <<n, slot, status, finished, worker, ask, todo, dues, held, leaving>>

(* _finish: the conflict check, then the write. *)
CloseRead == /\ At("close")
             /\ IF finished[cur] THEN Return ELSE To("closing") /\ UNCHANGED <<cur, back>>
             /\ UNCHANGED <<rows, worker, ask, todo, dues, held, leaving, faults>>

CloseCommit == /\ At("closing")
               /\ CloseAs(cur, "failed")
               /\ Return
               /\ UNCHANGED <<worker, ask, todo, dues, held, leaving, faults>>

(* Mutants of Room: for NoMoreThanAllowed, and for QueuedIsTaken. *)
RoomAndOne == MaxRunning - Cardinality(held) + 1
RoomButOne == MaxRunning - Cardinality(held) - 1

Room == MaxRunning - Cardinality(held)

Queued == {r \in Run : status[r] = "queued"}

(* tick: the oldest queued runs there is room for are taken, one by one. *)
Tick == /\ At("collect") /\ todo = {} /\ ~leaving
        /\ IF Cardinality(held) < MaxRunning
           THEN /\ To("take")
                /\ todo' = {r \in Queued : Cardinality({q \in Queued : q < r}) < Room}
           ELSE To("reap") /\ UNCHANGED todo
        /\ UNCHANGED <<rows, worker, ask, dues, cur, back, held, leaving, faults>>

Take == /\ At("take")
        /\ \E r \in todo :
             /\ \A q \in todo : r <= q
             /\ todo' = todo \ {r}
             /\ \/ /\ status[r] = "queued"
                   /\ status' = [status EXCEPT ![r] = "running"]
                   /\ Call("spawn", r, "take")
                \/ status[r] # "queued" /\ UNCHANGED <<status, pc, cur, back>>
        /\ UNCHANGED <<n, slot, finished, phase, owed, worker, ask, dues, held, leaving, faults>>

(* due: which slots are due depends on the clock and the crons, and is any *)
(* choice of scheduled slots that are not live.                            *)
Due == /\ At("take") /\ todo = {}
       /\ \E D \in SUBSET {s \in Scheduled : ~Taken(s)} :
            /\ D # {} => Cardinality(D) + Cardinality(held) <= MaxRunning
            /\ dues' = D
       /\ To("start")
       /\ UNCHANGED <<rows, worker, ask, todo, cur, back, held, leaving, faults>>

StartDue == /\ At("start")
            /\ \E s \in dues :
                 /\ dues' = dues \ {s}
                 /\ IF CanStart(s)
                    THEN Insert(s, "running") /\ Call("spawn", n + 1, "start")
                    ELSE UNCHANGED <<rows, pc, cur, back>>
            /\ UNCHANGED <<worker, ask, todo, held, leaving, faults>>

TickDone == /\ At("start") /\ dues = {}
            /\ To("reap")
            /\ UNCHANGED <<rows, worker, ask, todo, dues, cur, back, held, leaving, faults>>

(* Mutant of Spawn, for RunningIsOwned: a worker that could not be started *)
(* is only logged.                                                         *)
SpawnLogged == /\ At("spawn")
               /\ Return
               /\ \/ held' = held \cup {cur} /\ Goes(cur, "reading")
                  \/ UNCHANGED <<held, proc>>
               /\ UNCHANGED <<rows, slice, call, ask, todo, dues, leaving, faults>>

(* _worker_for, of a row that is running since the transaction before. *)
Spawn == /\ At("spawn")
         /\ \/ /\ held' = held \cup {cur}
               /\ Goes(cur, "reading")
               /\ Return
            \/ To("close") /\ UNCHANGED <<held, proc, cur, back>>
         /\ UNCHANGED <<rows, slice, call, ask, todo, dues, leaving, faults>>

(* A signal was seen at the loop's top. *)
Stop == /\ At("reap") /\ ~leaving
        /\ faults < MaxFaults /\ faults' = faults + 1
        /\ To("shutdown") /\ todo' = held /\ leaving' = TRUE
        /\ UNCHANGED <<rows, worker, ask, dues, cur, back, held>>

(* shutdown: each worker is waited for, or killed and closed after half a  *)
(* minute; then what is left is reaped and the lock released.              *)
ShutdownOne ==
    /\ At("shutdown")
    /\ \E r \in todo :
         /\ todo' = todo \ {r}
         /\ \/ /\ ~IsAlive(r)
               /\ UNCHANGED <<worker, pc, held, cur, back>>
            \/ /\ IsAlive(r)
               /\ Drop(r) /\ Gone(r)
               /\ Call("close", r, "shutdown")
    /\ UNCHANGED <<rows, ask, dues, leaving, faults>>

ShutdownDone == /\ At("shutdown") /\ todo = {}
                /\ To("reap")
                /\ UNCHANGED <<rows, worker, ask, todo, dues, cur, back, held, leaving, faults>>

Release == /\ At("collect") /\ todo = {} /\ leaving
           /\ To("down") /\ leaving' = FALSE
           /\ UNCHANGED <<rows, worker, ask, todo, dues, cur, back, held, faults>>

(* A database call outside settle raises. *)
InDatabase == {"doomed", "close", "closing", "take", "start"}

Raise == /\ pc \in InDatabase
         /\ faults < MaxFaults /\ faults' = faults + 1
         /\ Abort(held)
         /\ UNCHANGED <<rows, worker, ask, held>>

(* The process ends without having cleaned up. *)
Exit ==
    /\ To("down")
    /\ held' = {} /\ todo' = {} /\ dues' = {} /\ cur' = 0 /\ back' = "none" /\ leaving' = FALSE
    /\ LET dead == {r \in Run : IsAlive(r) /\ CrashTakesWorkers}
       IN /\ proc'  = [r \in Run |-> IF r \in dead THEN "gone" ELSE proc[r]]
          /\ slice' = [r \in Run |-> IF r \in dead /\ call[r] = "none" THEN "none" ELSE slice[r]]
    /\ UNCHANGED <<rows, call, ask>>

Fail  == At("fail") /\ Exit /\ UNCHANGED faults
Crash == ~At("down") /\ faults < MaxFaults /\ faults' = faults + 1 /\ Exit

(* A request past its check is rolled back. *)
Rollback(r) ==
    /\ faults < MaxFaults /\ faults' = faults + 1
    /\ \/ /\ \E what \in ask[r] : ask' = [ask EXCEPT ![r] = @ \ {what}]
          /\ UNCHANGED worker
       \/ /\ call[r] \in {"good", "bad"}
          /\ call' = [call EXCEPT ![r] = "none"]
          /\ proc' = [proc EXCEPT ![r] = IF IsAlive(r) THEN "exit1" ELSE @]
          /\ UNCHANGED <<slice, ask>>
    /\ UNCHANGED <<rows, loop>>

-----------------------------------------------------------------------------
Person == \/ \E s \in Wanted : Enqueue(s)
          \/ \E S \in Selections : QueueReparses(S)
          \/ \E r \in Run, what \in Requests : Ask(r, what)

Api(r) == AskCommit(r) \/ BatchCommit(r) \/ ReportCommit(r)

Worker(r) == \/ ReadSlice(r) \/ HandOver(r) \/ Collected(r)
             \/ Report(r) \/ Die(r)

Scheduler ==
    \/ Start \/ ReapAsk \/ ReapAnswer \/ KillCancelled
    \/ \E r \in Run : \/ CollectAlive(r) \/ CollectOverdue(r) \/ CollectBroken(r)
                      \/ CollectDeferred(r) \/ CollectWell(r)
    \/ SettleEnd \/ CloseRead \/ CloseCommit
    \/ Tick \/ Take \/ Due \/ StartDue \/ TickDone \/ Spawn
    \/ ShutdownOne \/ ShutdownDone \/ Release \/ Fail

Fault == \/ \E r \in Run : CollectFails(r) \/ Rollback(r)
         \/ Stop \/ Raise \/ Crash

Next == \/ Person
        \/ \E r \in Run : Api(r) \/ Worker(r)
        \/ Scheduler
        \/ Fault

Spec == Init /\ [][Next]_vars

(* The scheduler runs (compose restarts it: restart: unless-stopped), and  *)
(* a request past its check commits or is rolled back.                     *)
Fairness == /\ WF_vars(Scheduler)
            /\ \A r \in Run : WF_vars(Api(r))

(* Besides, the clock brings every worker past its timeout, so that a loop *)
(* that keeps visiting a live worker does not for ever find it in time.    *)
FairSpec  == Spec /\ Fairness
ClockSpec == FairSpec /\ \A r \in Run : SF_vars(CollectOverdue(r))

-----------------------------------------------------------------------------
(* Every variable has its type, and finished_at is set exactly on the rows *)
(* that ended, so that the CHECK finished_matches_status never refuses a   *)
(* write of this code.                                                     *)
TypeOK ==
    /\ n \in 0..MaxRuns
    /\ slot \in [Run -> Slot]
    /\ status \in [Run -> Status]
    /\ finished \in [Run -> BOOLEAN]
    /\ phase \in [Run -> {"none", "settle_deferred", "settling", "settled", "unsettled"}]
    /\ owed \subseteq Run
    /\ proc \in [Run -> Alive \cup {"none", "exit0", "exit1", "gone"}]
    /\ slice \in [Run -> {"none", "fresh", "stale"}]
    /\ call \in [Run -> {"none", "batch", "good", "bad"}]
    /\ ask \in [Run -> SUBSET Requests]
    /\ pc \in {"down", "reap", "doomed", "kill", "collect", "settling", "close", "closing",
               "take", "spawn", "start", "shutdown", "fail"}
    /\ todo \subseteq Run /\ held \subseteq Run
    /\ dues \subseteq Slot
    /\ cur \in 0..MaxRuns
    /\ back \in {"none", "collect", "take", "start", "shutdown"}
    /\ leaving \in BOOLEAN
    /\ faults \in 0..MaxFaults
    /\ \A r \in Run : finished[r] <=> status[r] \in Ended

(* While the scheduler's loop runs, a run that says it is running has the  *)
(* scheduler behind it: it holds its worker, or is this moment giving it   *)
(* one or closing it. Otherwise the run would hold its channel's one live  *)
(* slot until the next restart (Worker's docstring, scheduler.py).         *)
RunningIsOwned ==
    pc # "down" /\ ~leaving =>
        \A r \in Run : status[r] = "running" =>
            r \in held \/ (r = cur /\ pc \in {"spawn", "close", "closing"})

(* No more workers live than SCHEDULER_MAX_RUNNING, over restarts too,     *)
(* where they die with the scheduler's container.                          *)
NoMoreThanAllowed ==
    CrashTakesWorkers => Cardinality({r \in Run : IsAlive(r)}) <= MaxRunning

(* "Nothing it reads after the cancel lands under the run" (RunService     *)
(* .cancel): a batch the service let past its check was read before.       *)
LateSliceRefused == \A r \in Run : call[r] = "batch" => slice[r] # "stale"

(* Settling is for runs whose worker ended well: one that broke, that was  *)
(* killed, or that a startup swept is never marked as placed.              *)
OnlyReportedIsSettled ==
    \A r \in Run : phase[r] # "none" => status[r] \in {"ok", "rejected", "cancelled"}

(* The table keeps what RunBoard promises: one live row per channel and    *)
(* kind, and a closed row never live again, whatever overtakes whatever.   *)
Board == INSTANCE RunBoard WITH
            stage <- [r \in Run |-> IF status[r] \in Ended THEN "closed" ELSE status[r]]
KeepsTheBoard == Board!BoardSpec

(* A queued run waits for the scheduler over any number of restarts: only  *)
(* being taken, or a person, ends its waiting.                             *)
QueuedOutlivesScheduler ==
    [][\A r \in Run : status[r] = "queued" =>
            status'[r] \in {"queued", "running"} \/ ask[r] # {}]_vars

(* Every run that is running ends: no channel's slot is held for ever.     *)
EveryRunEnds == \A r \in Run : status[r] = "running" ~> finished[r]

(* A queued run is taken, or cancelled. *)
QueuedIsTaken == \A r \in Run : status[r] = "queued" ~> status[r] # "queued"

(* The worker of a cancelled run is killed, without waiting for its hour.  *)
CancelledWorkerDies ==
    \A r \in Run : status[r] = "cancelled" /\ IsAlive(r) ~> ~IsAlive(r)

(* What a full pass brought in is settled once its worker exited well, as  *)
(* long as nobody asks to cancel that run and nothing crashes, even when   *)
(* killing the worker of another run ends the loop.                        *)
FullIsSettled ==
    \A r \in Run :
        [](ask[r] = {}) =>
            (proc[r] = "exit0" /\ KindOf(r) = "full" ~> phase[r] = "settled")

-----------------------------------------------------------------------------
(* What the documentation says and the code does not keep.                 *)

(* "A worker still talking in between is refused: its hand-overs and its   *)
(* own finish" (RunService.cancel): a cancelled run stays cancelled.       *)
CancelIsFinal ==
    [][\A r \in Run : status[r] = "cancelled" => status'[r] = "cancelled"]_vars

(* "Whether a reparse is queued or running, which will settle for this one *)
(* too" (RunService.reparses_waiting): a settling that was put off has a   *)
(* reparse still to come, as long as nobody settled.                       *)
DeferredHasAnHeir ==
    owed # {} => \/ ReparsesWaiting
                 \/ \E q \in held : KindOf(q) = "reparse"
                 \/ pc \in {"down", "settling"} \/ leaving
=============================================================================
