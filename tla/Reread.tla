------------------------------- MODULE Reread -------------------------------
(***************************************************************************)
(* What a change to the registry asks for: the stored listings of a maker  *)
(* in a category, read again with the words as they are now, a batch per   *)
(* tick of the scheduler, and the catalogue settled after (BrandService.   *)
(* _ask_for_reread, Scheduler.reread, OfferService.reread_brand).          *)
(*                                                                         *)
(* A change and its request are one transaction, which holds the row of an *)
(* open request from the upsert to the commit; so does the loop from the   *)
(* select of a request to the end of the batch.  Settling holds nothing.   *)
(*                                                                         *)
(* Assumed of the quiet time: a batch of listings that loaded the words    *)
(* before a change has committed by the time the change is quiet.          *)
(***************************************************************************)
EXTENDS Naturals, FiniteSets

CONSTANTS Key,       \* maker and category, the key of uq_reread_requests_open
          Listing,   \* the ids of the listings
          KeyOf,     \* the key each listing belongs under
          Broken,    \* keys with a listing whose reading always fails
          Batch,     \* settings.reread_batch
          None,      \* no words loaded
          MaxLoaded, \* bound: listings being handed over at once
          MaxEdits,  \* bound: changes to the registry
          MaxFaults  \* bound: crashes, and failures of keys that are not broken

ASSUME RereadAssumption ==
    /\ Listing \subseteq Nat \ {0} /\ IsFiniteSet(Listing)
    /\ KeyOf \in [Listing -> Key] /\ Broken \subseteq Key
    /\ Batch \in Nat \ {0} /\ None \notin Nat
    /\ MaxLoaded \in Nat /\ MaxEdits \in Nat /\ MaxFaults \in Nat

VARIABLES
    words,  \* the last change of a key that has committed
    change, \* the change of a key whose transaction is open, 0 for none
    edits,  \* changes so far
    open,   \* whether a key has a request that is not finished
    asked,  \* its requested_at, the change it stands for
    quiet,  \* whether that is long enough ago
    after,  \* its after_offer_id
    failed, \* whether the last request of a key was closed with an error
    place,  \* where the loop stands with a request
    cur,    \* its key
    curAsked, \* the requested_at it was taken with
    page,   \* the listings of the batch
    faults, \* crashes and failures so far
    stored, \* the listings that are stored
    placed, \* those placed, or queued, under their key
    joined, \* the words of the key when a listing was placed
    read,   \* the words a listing was last read with
    batch   \* the words loaded by the pass that is handing a listing over

registry == <<words, change, edits>>
request  == <<open, asked, quiet, after, failed>>
loop     == <<place, cur, curAsked, page, faults>>
listings == <<stored, placed, joined, read, batch>>
vars     == <<registry, request, loop, listings>>

Place == {"idle", "reading", "settling", "failing"}

Init == /\ words = [k \in Key |-> 0] /\ change = [k \in Key |-> 0] /\ edits = 0
        /\ open = [k \in Key |-> FALSE] /\ asked = [k \in Key |-> 0]
        /\ quiet = [k \in Key |-> FALSE] /\ after = [k \in Key |-> 0]
        /\ failed = [k \in Key |-> FALSE]
        /\ place = "idle" /\ cur \in Key /\ curAsked = 0 /\ page = {} /\ faults = 0
        /\ stored \in SUBSET Listing /\ placed \in SUBSET stored
        /\ joined = [o \in Listing |-> 0] /\ read = [o \in Listing |-> 0]
        /\ batch = [o \in Listing |-> None]

-----------------------------------------------------------------------------
(* People change the registry, or ask for a re-read by hand. *)

(* The row of an open request belongs to the loop while it reads a batch.  *)
Locked(k) == place = "reading" /\ cur = k

(* Mutant of Ask, for CursorIsBehind: the change does not wait. *)
AskAtOnce(k) ==
    /\ change[k] = 0 /\ edits < MaxEdits
    /\ edits' = edits + 1
    /\ change' = [change EXCEPT ![k] = edits + 1]
    /\ UNCHANGED <<words, request, loop, listings>>

(* The change is written and its request asked for; nobody sees it yet. *)
Ask(k) ==
    /\ change[k] = 0 /\ ~Locked(k) /\ edits < MaxEdits
    /\ edits' = edits + 1
    /\ change' = [change EXCEPT ![k] = edits + 1]
    /\ UNCHANGED <<words, request, loop, listings>>

(* It commits: a request is opened, or the open one starts over. *)
AskCommit(k) ==
    /\ change[k] > 0
    /\ change' = [change EXCEPT ![k] = 0]
    /\ words' = [words EXCEPT ![k] = change[k]]
    /\ asked' = [asked EXCEPT ![k] = change[k]]
    /\ open' = [open EXCEPT ![k] = TRUE]
    /\ quiet' = [quiet EXCEPT ![k] = FALSE]
    /\ after' = [after EXCEPT ![k] = 0]
    /\ failed' = [failed EXCEPT ![k] = FALSE]
    /\ UNCHANGED <<edits, loop, listings>>

AskRolledBack(k) ==
    /\ change[k] > 0
    /\ change' = [change EXCEPT ![k] = 0]
    /\ UNCHANGED <<words, edits, request, loop, listings>>

(* Time passes; see the assumption above. *)
GoesQuiet(k) ==
    /\ open[k] /\ ~quiet[k]
    /\ \A o \in Listing : KeyOf[o] = k => batch[o] \in {None, words[k]}
    /\ quiet' = [quiet EXCEPT ![k] = TRUE]
    /\ UNCHANGED <<registry, open, asked, after, failed, loop, listings>>

-----------------------------------------------------------------------------
(* Passes hand listings over, and matching places them. *)

Load(o) == /\ batch[o] = None
           /\ Cardinality({p \in Listing : batch[p] # None}) < MaxLoaded
           /\ batch' = [batch EXCEPT ![o] = words[KeyOf[o]]]
           /\ UNCHANGED <<registry, request, loop, stored, placed, joined, read>>

HandOver(o) == /\ batch[o] # None
               /\ stored' = stored \union {o}
               /\ read' = [read EXCEPT ![o] = batch[o]]
               /\ batch' = [batch EXCEPT ![o] = None]
               /\ UNCHANGED <<registry, request, loop, placed, joined>>

Join(o) == /\ o \in stored \ placed
           /\ placed' = placed \union {o}
           /\ joined' = [joined EXCEPT ![o] = words[KeyOf[o]]]
           /\ UNCHANGED <<registry, request, loop, stored, read, batch>>

-----------------------------------------------------------------------------
(* The scheduler's loop. *)

(* Whether the select of the loop finds a request. *)
Ripe(k) == open[k] /\ quiet[k] /\ change[k] = 0

(* The first Batch members of the key behind the cursor, in order of id.   *)
PageOf(k) ==
    LET rest == {o \in placed : KeyOf[o] = k /\ o > after[k]}
    IN  {o \in rest : Cardinality({p \in rest : p < o}) < Batch}

Take(k) ==
    /\ place = "idle" /\ Ripe(k)
    /\ \A q \in Key : Ripe(q) => asked[k] <= asked[q]
    /\ place' = "reading" /\ cur' = k /\ curAsked' = asked[k] /\ page' = PageOf(k)
    /\ UNCHANGED <<registry, request, faults, listings>>

(* The batch is read with the words of the moment and the place is kept;   *)
(* a batch that is not full was the last, and the catalogue is settled.    *)
ReadPage ==
    /\ place = "reading" /\ cur \notin Broken
    /\ read' = [o \in Listing |-> IF o \in page THEN words[cur] ELSE read[o]]
    /\ IF Cardinality(page) = Batch
       THEN /\ place' = "idle"
            /\ after' = [after EXCEPT ![cur] = CHOOSE o \in page : \A p \in page : p <= o]
       ELSE place' = "settling" /\ UNCHANGED after
    /\ page' = {}
    /\ UNCHANGED <<registry, open, asked, quiet, failed, cur, curAsked, faults, stored, placed,
                   joined, batch>>

(* Reading or settling raises: what was not committed is rolled back. *)
Fails ==
    /\ place \in {"reading", "settling"}
    /\ IF place = "reading" /\ cur \in Broken THEN UNCHANGED faults
                                              ELSE faults < MaxFaults /\ faults' = faults + 1
    /\ place' = "failing" /\ page' = {}
    /\ UNCHANGED <<registry, request, cur, curAsked, listings>>

(* Mutant of Finish, for ReadSinceChanged: whatever came meanwhile. *)
FinishAnyway ==
    /\ place = "settling" /\ change[cur] = 0
    /\ open' = [open EXCEPT ![cur] = FALSE]
    /\ place' = "idle"
    /\ UNCHANGED <<registry, asked, quiet, after, failed, cur, curAsked, page, faults, listings>>

(* Settled: the request is finished unless it was asked again meanwhile. *)
Finish ==
    /\ place = "settling" /\ change[cur] = 0
    /\ open' = [open EXCEPT ![cur] = asked[cur] # curAsked]
    /\ place' = "idle"
    /\ UNCHANGED <<registry, asked, quiet, after, failed, cur, curAsked, page, faults, listings>>

(* Mutant of FailClose, for RequestsEnd: a failure is tried again. *)
FailAgain ==
    /\ place = "failing" /\ change[cur] = 0
    /\ failed' = [failed EXCEPT ![cur] = TRUE]
    /\ place' = "idle"
    /\ UNCHANGED <<registry, open, asked, quiet, after, cur, curAsked, page, faults, listings>>

(* The request is closed with its error, asked again meanwhile or not. *)
FailClose ==
    /\ place = "failing" /\ change[cur] = 0
    /\ open' = [open EXCEPT ![cur] = FALSE]
    /\ failed' = [failed EXCEPT ![cur] = TRUE]
    /\ place' = "idle"
    /\ UNCHANGED <<registry, asked, quiet, after, cur, curAsked, page, faults, listings>>

(* The scheduler goes away and is started again. *)
Crash ==
    /\ place # "idle" /\ faults < MaxFaults
    /\ place' = "idle" /\ page' = {} /\ faults' = faults + 1
    /\ UNCHANGED <<registry, request, cur, curAsked, listings>>

-----------------------------------------------------------------------------
Next == \/ \E k \in Key : Ask(k) \/ AskCommit(k) \/ AskRolledBack(k) \/ GoesQuiet(k) \/ Take(k)
        \/ \E o \in Listing : Load(o) \/ HandOver(o) \/ Join(o)
        \/ ReadPage \/ Fails \/ Finish \/ FailClose \/ Crash

Spec == Init /\ [][Next]_vars

(* Requests of people end, time passes, and the loop goes round.           *)
FairSpec ==
    /\ Spec
    /\ \A k \in Key : WF_vars(AskCommit(k) \/ AskRolledBack(k)) /\ WF_vars(GoesQuiet(k))
    /\ \A o \in Listing : WF_vars(HandOver(o))
    /\ WF_vars(\E k \in Key : Take(k))
    /\ WF_vars(ReadPage \/ Finish \/ FailClose)
    /\ WF_vars(Fails /\ cur \in Broken)

-----------------------------------------------------------------------------
(* The types; the loop holds an open request, by a change of its key.      *)
TypeOK ==
    /\ words \in [Key -> 0 .. edits] /\ change \in [Key -> 0 .. edits]
    /\ edits \in 0 .. MaxEdits
    /\ open \in [Key -> BOOLEAN] /\ asked = words
    /\ quiet \in [Key -> BOOLEAN] /\ failed \in [Key -> BOOLEAN]
    /\ after \in [Key -> Listing \union {0}]
    /\ place \in Place /\ cur \in Key /\ curAsked \in 0 .. edits
    /\ place # "idle" => open[cur]
    /\ page \subseteq {o \in placed : KeyOf[o] = cur}
    /\ faults \in 0 .. MaxFaults
    /\ stored \subseteq Listing /\ placed \subseteq stored
    /\ joined \in [Listing -> 0 .. edits] /\ read \in [Listing -> 0 .. edits]
    /\ batch \in [Listing -> (0 .. edits) \union {None}]

(* When a key's request was finished, every listing that was placed under  *)
(* it before the change has been read with the change's words, whatever    *)
(* other changes, batches, crashes and passes came in between              *)
(* (Scheduler.reread: a request is only finished if no change came).       *)
ReadSinceChanged ==
    \A o \in placed : LET k == KeyOf[o] IN
        ~open[k] /\ ~failed[k] /\ joined[o] < words[k] => read[o] = words[k]

(* The cursor never passes a listing that the words have not reached: a    *)
(* batch may be lost in a crash, and is then read again.                   *)
CursorIsBehind ==
    \A o \in placed : LET k == KeyOf[o] IN
        open[k] /\ o <= after[k] /\ joined[o] < words[k] => read[o] = words[k]

(* Every request ends once changes do, though the one before it in the     *)
(* order fail each time (a failure closes its request).                    *)
RequestsEnd == \A k \in Key : open[k] ~> ~open[k]

-----------------------------------------------------------------------------
(* What the documentation says and the code does not keep.                 *)

(* "A change arriving while one is read starts it over, because the pages  *)
(* already read used the words as they were" (brands/README.md:112): a     *)
(* request is closed by the change it was taken with, not by a later one.  *)
ChangeStartsOver == [][\A k \in Key : open[k] /\ ~open'[k] => asked[k] = curAsked]_vars
=============================================================================
