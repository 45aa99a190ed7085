--------------------------- MODULE MatchingProofs ---------------------------
(***************************************************************************)
(* What holds of the matching of listings for every value of its           *)
(* constants: first the judge's store (Verdicts), and then the placing of  *)
(* listings (Placement), with what its proofs need of sequences of rows.   *)
(***************************************************************************)
EXTENDS Verdicts, Placement, Ranks

Held == [Question -> Verdict \cup {NoRow}]

PassStage == {"idle", "asking", "storing", "taken", "done"}

PassRecord == [at: PassStage, results: Held, wrote: Held, reads: Held,
               takes: SUBSET (1..Listings), todo: SUBSET Question, lacked: SUBSET Question]

Typed == /\ live \in Held
         /\ past \in [Question -> SUBSET Verdict]
         /\ judging \in [Judging -> PassRecord]

(* A row that is written and not committed is the only one of its question *)
(* that is not forgotten, and its pass is writing.                         *)
OneRow == \A p \in Judging, q \in Question :
              judging[p].wrote[q] # NoRow =>
                  /\ live[q] = NoRow /\ judging[p].at \in {"storing", "taken"}
                  /\ \A o \in Judging \ {p} : judging[o].wrote[q] = NoRow

(* An answer a pass goes by is a row's, if only one it wrote itself.       *)
Known == \A p \in Judging, q \in Question :
             judging[p].reads[q] # NoRow =>
                 judging[p].reads[q] \in past[q] \cup {live[q], judging[p].wrote[q]}

Inductive == Typed /\ OneRow /\ Known

LEMMA RestingTyped == Resting \in PassRecord /\ NoVerdicts \in Held
  BY DEF Resting, NoVerdicts, PassRecord, Held, PassStage

LEMMA VerdictsInitInductive == VerdictsInit => Inductive
<1> SUFFICES ASSUME VerdictsInit
             PROVE  Inductive
  OBVIOUS
<1>1. /\ live = NoVerdicts /\ past = [q \in Question |-> {}]
      /\ judging = [p \in Judging |-> Resting]
  BY DEF VerdictsInit
<1>2. Resting.wrote = NoVerdicts /\ Resting.reads = NoVerdicts
  BY DEF Resting
<1>3. \A q \in Question : NoVerdicts[q] = NoRow
  BY DEF NoVerdicts
<1>4. Typed
  BY <1>1, RestingTyped DEF Typed
<1>5. OneRow
  BY <1>1, <1>2, <1>3 DEF OneRow
<1>6. Known
  BY <1>1, <1>2, <1>3 DEF Known
<1>. QED
  BY <1>4, <1>5, <1>6 DEF Inductive

LEMMA LookKeeps ==
    ASSUME Inductive, NEW p \in Judging, Look(p)
    PROVE  Inductive'
<1> DEFINE new == [Resting EXCEPT !.at = "asking", !.reads = live,
                         !.takes = Within(Lacking), !.lacked = {Asks[l] : l \in Lacking}]
<1> USE DEF Inductive
<1>1. judging' = [judging EXCEPT ![p] = new] /\ live' = live /\ past' = past
  BY DEF Look
<1>2. Within(Lacking) \subseteq 1..Listings /\ {Asks[l] : l \in Lacking} \subseteq Question
  BY VerdictsAssumption DEF Within, Lacking
<1>3. /\ new \in PassRecord /\ new.wrote = NoVerdicts /\ new.reads = live
  BY <1>2, RestingTyped DEF PassRecord, PassStage, Typed, Resting
<1> HIDE DEF new
<1>4. Typed'
  BY <1>1, <1>3 DEF Typed
<1>5. OneRow'
  BY <1>1, <1>3 DEF OneRow, Typed, NoVerdicts
<1>6. Known'
  BY <1>1, <1>3 DEF Known, Typed, NoVerdicts
<1>. QED
  BY <1>4, <1>5, <1>6

(* A pass that goes away takes its rows along.                             *)
LEMMA RestKeeps ==
    ASSUME Inductive, NEW p \in Judging, judging' = [judging EXCEPT ![p] = Resting],
           UNCHANGED <<live, past>>
    PROVE  Inductive'
<1> USE DEF Inductive
<1>1. /\ Resting \in PassRecord /\ Resting.wrote = NoVerdicts /\ Resting.reads = NoVerdicts
  BY RestingTyped DEF Resting
<1>2. Typed'
  BY <1>1 DEF Typed
<1>3. OneRow'
  BY <1>1 DEF OneRow, Typed, NoVerdicts
<1>4. Known'
  BY <1>1 DEF Known, Typed, NoVerdicts
<1>. QED
  BY <1>2, <1>3, <1>4

LEMMA AskAllKeeps ==
    ASSUME Inductive, NEW p \in Judging, AskAll(p)
    PROVE  Inductive'
<1> DEFINE ls == judging[p].takes
           asking == {Asks[l] : l \in ls}
<1> USE DEF Inductive
<1>1. judging[p].at = "asking" /\ UNCHANGED <<live, past>>
  BY DEF AskAll
<1>2. judging[p] \in PassRecord /\ asking \subseteq Question
  BY VerdictsAssumption DEF Typed, PassRecord
<1>3. PICK results \in [asking -> Verdict \cup {Failed}], breaks \in BOOLEAN :
         LET got == {q \in asking : results[q] # Failed} IN
         IF breaks
         THEN judging' = [judging EXCEPT ![p] = Resting] /\ excused' = TRUE
         ELSE /\ judging' = [judging EXCEPT
                   ![p].at = "storing", ![p].todo = got,
                   ![p].results = [q \in Question |-> IF q \in got THEN results[q] ELSE NoRow]]
              /\ UNCHANGED excused
  BY DEF AskAll
<1>4. CASE breaks
  BY <1>1, <1>3, <1>4, RestKeeps
<1>5. CASE ~breaks
  <2> DEFINE got == {q \in asking : results[q] # Failed}
             told == [q \in Question |-> IF q \in got THEN results[q] ELSE NoRow]
             new == [judging[p] EXCEPT !.at = "storing", !.todo = got, !.results = told]
  <2>1. got \subseteq Question /\ told \in Held
    BY <1>2 DEF Held
  <2>2. judging' = [judging EXCEPT ![p] = new]
    BY <1>3, <1>5 DEF Typed
  <2> HIDE DEF got, told
  <2>3. /\ new \in PassRecord /\ new.wrote = judging[p].wrote /\ new.reads = judging[p].reads
        /\ new.at = "storing"
    BY <1>2, <2>1 DEF PassRecord, PassStage
  <2> HIDE DEF new
  <2>4. Typed'
    BY <1>1, <2>2, <2>3 DEF Typed
  <2>5. OneRow'
    BY <1>1, <2>2, <2>3 DEF OneRow, Typed
  <2>6. Known'
    BY <1>1, <2>2, <2>3 DEF Known, Typed
  <2>. QED
    BY <2>4, <2>5, <2>6
<1>. QED
  BY <1>4, <1>5

LEMMA StoreKeeps ==
    ASSUME Inductive, NEW p \in Judging, NEW q \in Question, Store(p, q)
    PROVE  Inductive'
<1> USE DEF Inductive
<1>1. judging[p].at = "storing" /\ Insertable(p, q) /\ UNCHANGED <<live, past>>
  BY DEF Store
<1>2. judging[p] \in PassRecord
  BY DEF Typed
<1>3. CASE live[q] = NoRow
  <2> DEFINE a == judging[p].results[q]
             new == [judging[p] EXCEPT !.todo = @ \ {q}, !.wrote[q] = a, !.reads[q] = a]
  <2>1. judging' = [judging EXCEPT ![p] = new]
    BY <1>3 DEF Store, Typed
  <2>2. a \in Verdict \cup {NoRow}
    BY <1>2 DEF PassRecord, Held
  <2> HIDE DEF a
  <2>3. /\ new.wrote = [judging[p].wrote EXCEPT ![q] = a] /\ new.at = "storing"
        /\ new.reads = [judging[p].reads EXCEPT ![q] = a]
        /\ new \in PassRecord
    BY <1>1, <1>2, <2>2 DEF PassRecord, PassStage, Held
  <2> HIDE DEF new
  <2>4. Typed'
    BY <1>1, <2>1, <2>3 DEF Typed
  <2>5. OneRow'
    BY <1>1, <1>2, <1>3, <2>1, <2>3 DEF OneRow, Typed, Insertable, PassRecord, Held
  <2>6. Known'
    BY <1>1, <1>2, <2>1, <2>3 DEF Known, Typed, PassRecord, Held
  <2>. QED
    BY <2>4, <2>5, <2>6
<1>4. CASE live[q] # NoRow
  <2> DEFINE new == [judging[p] EXCEPT !.at = "taken"]
  <2>1. judging' = [judging EXCEPT ![p] = new]
    BY <1>4 DEF Store, Typed
  <2>2. /\ new.wrote = judging[p].wrote /\ new.reads = judging[p].reads /\ new.at = "taken"
        /\ new \in PassRecord
    BY <1>2 DEF PassRecord, PassStage
  <2> HIDE DEF new
  <2>3. Typed' /\ OneRow' /\ Known'
    BY <1>1, <2>1, <2>2 DEF Typed, OneRow, Known
  <2>. QED
    BY <2>3
<1>. QED
  BY <1>3, <1>4

LEMMA ConflictKeeps ==
    ASSUME Inductive, NEW p \in Judging, NEW q \in Question, Conflict(p, q)
    PROVE  Inductive'
<1> USE DEF Inductive
<1>1. judging[p].at = "taken" /\ UNCHANGED <<live, past>>
  BY DEF Conflict
<1>2. judging[p] \in PassRecord
  BY DEF Typed
<1>3. CASE live[q] # NoRow
  <2> DEFINE new == [judging[p] EXCEPT !.at = "storing", !.todo = @ \ {q}, !.reads[q] = live[q]]
  <2>1. judging' = [judging EXCEPT ![p] = new]
    BY <1>3 DEF Conflict, Existing, Typed
  <2>2. /\ new.wrote = judging[p].wrote /\ new.at = "storing"
        /\ new.reads = [judging[p].reads EXCEPT ![q] = live[q]]
        /\ new \in PassRecord
    BY <1>2 DEF PassRecord, PassStage, Held, Typed
  <2> HIDE DEF new
  <2>3. Typed' /\ OneRow'
    BY <1>1, <2>1, <2>2 DEF Typed, OneRow
  <2>4. Known'
    BY <1>1, <1>2, <2>1, <2>2 DEF Known, Typed, PassRecord, Held
  <2>. QED
    BY <2>3, <2>4
<1>4. CASE live[q] = NoRow
  BY <1>1, <1>4, RestKeeps DEF Conflict
<1>. QED
  BY <1>3, <1>4

LEMMA CommittedKeeps ==
    ASSUME Inductive, NEW p \in Judging, Committed(p)
    PROVE  Inductive'
<1> DEFINE new == [judging[p] EXCEPT !.at = "done", !.wrote = NoVerdicts]
<1> USE DEF Inductive
<1>1. /\ judging' = [judging EXCEPT ![p] = new] /\ past' = past
      /\ live' = [q \in Question |-> IF judging[p].wrote[q] = NoRow
                                     THEN live[q] ELSE judging[p].wrote[q]]
  BY DEF Committed, Typed
<1>2. judging[p] \in PassRecord
  BY DEF Typed
<1>3. /\ new.wrote = NoVerdicts /\ new.at = "done" /\ new.reads = judging[p].reads
      /\ new \in PassRecord
  BY <1>2, RestingTyped DEF PassRecord, PassStage
<1> HIDE DEF new
<1>4. Typed'
  BY <1>1, <1>2, <1>3 DEF Typed, PassRecord, Held
<1>5. OneRow'
  BY <1>1, <1>3 DEF OneRow, Typed, NoVerdicts
<1>6. Known'
  BY <1>1, <1>3 DEF Known, OneRow, Typed, NoVerdicts
<1>. QED
  BY <1>4, <1>5, <1>6

LEMMA ForgetKeeps ==
    ASSUME Inductive, NEW q \in Question, Forget(q)
    PROVE  Inductive'
<1> USE DEF Inductive
<1>1. /\ live[q] # NoRow /\ judging' = judging
      /\ live' = [live EXCEPT ![q] = NoRow]
      /\ past' = [past EXCEPT ![q] = @ \cup {live[q]}]
  BY DEF Forget
<1>2. Typed'
  BY <1>1 DEF Typed, Held
<1>3. OneRow'
  BY <1>1 DEF OneRow, Typed, Held
<1>4. Known'
  BY <1>1 DEF Known, OneRow, Typed, Held
<1>. QED
  BY <1>2, <1>3, <1>4

LEMMA InductiveHolds == VerdictsSpec => []Inductive
<1>1. ASSUME Inductive, [VerdictsNext]_verdictVars
      PROVE  Inductive'
  <2>1. CASE UNCHANGED verdictVars
    BY <1>1, <2>1 DEF Inductive, Typed, OneRow, Known, verdictVars
  <2>2. ASSUME NEW p \in Judging, RolledBack(p)
        PROVE  Inductive'
    BY <1>1, <2>2, RestKeeps DEF RolledBack
  <2>. QED
    BY <1>1, <2>1, <2>2, LookKeeps, AskAllKeeps, StoreKeeps, ConflictKeeps, CommittedKeeps,
       ForgetKeeps DEF VerdictsNext
<1>. QED
  BY <1>1, VerdictsInitInductive, PTL DEF VerdictsSpec

(* A pass that ended well goes by answers the store has or had: two passes *)
(* that ask the same question while neither has committed go by one        *)
(* answer, however many there are.                                         *)
THEOREM PassesGoByTheStore == VerdictsSpec => []HoldsTheStored
<1>1. Inductive => HoldsTheStored
  BY DEF Inductive, Known, OneRow, HoldsTheStored
<1>. QED
  BY <1>1, InductiveHolds, PTL

-----------------------------------------------------------------------------
(* The store keeps the book of AnswerBook. *)

(* What a pass wrote it goes by, and takes up no second time. *)
WroteIsRead == \A p \in Judging, q \in Question :
                   judging[p].wrote[q] # NoRow => /\ judging[p].reads[q] = judging[p].wrote[q]
                                                  /\ q \notin judging[p].todo

(* A pass under way goes by nothing the book knows of. *)
Underway(p) == /\ judging' = [judging EXCEPT ![p] = judging'[p]] /\ judging'[p].at # "done"
               /\ UNCHANGED <<live, past>>

(* It begins, asks, writes a row, takes one that is there, or goes away. *)
LEMMA StepsUnderway ==
    ASSUME Inductive, WroteIsRead, NEW p \in Judging,
           Look(p) \/ AskAll(p) \/ RolledBack(p) \/ \E q \in Question : Store(p, q) \/ Conflict(p, q)
    PROVE  Underway(p) /\ WroteIsRead'
<1>. USE DEF Inductive
<1>1. judging \in [Judging -> PassRecord] /\ judging[p] \in PassRecord
  BY DEF Typed
<1>2. /\ Resting.wrote = NoVerdicts /\ Resting.at = "idle"
      /\ \A q \in Question : NoVerdicts[q] = NoRow
  BY DEF Resting, NoVerdicts
<1>3. ASSUME NEW new, judging' = [judging EXCEPT ![p] = new], new.at # "done",
             UNCHANGED <<live, past>>,
             \A q \in Question : new.wrote[q] # NoRow =>
                 new.reads[q] = new.wrote[q] /\ q \notin new.todo
      PROVE  Underway(p) /\ WroteIsRead'
  <2>1. judging'[p] = new /\ \A o \in Judging \ {p} : judging'[o] = judging[o]
    BY <1>1, <1>3
  <2>2. Underway(p)
    BY <1>3, <2>1 DEF Underway
  <2>3. WroteIsRead'
    BY <1>3, <2>1 DEF WroteIsRead
  <2>. QED
    BY <2>2, <2>3
<1>4. ASSUME judging' = [judging EXCEPT ![p] = Resting], UNCHANGED <<live, past>>
      PROVE  Underway(p) /\ WroteIsRead'
  BY <1>2, <1>3, <1>4
<1>5. CASE Look(p)
  <2>. DEFINE new == [Resting EXCEPT !.at = "asking", !.reads = live,
                         !.takes = Within(Lacking), !.lacked = {Asks[l] : l \in Lacking}]
  <2>1. judging' = [judging EXCEPT ![p] = new] /\ UNCHANGED <<live, past>>
    BY <1>5 DEF Look
  <2>2. new.wrote = NoVerdicts /\ new.at = "asking"
    BY <1>2 DEF Resting
  <2>. HIDE DEF new
  <2>. QED
    BY <1>2, <1>3, <2>1, <2>2
<1>6. CASE AskAll(p)
  <2>1. judging[p].at = "asking" /\ UNCHANGED <<live, past>>
    BY <1>6 DEF AskAll
  <2>2. \A q \in Question : judging[p].wrote[q] = NoRow
    BY <2>1 DEF OneRow
  <2>3. PICK got, told : \/ judging' = [judging EXCEPT ![p] = Resting]
                        \/ judging' = [judging EXCEPT ![p].at = "storing", ![p].todo = got,
                                                      ![p].results = told]
    BY <1>6 DEF AskAll
  <2>. DEFINE new == [judging[p] EXCEPT !.at = "storing", !.todo = got, !.results = told]
  <2>4. CASE judging' = [judging EXCEPT ![p].at = "storing", ![p].todo = got, ![p].results = told]
    <3>1. judging' = [judging EXCEPT ![p] = new]
      BY <1>1, <2>4
    <3>2. new.wrote = judging[p].wrote /\ new.at = "storing"
      BY <1>1 DEF PassRecord
    <3>. HIDE DEF new
    <3>. QED
      BY <1>3, <2>1, <2>2, <3>1, <3>2
  <2>. QED
    BY <1>4, <2>1, <2>3, <2>4
<1>7. CASE RolledBack(p)
  BY <1>4, <1>7 DEF RolledBack
<1>8. ASSUME NEW q \in Question, Store(p, q) PROVE Underway(p) /\ WroteIsRead'
  <2>. DEFINE a == judging[p].results[q]
              put == [judging[p] EXCEPT !.todo = @ \ {q}, !.wrote[q] = a, !.reads[q] = a]
              met == [judging[p] EXCEPT !.at = "taken"]
  <2>1. /\ judging[p].at = "storing" /\ UNCHANGED <<live, past>>
        /\ judging' = [judging EXCEPT ![p] = put] \/ judging' = [judging EXCEPT ![p] = met]
    BY <1>1, <1>8 DEF Store
  <2>2. /\ put.at = "storing" /\ put.wrote = [judging[p].wrote EXCEPT ![q] = a]
        /\ put.reads = [judging[p].reads EXCEPT ![q] = a] /\ put.todo = judging[p].todo \ {q}
    BY <1>1, <2>1 DEF PassRecord
  <2>3. met.at = "taken" /\ met.wrote = judging[p].wrote /\ met.reads = judging[p].reads
        /\ met.todo = judging[p].todo
    BY <1>1 DEF PassRecord
  <2>4. judging[p].wrote \in Held /\ judging[p].reads \in Held
    BY <1>1 DEF PassRecord
  <2>. HIDE DEF put, met, a
  <2>5. \A x \in Question : put.wrote[x] # NoRow => put.reads[x] = put.wrote[x] /\ x \notin put.todo
    BY <2>2, <2>4 DEF WroteIsRead, Held
  <2>6. \A x \in Question : met.wrote[x] # NoRow => met.reads[x] = met.wrote[x] /\ x \notin met.todo
    BY <2>3 DEF WroteIsRead
  <2>. QED
    BY <1>3, <2>1, <2>2, <2>3, <2>5, <2>6
<1>9. ASSUME NEW q \in Question, Conflict(p, q) PROVE Underway(p) /\ WroteIsRead'
  <2>. DEFINE a == live[q]
              took == [judging[p] EXCEPT !.at = "storing", !.todo = @ \ {q}, !.reads[q] = a]
  <2>1. /\ q \in judging[p].todo /\ UNCHANGED <<live, past>>
        /\ judging' = [judging EXCEPT ![p] = took] \/ judging' = [judging EXCEPT ![p] = Resting]
    <3>1. q \in judging[p].todo /\ UNCHANGED <<live, past>>
      BY <1>9 DEF Conflict, IsNext
    <3>2. CASE live[q] = NoRow
      BY <1>9, <3>1, <3>2 DEF Conflict
    <3>3. CASE live[q] # NoRow
      <4>1. judging' = [judging EXCEPT ![p] = took]
        BY <1>1, <1>9, <3>3 DEF Conflict, Existing
      <4>. HIDE DEF took
      <4>. QED
        BY <3>1, <4>1
    <3>. QED
      BY <3>2, <3>3
  <2>2. /\ took.at = "storing" /\ took.wrote = judging[p].wrote
        /\ took.reads = [judging[p].reads EXCEPT ![q] = a] /\ took.todo = judging[p].todo \ {q}
    BY <1>1 DEF PassRecord
  <2>3. judging[p].reads \in Held
    BY <1>1 DEF PassRecord
  <2>. HIDE DEF took, a
  <2>4. \A x \in Question : took.wrote[x] # NoRow => took.reads[x] = took.wrote[x] /\ x \notin took.todo
    BY <2>1, <2>2, <2>3 DEF WroteIsRead, Held
  <2>. QED
    BY <1>3, <1>4, <2>1, <2>2, <2>4
<1>. QED
  BY <1>5, <1>6, <1>7, <1>8, <1>9

LEMMA WroteIsReadStays ==
    ASSUME Inductive, WroteIsRead, [VerdictsNext]_verdictVars
    PROVE  WroteIsRead'
<1>1. ASSUME NEW p \in Judging, Committed(p) PROVE WroteIsRead'
  <2>. DEFINE new == [judging[p] EXCEPT !.at = "done", !.wrote = NoVerdicts]
  <2>1. judging \in [Judging -> PassRecord] /\ judging[p] \in PassRecord
    BY DEF Inductive, Typed
  <2>2. judging' = [judging EXCEPT ![p] = new]
    BY <1>1, <2>1 DEF Committed
  <2>3. \A q \in Question : new.wrote[q] = NoRow
    BY <2>1 DEF PassRecord, NoVerdicts
  <2>. HIDE DEF new
  <2>. QED
    BY <2>1, <2>2, <2>3 DEF WroteIsRead
<1>2. CASE UNCHANGED judging
  BY <1>2 DEF WroteIsRead
<1>. QED
  BY <1>1, <1>2, StepsUnderway DEF VerdictsNext, Forget, verdictVars

GoingBy == [p \in Judging |-> GoesBy(p)]

LEMMA BookStep ==
    ASSUME Inductive, WroteIsRead, Inductive', [VerdictsNext]_verdictVars
    PROVE  TheBook!BookNext \/ UNCHANGED <<live, past, GoingBy>>
<1>. USE DEF TheBook!BookNext
<1>1. judging \in [Judging -> PassRecord] /\ judging' \in [Judging -> PassRecord]
      /\ live \in Held /\ live' \in Held /\ past \in [Question -> SUBSET Verdict]
  BY DEF Inductive, Typed
<1>2. \A p \in Judging : GoesBy(p) \in Held /\ GoesBy(p)' \in Held
  BY <1>1, RestingTyped DEF GoesBy, PassRecord
<1>3. NoVerdicts = TheBook!Blank /\ Held = TheBook!Page
  BY DEF NoVerdicts, TheBook!Blank, Held, TheBook!Page
<1>4. ASSUME NEW p \in Judging, Underway(p) PROVE TheBook!BookNext
  <2>1. \A o \in Judging : GoesBy(o)' = IF o = p THEN NoVerdicts ELSE GoesBy(o)
    BY <1>1, <1>4 DEF Underway, GoesBy
  <2>2. GoingBy' = [GoingBy EXCEPT ![p] = NoVerdicts]
    BY <2>1 DEF GoingBy
  <2>3. TheBook!Leave(p)
    BY <1>3, <1>4, <2>2 DEF TheBook!Leave, Underway, GoingBy
  <2>. QED
    BY <2>3
<1>5. ASSUME NEW p \in Judging, Committed(p) PROVE TheBook!BookNext
  <2>. DEFINE new == [judging[p] EXCEPT !.at = "done", !.wrote = NoVerdicts]
  <2>1. /\ judging' = [judging EXCEPT ![p] = new] /\ past' = past
        /\ live' = [q \in Question |-> IF judging[p].wrote[q] = NoRow
                                       THEN live[q] ELSE judging[p].wrote[q]]
    BY <1>1, <1>5 DEF Committed
  <2>2. new.at = "done" /\ new.reads = judging[p].reads
    BY <1>1 DEF PassRecord
  <2>. HIDE DEF new
  <2>3. GoesBy(p)' = judging[p].reads /\ \A o \in Judging \ {p} : GoesBy(o)' = GoesBy(o)
    BY <1>1, <2>1, <2>2 DEF GoesBy
  <2>4. \A q \in Question : live'[q] # live[q] => live[q] = NoRow /\ GoesBy(p)'[q] = live'[q]
    BY <2>1, <2>3 DEF WroteIsRead, Inductive, OneRow
  <2>5. \A q \in Question : GoesBy(p)'[q] \in past[q] \cup {live'[q], NoRow}
    BY <2>1, <2>3 DEF Inductive, Known, OneRow
  <2>6. \A o \in Judging : GoingBy[o] = GoesBy(o) /\ GoingBy'[o] = GoesBy(o)'
    BY DEF GoingBy
  <2>7. GoingBy' \in [Judging -> Held]
    BY <1>2 DEF GoingBy
  <2>8. TheBook!Enter(p)
    BY <1>1, <1>3, <2>1, <2>3, <2>4, <2>5, <2>6, <2>7 DEF TheBook!Enter, GoingBy
  <2>. QED
    BY <2>8
<1>6. ASSUME NEW q \in Question, Forget(q) PROVE TheBook!BookNext
  <2>1. TheBook!Withdraw(q)
    BY <1>6 DEF Forget, TheBook!Withdraw, GoesBy
  <2>. QED
    BY <2>1
<1>7. CASE UNCHANGED verdictVars
  BY <1>7 DEF verdictVars, GoingBy, GoesBy
<1>8. \A p \in Judging :
          Look(p) \/ AskAll(p) \/ RolledBack(p) \/ (\E q \in Question : Store(p, q) \/ Conflict(p, q))
          => Underway(p)
  BY StepsUnderway
<1>. QED
  BY <1>4, <1>5, <1>6, <1>7, <1>8 DEF VerdictsNext

(* However many passes write at once, whichever are cut off and whatever   *)
(* is forgotten: the store refines the book. An answer that is committed   *)
(* stays until it is forgotten, and every pass that ended goes by answers  *)
(* that are or were committed, by its own where it was first.              *)
THEOREM StoreKeepsTheBook == VerdictsSpec => KeepsTheBook
<1>1. VerdictsInit => WroteIsRead
  BY DEF VerdictsInit, WroteIsRead, Resting, NoVerdicts
<1>2. VerdictsInit => TheBook!BookInit
  <2>. SUFFICES ASSUME VerdictsInit PROVE TheBook!BookInit
    OBVIOUS
  <2>1. \A p \in Judging : GoesBy(p) = NoVerdicts
    BY DEF VerdictsInit, GoesBy, Resting
  <2>. QED
    BY <2>1 DEF VerdictsInit, TheBook!BookInit, TheBook!Blank, NoVerdicts
<1>3. Inductive /\ WroteIsRead /\ [VerdictsNext]_verdictVars => WroteIsRead'
  BY WroteIsReadStays
<1>4. /\ Inductive /\ WroteIsRead /\ Inductive' /\ [VerdictsNext]_verdictVars
      => [TheBook!BookNext]_(TheBook!bookVars)
  BY BookStep DEF TheBook!bookVars, GoingBy
<1>. QED
  BY <1>1, <1>2, <1>3, <1>4, InductiveHolds, PTL
  DEF VerdictsSpec, KeepsTheBook, TheBook!BookSpec

-----------------------------------------------------------------------------
(* A pass that found something asks the first of it, whatever the budget;  *)
(* what it was told it goes by, once the answer is written or taken.       *)
Pushes(j) == /\ j.lacked # {} => \E l \in j.takes : Asks[l] \in j.lacked
             /\ j.at \in {"storing", "taken", "done"} => \A q \in Question :
                   j.results[q] # NoRow => j.reads[q] # NoRow \/ (j.at # "done" /\ q \in j.todo)

Forward == \A p \in Judging : Pushes(judging[p])

LEMMA RestingPushes == Pushes(Resting)
  BY DEF Pushes, Resting

(* The first listing without an answer is within any budget.               *)
LEMMA LeastIsWithin ==
    ASSUME Lacking # {}
    PROVE  \E l \in Within(Lacking) : Asks[l] \in {Asks[m] : m \in Lacking}
<1>1. Lacking \in SUBSET Nat /\ Lacking \subseteq 1..Listings
  BY VerdictsAssumption DEF Lacking
<1>2. IsFiniteSet(Lacking)
  <2>1. Listings \in Int /\ 1 \in Int
    BY VerdictsAssumption
  <2>2. IsFiniteSet(1..Listings)
    BY <2>1, FS_Interval
  <2>. QED
    BY <1>1, <2>2, FS_Subset
<1>3. PICK l \in Lacking : \A m \in Lacking : l <= m
  BY <1>1, <1>2, LeastMember
<1>4. {m \in Lacking : m < l} = {}
  <2>1. ASSUME NEW m \in Lacking
        PROVE  ~(m < l)
    BY <1>1, <1>3
  <2>. QED
    BY <2>1
<1>5. Cardinality({m \in Lacking : m < l}) = 0
  BY <1>4, FS_EmptySet
<1>6. Cardinality({m \in Lacking : m < l}) < Budget
  BY <1>5, VerdictsAssumption
<1>. QED
  BY <1>3, <1>6 DEF Within

LEMMA StepForward ==
    ASSUME Inductive, Forward, [VerdictsNext]_verdictVars
    PROVE  Forward'
<1>1. judging \in [Judging -> PassRecord]
  BY DEF Inductive, Typed
<1>2. CASE UNCHANGED verdictVars
  BY <1>2 DEF Forward, Pushes, verdictVars
<1>3. ASSUME NEW p \in Judging, NEW j, judging' = [judging EXCEPT ![p] = j], Pushes(j)
      PROVE  Forward'
  BY <1>1, <1>3 DEF Forward, Pushes
<1>4. ASSUME NEW p \in Judging, Look(p)
      PROVE  Forward'
  <2> DEFINE new == [Resting EXCEPT !.at = "asking", !.reads = live,
                         !.takes = Within(Lacking), !.lacked = {Asks[l] : l \in Lacking}]
  <2>1. judging' = [judging EXCEPT ![p] = new]
    BY <1>4 DEF Look
  <2>2. new.at = "asking" /\ new.takes = Within(Lacking) /\ new.lacked = {Asks[l] : l \in Lacking}
    BY DEF Resting
  <2> HIDE DEF new
  <2>3. Pushes(new)
    BY <2>2, LeastIsWithin DEF Pushes
  <2>. QED
    BY <1>3, <2>1, <2>3
<1>5. ASSUME NEW p \in Judging, AskAll(p)
      PROVE  Forward'
  <2> DEFINE asking == {Asks[l] : l \in judging[p].takes}
  <2>1. PICK results \in [asking -> Verdict \cup {Failed}], breaks \in BOOLEAN :
           LET got == {q \in asking : results[q] # Failed} IN
           IF breaks
           THEN judging' = [judging EXCEPT ![p] = Resting]
           ELSE judging' = [judging EXCEPT
                   ![p].at = "storing", ![p].todo = got,
                   ![p].results = [q \in Question |-> IF q \in got THEN results[q] ELSE NoRow]]
    BY <1>5 DEF AskAll
  <2>2. CASE breaks
    BY <1>3, <2>1, <2>2, RestingPushes
  <2>3. CASE ~breaks
    <3> DEFINE got == {q \in asking : results[q] # Failed}
               told == [q \in Question |-> IF q \in got THEN results[q] ELSE NoRow]
               new == [judging[p] EXCEPT !.at = "storing", !.todo = got, !.results = told]
    <3>1. judging' = [judging EXCEPT ![p] = new]
      BY <1>1, <2>1, <2>3
    <3>2. \A q \in Question : told[q] # NoRow => q \in got
      OBVIOUS
    <3> HIDE DEF got, told
    <3>3. /\ new.at = "storing" /\ new.todo = got /\ new.results = told
          /\ new.takes = judging[p].takes /\ new.lacked = judging[p].lacked
      BY <1>1 DEF PassRecord
    <3> HIDE DEF new
    <3>4. Pushes(new)
      BY <3>2, <3>3 DEF Forward, Pushes
    <3>. QED
      BY <1>3, <3>1, <3>4
  <2>. QED
    BY <2>2, <2>3
<1>6. ASSUME NEW p \in Judging, NEW q \in Question, Store(p, q)
      PROVE  Forward'
  <2>1. judging[p].at = "storing" /\ judging[p] \in PassRecord /\ Pushes(judging[p])
    BY <1>1, <1>6 DEF Store, Forward
  <2>2. CASE live[q] = NoRow
    <3> DEFINE a == judging[p].results[q]
               new == [judging[p] EXCEPT !.todo = @ \ {q}, !.wrote[q] = a, !.reads[q] = a]
    <3>1. judging' = [judging EXCEPT ![p] = new]
      BY <1>1, <1>6, <2>2 DEF Store
    <3>2. /\ new.at = "storing" /\ new.todo = judging[p].todo \ {q}
          /\ new.results = judging[p].results /\ new.reads = [judging[p].reads EXCEPT ![q] = a]
          /\ new.takes = judging[p].takes /\ new.lacked = judging[p].lacked
      BY <2>1 DEF PassRecord
    <3> HIDE DEF new
    <3>3. Pushes(new)
      BY <2>1, <3>2 DEF Pushes, PassRecord, Held
    <3>. QED
      BY <1>3, <3>1, <3>3
  <2>3. CASE live[q] # NoRow
    <3> DEFINE new == [judging[p] EXCEPT !.at = "taken"]
    <3>1. judging' = [judging EXCEPT ![p] = new]
      BY <1>1, <1>6, <2>3 DEF Store
    <3>2. Pushes(new)
      BY <2>1 DEF Pushes, PassRecord
    <3>. QED
      BY <1>3, <3>1, <3>2
  <2>. QED
    BY <2>2, <2>3
<1>7. ASSUME NEW p \in Judging, NEW q \in Question, Conflict(p, q)
      PROVE  Forward'
  <2>1. judging[p].at = "taken" /\ judging[p] \in PassRecord /\ Pushes(judging[p])
    BY <1>1, <1>7 DEF Conflict, Forward
  <2>2. CASE live[q] # NoRow
    <3> DEFINE new == [judging[p] EXCEPT !.at = "storing", !.todo = @ \ {q},
                                         !.reads[q] = live[q]]
    <3>1. judging' = [judging EXCEPT ![p] = new]
      BY <1>1, <1>7, <2>2 DEF Conflict, Existing
    <3>2. /\ new.at = "storing" /\ new.todo = judging[p].todo \ {q}
          /\ new.results = judging[p].results
          /\ new.reads = [judging[p].reads EXCEPT ![q] = live[q]]
          /\ new.takes = judging[p].takes /\ new.lacked = judging[p].lacked
      BY <2>1 DEF PassRecord
    <3> HIDE DEF new
    <3>3. Pushes(new)
      BY <2>1, <2>2, <3>2 DEF Pushes, PassRecord, Held
    <3>. QED
      BY <1>3, <3>1, <3>3
  <2>3. CASE live[q] = NoRow
    BY <1>3, <1>7, <2>3, RestingPushes DEF Conflict
  <2>. QED
    BY <2>2, <2>3
<1>8. ASSUME NEW p \in Judging, Committed(p)
      PROVE  Forward'
  <2> DEFINE new == [judging[p] EXCEPT !.at = "done", !.wrote = NoVerdicts]
  <2>1. /\ judging[p].at = "storing" /\ judging[p].todo = {} /\ judging[p] \in PassRecord
        /\ Pushes(judging[p]) /\ judging' = [judging EXCEPT ![p] = new]
    BY <1>1, <1>8 DEF Committed, Forward
  <2>2. Pushes(new)
    BY <2>1 DEF Pushes, PassRecord
  <2>. QED
    BY <1>3, <2>1, <2>2
<1>9. ASSUME NEW p \in Judging, RolledBack(p)
      PROVE  Forward'
  BY <1>3, <1>9, RestingPushes DEF RolledBack
<1>10. ASSUME NEW q \in Question, Forget(q)
       PROVE  Forward'
  BY <1>10 DEF Forget, Forward, Pushes
<1>. QED
  BY <1>2, <1>4, <1>5, <1>6, <1>7, <1>8, <1>9, <1>10 DEF VerdictsNext

(* Answers already held do not count against the budget: whatever the      *)
(* budget and whatever is stored, a pass that found questions without an   *)
(* answer has asked one of them, and goes by an answer to each that did    *)
(* not fail.                                                               *)
THEOREM PassesMoveForward == VerdictsSpec => []PassMovesForward
<1>1. VerdictsInit => Forward
  BY RestingPushes DEF VerdictsInit, Forward
<1>2. Forward => PassMovesForward
  BY DEF Forward, Pushes, PassMovesForward
<1>. QED
  BY <1>1, <1>2, StepForward, InductiveHolds, PTL DEF VerdictsSpec

-----------------------------------------------------------------------------
(* While no two passes overlapped and none was lost: an answer that was    *)
(* paid for is on its way into the store, in it, or forgotten.             *)

Counts == paid \in [Question -> Nat] /\ forgotten \in [Question -> Nat]

Alone == \A p, o \in Judging : Active(p) /\ Active(o) => p = o

(* What a pass asks still has no answer.                                   *)
Unanswered == \A p \in Judging :
                 judging[p].at = "asking" => \A l \in judging[p].takes : live[Asks[l]] = NoRow

(* What it was told is not stored yet, and is written or yet to write.     *)
OnItsWay == \A p \in Judging :
    /\ judging[p].at # "taken"
    /\ judging[p].at = "storing" => \A q \in Question :
          /\ judging[p].results[q] # NoRow =>
                live[q] = NoRow /\ (q \in judging[p].todo \/ judging[p].wrote[q] # NoRow)
          /\ q \in judging[p].todo => judging[p].results[q] # NoRow

Answering(q) == \/ live[q] # NoRow
                \/ \E p \in Judging : judging[p].at = "storing" /\ judging[p].results[q] # NoRow

Accounted == \A q \in Question : /\ paid[q] <= forgotten[q] + 1
                                 /\ ~Answering(q) => paid[q] <= forgotten[q]

Orderly == Alone /\ Unanswered /\ OnItsWay /\ Accounted
Sound   == Inductive /\ Counts /\ (~excused => Orderly)

LEMMA VerdictsInitSound == VerdictsInit => Sound
<1> SUFFICES ASSUME VerdictsInit
             PROVE  Sound
  OBVIOUS
<1>1. /\ judging = [p \in Judging |-> Resting] /\ Resting.at = "idle"
      /\ paid = [q \in Question |-> 0] /\ forgotten = [q \in Question |-> 0]
  BY DEF VerdictsInit, Resting
<1>2. Counts
  BY <1>1 DEF Counts
<1>3. Alone /\ Unanswered /\ OnItsWay
  BY <1>1 DEF Alone, Active, Unanswered, OnItsWay
<1>4. Accounted
  BY <1>1 DEF Accounted
<1>. QED
  BY <1>2, <1>3, <1>4, VerdictsInitInductive DEF Sound, Orderly

LEMMA LookSound ==
    ASSUME Sound, NEW p \in Judging, Look(p), ~excused'
    PROVE  Orderly'
<1> DEFINE new == [Resting EXCEPT !.at = "asking", !.reads = live,
                         !.takes = Within(Lacking), !.lacked = {Asks[l] : l \in Lacking}]
<1>1. /\ judging' = [judging EXCEPT ![p] = new] /\ UNCHANGED <<live, paid, forgotten>>
      /\ ~Active(p) /\ ~excused /\ \A o \in Judging \ {p} : ~Active(o)
  BY DEF Look
<1>2. /\ new.at = "asking" /\ new.takes = Within(Lacking)
  BY DEF Resting
<1>3. \A l \in Within(Lacking) : live[Asks[l]] = NoRow
  BY DEF Within, Lacking
<1> HIDE DEF new
<1>4. judging \in [Judging -> PassRecord] /\ Orderly
  BY <1>1 DEF Sound, Inductive, Typed
<1>5. Alone'
  BY <1>1, <1>2, <1>4 DEF Alone, Active
<1>6. Unanswered'
  BY <1>1, <1>2, <1>3, <1>4 DEF Unanswered, Orderly
<1>7. OnItsWay'
  BY <1>1, <1>2, <1>4 DEF OnItsWay, Orderly
<1>8. \A q \in Question : Answering(q) => Answering(q)'
  BY <1>1, <1>2, <1>4 DEF Answering, Active
<1>9. Accounted'
  BY <1>1, <1>4, <1>8 DEF Accounted, Orderly
<1>. QED
  BY <1>5, <1>6, <1>7, <1>9 DEF Orderly

LEMMA AskAllSound ==
    ASSUME Sound, NEW p \in Judging, AskAll(p)
    PROVE  Counts' /\ (~excused' => Orderly')
<1> DEFINE ls == judging[p].takes
           asking == {Asks[l] : l \in ls}
<1>1. /\ judging[p].at = "asking" /\ UNCHANGED <<live, forgotten>>
      /\ judging \in [Judging -> PassRecord] /\ Counts
  BY DEF AskAll, Sound, Inductive, Typed
<1>2. judging[p] \in PassRecord /\ asking \subseteq Question
  BY <1>1, VerdictsAssumption DEF PassRecord
<1>3. PICK results \in [asking -> Verdict \cup {Failed}], breaks \in BOOLEAN :
         LET got == {q \in asking : results[q] # Failed} IN
         /\ paid' = [q \in Question |-> paid[q] + IF q \in got THEN Calls(ls, q) ELSE 0]
         /\ IF breaks
            THEN judging' = [judging EXCEPT ![p] = Resting] /\ excused' = TRUE
            ELSE /\ judging' = [judging EXCEPT
                      ![p].at = "storing", ![p].todo = got,
                      ![p].results = [q \in Question |-> IF q \in got THEN results[q] ELSE NoRow]]
                 /\ UNCHANGED excused
  BY DEF AskAll
<1> DEFINE got == {q \in asking : results[q] # Failed}
           told == [q \in Question |-> IF q \in got THEN results[q] ELSE NoRow]
           new == [judging[p] EXCEPT !.at = "storing", !.todo = got, !.results = told]
<1>4. /\ got \subseteq asking
      /\ \A q \in Question : told[q] # NoRow <=> q \in got
  BY <1>2, VerdictsAssumption
<1>5. \A q \in got : Calls(ls, q) = 1
  BY <1>4 DEF Calls
<1>6. paid' = [q \in Question |-> paid[q] + IF q \in got THEN 1 ELSE 0]
  BY <1>3, <1>5
<1> HIDE DEF got
<1>7. Counts'
  BY <1>1, <1>6 DEF Counts
<1>8. ASSUME ~excused'
      PROVE  Orderly'
  <2>1. judging' = [judging EXCEPT ![p] = new] /\ ~excused
    BY <1>1, <1>3, <1>8 DEF got
  <2>2. Orderly
    BY <2>1 DEF Sound
  <2> HIDE DEF told
  <2>3. new.at = "storing" /\ new.todo = got /\ new.results = told /\ new.wrote = judging[p].wrote
    BY <1>2 DEF PassRecord
  <2> HIDE DEF new
  <2>4. \A q \in asking : live[q] = NoRow
    BY <1>1, <2>2 DEF Orderly, Unanswered
  <2> HIDE DEF asking
  <2>5. \A o \in Judging \ {p} : ~Active(o) /\ judging'[o] = judging[o]
    BY <1>1, <2>1, <2>2 DEF Orderly, Alone, Active
  <2>6. judging'[p] = new
    BY <1>1, <2>1
  <2>7. Alone'
    BY <2>5, <2>6 DEF Alone, Active
  <2>8. Unanswered'
    BY <2>3, <2>5, <2>6 DEF Unanswered, Active
  <2>9. OnItsWay'
    BY <1>1, <1>4, <2>3, <2>4, <2>5, <2>6 DEF OnItsWay, Active
  <2>10. ASSUME NEW q \in Question
         PROVE  paid'[q] <= forgotten'[q] + 1 /\ (~Answering(q)' => paid'[q] <= forgotten'[q])
    <3>1. /\ paid[q] \in Nat /\ forgotten[q] \in Nat /\ forgotten'[q] = forgotten[q]
          /\ paid'[q] = paid[q] + IF q \in got THEN 1 ELSE 0
      BY <1>1, <1>6 DEF Counts
    <3>4. paid[q] <= forgotten[q] + 1 /\ (~Answering(q) => paid[q] <= forgotten[q])
      BY <2>2, <3>1 DEF Orderly, Accounted
    <3>2. CASE q \in got
      <4>1. live[q] = NoRow /\ told[q] # NoRow
        BY <1>4, <2>4, <3>2
      <4>2. ~Answering(q)
        BY <1>1, <2>5, <4>1 DEF Answering, Active
      <4>3. Answering(q)'
        BY <2>3, <2>6, <4>1 DEF Answering
      <4>. QED
        <5>1. paid'[q] = paid[q] + 1
          BY <3>1, <3>2
        <5>. QED
          BY <3>1, <3>4, <4>2, <4>3, <5>1
    <3>3. CASE q \notin got
      <4>1. Answering(q) => Answering(q)'
        BY <1>1, <2>5 DEF Answering, Active
      <4>. QED
        <5>1. paid'[q] = paid[q]
          BY <3>1, <3>3
        <5>. QED
          BY <3>1, <3>4, <4>1, <5>1
    <3>. QED
      BY <3>2, <3>3
  <2>11. Accounted'
    BY <2>10 DEF Accounted
  <2>. QED
    BY <2>7, <2>8, <2>9, <2>11 DEF Orderly
<1>. QED
  BY <1>7, <1>8

LEMMA StoreSound ==
    ASSUME Sound, NEW p \in Judging, NEW q \in Question, Store(p, q), ~excused
    PROVE  Orderly'
<1>1. /\ judging[p].at = "storing" /\ q \in judging[p].todo
      /\ UNCHANGED <<live, paid, forgotten>>
      /\ judging \in [Judging -> PassRecord] /\ Orderly
  BY DEF Store, IsNext, Sound, Inductive, Typed
<1>2. judging[p] \in PassRecord
  BY <1>1
<1>3. judging[p].results[q] # NoRow /\ live[q] = NoRow
  BY <1>1 DEF Orderly, OnItsWay
<1> DEFINE a == judging[p].results[q]
           new == [judging[p] EXCEPT !.todo = @ \ {q}, !.wrote[q] = a, !.reads[q] = a]
<1>4. judging' = [judging EXCEPT ![p] = new]
  BY <1>1, <1>3 DEF Store
<1> HIDE DEF a
<1>5. /\ new.at = "storing" /\ new.todo = judging[p].todo \ {q}
      /\ new.results = judging[p].results
      /\ new.wrote = [judging[p].wrote EXCEPT ![q] = a]
  BY <1>1, <1>2 DEF PassRecord
<1> HIDE DEF new
<1>6. Alone'
  BY <1>1, <1>4, <1>5 DEF Alone, Active, Orderly
<1>7. Unanswered'
  BY <1>1, <1>4, <1>5 DEF Unanswered, Orderly
<1>8. OnItsWay'
  BY <1>1, <1>2, <1>3, <1>4, <1>5 DEF OnItsWay, Orderly, PassRecord, Held, a
<1>9. \A r \in Question : Answering(r) => Answering(r)'
  BY <1>1, <1>4, <1>5 DEF Answering
<1>10. Accounted'
  BY <1>1, <1>9 DEF Accounted, Orderly
<1>. QED
  BY <1>6, <1>7, <1>8, <1>10 DEF Orderly

LEMMA CommittedSound ==
    ASSUME Sound, NEW p \in Judging, Committed(p), ~excused
    PROVE  Orderly'
<1> DEFINE new == [judging[p] EXCEPT !.at = "done", !.wrote = NoVerdicts]
<1>1. /\ judging[p].at = "storing" /\ judging[p].todo = {}
      /\ live' = [q \in Question |-> IF judging[p].wrote[q] = NoRow
                                     THEN live[q] ELSE judging[p].wrote[q]]
      /\ UNCHANGED <<paid, forgotten>>
      /\ judging \in [Judging -> PassRecord] /\ Orderly
  BY DEF Committed, Sound, Inductive, Typed
<1>2. judging' = [judging EXCEPT ![p] = new]
  BY <1>1 DEF Committed
<1>3. judging'[p].at = "done" /\ \A o \in Judging \ {p} : judging'[o] = judging[o]
  BY <1>1, <1>2 DEF PassRecord
<1>4. \A o \in Judging \ {p} : ~Active(o)
  BY <1>1 DEF Orderly, Alone, Active
<1>5. \A o \in Judging : judging'[o].at \in {"idle", "done"}
  BY <1>3, <1>4 DEF Active
<1>6. Alone' /\ Unanswered' /\ OnItsWay'
  BY <1>5 DEF Alone, Active, Unanswered, OnItsWay
<1>7. \A q \in Question : Answering(q) => live'[q] # NoRow
  BY <1>1, <1>4 DEF Answering, Active, Orderly, OnItsWay
<1>8. Accounted'
  BY <1>1, <1>7 DEF Accounted, Answering, Orderly
<1>. QED
  BY <1>6, <1>8 DEF Orderly

LEMMA ForgetSound ==
    ASSUME Sound, NEW q \in Question, Forget(q)
    PROVE  Counts' /\ (~excused' => Orderly')
<1>1. /\ live[q] # NoRow /\ UNCHANGED <<judging, paid, excused>>
      /\ live' = [live EXCEPT ![q] = NoRow]
      /\ forgotten' = [forgotten EXCEPT ![q] = @ + 1]
      /\ live \in Held /\ Counts
  BY DEF Forget, Sound, Inductive, Typed
<1>2. Counts'
  BY <1>1 DEF Counts
<1>3. ASSUME ~excused
      PROVE  Orderly'
  <2>1. Orderly
    BY <1>3 DEF Sound
  <2>2. Alone'
    BY <1>1, <2>1 DEF Orderly, Alone, Active
  <2>3. Unanswered'
    BY <1>1, <2>1, VerdictsAssumption DEF Orderly, Unanswered, Held
  <2>4. OnItsWay'
    BY <1>1, <2>1 DEF Orderly, OnItsWay, Held
  <2>5. ASSUME NEW r \in Question
        PROVE  paid'[r] <= forgotten'[r] + 1 /\ (~Answering(r)' => paid'[r] <= forgotten'[r])
    <3>1. /\ paid'[r] = paid[r] /\ paid[r] \in Nat /\ forgotten[r] \in Nat
      BY <1>1 DEF Counts
    <3>4. paid[r] <= forgotten[r] + 1 /\ (~Answering(r) => paid[r] <= forgotten[r])
      BY <2>1, <3>1 DEF Orderly, Accounted
    <3>2. CASE r = q
      <4>1. forgotten'[r] = forgotten[r] + 1
        BY <1>1, <3>2 DEF Counts
      <4>. QED
        BY <3>1, <3>4, <4>1
    <3>3. CASE r # q
      <4>1. forgotten'[r] = forgotten[r] /\ (Answering(r) => Answering(r)')
        BY <1>1, <3>3 DEF Counts, Held, Answering
      <4>. QED
        BY <3>1, <3>4, <4>1
    <3>. QED
      BY <3>2, <3>3
  <2>6. Accounted'
    BY <2>5 DEF Accounted
  <2>. QED
    BY <2>2, <2>3, <2>4, <2>6 DEF Orderly
<1>. QED
  BY <1>1, <1>2, <1>3

LEMMA SoundHolds == VerdictsSpec => []Sound
<1>1. ASSUME Sound, Inductive', [VerdictsNext]_verdictVars
      PROVE  Sound'
  <2>1. CASE UNCHANGED verdictVars
    BY <1>1, <2>1 DEF Sound, Counts, Orderly, Alone, Active, Unanswered, OnItsWay, Accounted,
                      Answering, verdictVars
  <2>2. ASSUME NEW p \in Judging, Look(p) \/ Committed(p) \/ RolledBack(p)
        PROVE  Sound'
    <3>1. UNCHANGED <<paid, forgotten>>
      BY <2>2 DEF Look, Committed, RolledBack
    <3>2. RolledBack(p) => excused'
      BY DEF RolledBack
    <3>3. Look(p) \/ Committed(p) => (~excused' => ~excused)
      BY DEF Look, Committed
    <3>. QED
      BY <1>1, <2>2, <3>1, <3>2, <3>3, LookSound, CommittedSound DEF Sound, Counts
  <2>3. ASSUME NEW p \in Judging, AskAll(p)
        PROVE  Sound'
    BY <1>1, <2>3, AskAllSound DEF Sound
  <2>4. ASSUME NEW p \in Judging, NEW q \in Question, Store(p, q) \/ Conflict(p, q)
        PROVE  Sound'
    <3>1. UNCHANGED <<paid, forgotten>> /\ (~excused' => ~excused)
      BY <2>4 DEF Store, Conflict
    <3>2. ~excused => ~Conflict(p, q)
      BY <1>1 DEF Sound, Orderly, OnItsWay, Conflict
    <3>. QED
      BY <1>1, <2>4, <3>1, <3>2, StoreSound DEF Sound, Counts
  <2>5. ASSUME NEW q \in Question, Forget(q)
        PROVE  Sound'
    BY <1>1, <2>5, ForgetSound DEF Sound
  <2>. QED
    BY <1>1, <2>1, <2>2, <2>3, <2>4, <2>5 DEF VerdictsNext
<1>. QED
  BY <1>1, VerdictsInitSound, InductiveHolds, PTL DEF VerdictsSpec

(* While no two passes overlapped and none was lost with what it paid for, *)
(* a question is paid for once, and once more for each time its answer was *)
(* forgotten, whatever the budget and however many listings ask it.        *)
THEOREM PaidOnce == VerdictsSpec => []PaidTwiceNeedsOverlap
<1>1. Sound => PaidTwiceNeedsOverlap
  <2> SUFFICES ASSUME Sound, ~excused, NEW q \in Question
               PROVE  paid[q] <= 1 + forgotten[q]
    BY DEF PaidTwiceNeedsOverlap
  <2>1. paid[q] \in Nat /\ forgotten[q] \in Nat
    BY DEF Sound, Counts
  <2>2. paid[q] <= forgotten[q] + 1
    BY <2>1 DEF Sound, Orderly, Accounted
  <2>. QED
    BY <2>1, <2>2
<1>. QED
  BY <1>1, SoundHolds, PTL

(* Calls that were answered and rows that were forgotten stay within what  *)
(* people and the outside model are bounded to do.                         *)
Counted == /\ paid \in [Question -> 0 .. MaxPaid]
           /\ forgotten \in [Question -> 0 .. MaxForgotten]

LEMMA CountedHolds == VerdictsSpec => []Counted
<1>1. VerdictsInit => Counted
  BY VerdictsAssumption DEF VerdictsInit, Counted
<1>2. ASSUME Counted, [VerdictsNext]_verdictVars PROVE Counted'
  <2>1. ASSUME NEW p \in Judging, AskAll(p) PROVE Counted'
    <3>. DEFINE calls(q) == Calls(judging[p].takes, q)
    <3>1. \A q \in Question : calls(q) \in {0, 1} /\ paid[q] + calls(q) <= MaxPaid
      BY <2>1 DEF AskAll, Calls
    <3>2. PICK got : paid' = [q \in Question |-> paid[q] + IF q \in got THEN calls(q) ELSE 0]
      BY <2>1 DEF AskAll
    <3>. HIDE DEF calls
    <3>3. \A q \in Question : paid[q] + (IF q \in got THEN calls(q) ELSE 0) \in 0 .. MaxPaid
      BY <1>2, <3>1, VerdictsAssumption DEF Counted
    <3>. QED
      BY <1>2, <2>1, <3>2, <3>3 DEF AskAll, Counted
  <2>2. ASSUME NEW q \in Question, Forget(q) PROVE Counted'
    BY <1>2, <2>2, VerdictsAssumption DEF Forget, Counted
  <2>3. ASSUME NEW p \in Judging, NEW q \in Question, Store(p, q) \/ Conflict(p, q)
        PROVE  UNCHANGED <<paid, forgotten>>
    BY <2>3 DEF Store, Conflict
  <2>4. ASSUME NEW p \in Judging, Look(p) \/ Committed(p) \/ RolledBack(p)
        PROVE  UNCHANGED <<paid, forgotten>>
    BY <2>4 DEF Look, Committed, RolledBack
  <2>5. UNCHANGED <<paid, forgotten>> => Counted'
    BY <1>2 DEF Counted
  <2>. QED
    BY <1>2, <2>1, <2>2, <2>3, <2>4, <2>5 DEF VerdictsNext, verdictVars
<1>. QED
  BY <1>1, <1>2, PTL DEF VerdictsSpec

(* The rows of the store are answers, one of a question that is not        *)
(* forgotten, and a pass is at one of its stages, whoever overlaps it.     *)
THEOREM VerdictsTyped == VerdictsSpec => []VerdictsTypeOK
<1>1. Inductive /\ Counted => VerdictsTypeOK
  BY DEF Inductive, Typed, Counted, Held, PassRecord, PassStage, VerdictsTypeOK
<1>. QED
  BY <1>1, InductiveHolds, CountedHolds, PTL

-----------------------------------------------------------------------------
(* Sequences of rows. *)
LEMMA AppendOrder ==
    ASSUME NEW T, NEW s \in Seq(T), NEW x \in T
    PROVE  /\ \A o, p : Before(s, o, p) => Before(Append(s, x), o, p)
           /\ \A o \in ToSet(s) : Before(Append(s, x), o, x)
<1>. DEFINE t == Append(s, x)
<1>1. /\ Len(s) \in Nat /\ DOMAIN s = 1 .. Len(s) /\ DOMAIN t = 1 .. Len(s) + 1
      /\ \A i \in 1 .. Len(s) : i \in 1 .. Len(s) + 1 /\ t[i] = s[i]
      /\ t[Len(s) + 1] = x
  OBVIOUS
<1>. HIDE DEF t
<1>2. \A i \in 1 .. Len(s) : i < Len(s) + 1
  BY <1>1
<1>3. Len(s) + 1 \in 1 .. Len(s) + 1
  BY <1>1
<1>4. \A o, p : Before(s, o, p) => Before(t, o, p)
  BY <1>1 DEF Before
<1>5. \A o \in ToSet(s) : Before(t, o, x)
  BY <1>1, <1>2, <1>3 DEF Before, ToSet
<1>. QED
  BY <1>4, <1>5 DEF t

LEMMA JoinOrder ==
    ASSUME NEW T, NEW s \in Seq(T), NEW t \in Seq(T)
    PROVE  /\ \A o, p : Before(s, o, p) \/ Before(t, o, p) => Before(s \o t, o, p)
           /\ \A o \in ToSet(s), p \in ToSet(t) : Before(s \o t, o, p)
<1>. DEFINE u == s \o t  m == Len(s)  n == Len(t)
<1>1. /\ m \in Nat /\ n \in Nat /\ DOMAIN s = 1 .. m /\ DOMAIN t = 1 .. n
      /\ DOMAIN u = 1 .. m + n
      /\ \A i \in 1 .. m : u[i] = s[i]
      /\ \A i \in 1 .. n : u[m + i] = t[i]
  OBVIOUS
<1>. HIDE DEF u, m, n
<1>2. /\ \A i \in 1 .. m : i \in 1 .. m + n
      /\ \A i \in 1 .. n : m + i \in 1 .. m + n
      /\ \A i \in 1 .. m, j \in 1 .. n : i < m + j
      /\ \A i, j \in 1 .. n : i < j => m + i < m + j
  BY <1>1
<1>3. \A o, p : Before(s, o, p) => Before(u, o, p)
  BY <1>1, <1>2 DEF Before
<1>4. ASSUME NEW o, NEW p, Before(t, o, p) PROVE Before(u, o, p)
  <2>1. PICK i \in 1 .. n, j \in 1 .. n : i < j /\ t[i] = o /\ t[j] = p
    BY <1>1, <1>4 DEF Before
  <2>2. m + i \in DOMAIN u /\ m + j \in DOMAIN u /\ m + i < m + j
        /\ u[m + i] = o /\ u[m + j] = p
    BY <1>1, <1>2, <2>1
  <2>. QED
    BY <2>2 DEF Before
<1>5. ASSUME NEW o \in ToSet(s), NEW p \in ToSet(t) PROVE Before(u, o, p)
  <2>1. PICK i \in 1 .. m : s[i] = o
    BY <1>1, <1>5 DEF ToSet
  <2>2. PICK j \in 1 .. n : t[j] = p
    BY <1>1, <1>5 DEF ToSet
  <2>3. i \in DOMAIN u /\ m + j \in DOMAIN u /\ i < m + j /\ u[i] = o /\ u[m + j] = p
    BY <1>1, <1>2, <2>1, <2>2
  <2>. QED
    BY <2>3 DEF Before
<1>. QED
  BY <1>3, <1>4, <1>5 DEF u

(* Without, row by row. *)
LEMMA WithoutSteps ==
    ASSUME NEW T, NEW s \in Seq(T), NEW S
    PROVE  \E rest \in [0 .. Len(s) -> Seq(T)] :
              /\ rest[0] = <<>> /\ Without(s, S) = rest[Len(s)]
              /\ \A i \in 1 .. Len(s) :
                    rest[i] = IF s[i] \in S THEN rest[i - 1] ELSE Append(rest[i - 1], s[i])
<1>. DEFINE Then(rest, i) == IF s[i] \in S THEN rest ELSE Append(rest, s[i])
            Ruled(r) == r = [i \in 0 .. Len(s) |-> IF i = 0 THEN <<>> ELSE Then(r[i - 1], i)]
            rest == CHOOSE r : Ruled(r)
            F == [i \in 1 .. Len(s) |-> [r \in Seq(T) |-> Then(r, i)]]
<1>1. Len(s) \in Nat /\ DOMAIN s = 1 .. Len(s) /\ \A i \in 1 .. Len(s) : s[i] \in T
  OBVIOUS
<1>2. \A i \in 1 .. Len(s), r \in Seq(T) : Then(r, i) \in Seq(T) /\ F[i][r] = Then(r, i)
  BY <1>1
<1>3. F \in [1 .. Len(s) -> [Seq(T) -> Seq(T)]] /\ <<>> \in Seq(T)
  BY <1>1
<1>4. \E r : Ruled(r)
  <2>. HIDE DEF F, Then
  <2>1. PICK f : StepsFrom(f, Len(s), Seq(T), <<>>, F)
    BY <1>1, <1>3, StepByStep, Zenon
  <2>2. /\ f \in [0 .. Len(s) -> Seq(T)] /\ f[0] = <<>>
        /\ \A i \in 1 .. Len(s) : f[i] = F[i][f[i - 1]]
    BY <2>1 DEF StepsFrom
  <2>3. \A i \in 1 .. Len(s) : f[i] = Then(f[i - 1], i)
    <3>1. \A i \in 1 .. Len(s) : i - 1 \in 0 .. Len(s)
      BY <1>1
    <3>. QED
      BY <1>2, <2>2, <3>1
  <2>4. \A i \in 0 .. Len(s) : i = 0 \/ i \in 1 .. Len(s)
    BY <1>1
  <2>5. Ruled(f)
    BY <2>2, <2>3, <2>4
  <2>. HIDE DEF Ruled
  <2>. QED
    BY <2>5
<1>5. Ruled(rest)
  <2>. HIDE DEF Ruled
  <2>. QED
    BY <1>4
<1>. HIDE DEF rest
<1>6. rest[0] = <<>> /\ \A i \in 1 .. Len(s) : rest[i] = Then(rest[i - 1], i)
  <2>1. 0 \in 0 .. Len(s) /\ \A i \in 1 .. Len(s) : i \in 0 .. Len(s) /\ i # 0
    BY <1>1
  <2>. HIDE DEF Then
  <2>. QED
    BY <1>5, <2>1
<1>7. rest \in [0 .. Len(s) -> Seq(T)]
  <2>. DEFINE Good == {n \in Nat : n <= Len(s) => rest[n] \in Seq(T)}
  <2>1. 0 \in Good
    BY <1>3, <1>6
  <2>2. ASSUME NEW n \in Good PROVE n + 1 \in Good
    <3>. SUFFICES ASSUME n + 1 <= Len(s) PROVE rest[n + 1] \in Seq(T)
      OBVIOUS
    <3>1. n \in Nat /\ n <= Len(s) /\ n + 1 \in 1 .. Len(s) /\ (n + 1) - 1 = n
      BY <1>1
    <3>2. rest[n] \in Seq(T) /\ rest[n + 1] = Then(rest[n], n + 1)
      BY <1>6, <3>1
    <3>. HIDE DEF Then
    <3>. QED
      BY <1>2, <3>1, <3>2
  <2>3. Good = Nat
    <3>1. Good \in SUBSET Nat
      OBVIOUS
    <3>. HIDE DEF Good
    <3>. QED
      BY <2>1, <2>2, <3>1, NoFirstMissing
  <2>4. \A n \in 0 .. Len(s) : rest[n] \in Seq(T)
    BY <1>1, <2>3
  <2>5. rest = [n \in 0 .. Len(s) |-> rest[n]]
    <3>. HIDE DEF Then
    <3>. QED
      BY <1>5
  <2>. QED
    BY <2>4, <2>5
<1>8. Without(s, S) = rest[Len(s)]
  BY DEF Without, rest
<1>. QED
  BY <1>6, <1>7, <1>8

(* What Without keeps it keeps in order. *)
LEMMA WithoutRows ==
    ASSUME NEW T, NEW s \in Seq(T), NEW S
    PROVE  /\ Without(s, S) \in Seq(T)
           /\ ToSet(Without(s, S)) = ToSet(s) \ S
           /\ Once(s) => Once(Without(s, S))
           /\ \A o, p : Before(s, o, p) /\ {o, p} \cap S = {} => Before(Without(s, S), o, p)
<1>. DEFINE To(n) == {s[i] : i \in 1 .. n}
<1>1. PICK rest \in [0 .. Len(s) -> Seq(T)] :
         /\ rest[0] = <<>> /\ Without(s, S) = rest[Len(s)]
         /\ \A i \in 1 .. Len(s) :
               rest[i] = IF s[i] \in S THEN rest[i - 1] ELSE Append(rest[i - 1], s[i])
  BY WithoutSteps
<1>. DEFINE Kept(n) == /\ rest[n] \in Seq(T) /\ ToSet(rest[n]) = To(n) \ S
                       /\ Once(s) => Once(rest[n])
            InOrder(n) == \A i, j \in 1 .. n : i < j /\ s[i] \notin S /\ s[j] \notin S
                                               => Before(rest[n], s[i], s[j])
            Good == {n \in Nat : n <= Len(s) => Kept(n) /\ InOrder(n)}
<1>2. Len(s) \in Nat /\ DOMAIN s = 1 .. Len(s) /\ \A i \in 1 .. Len(s) : s[i] \in T
  OBVIOUS
<1>3. 0 \in Good
  <2>1. To(0) = {} /\ ToSet(<<>>) = {} /\ Once(<<>>) /\ <<>> \in Seq(T)
    BY DEF ToSet, Once
  <2>. QED
    BY <1>1, <2>1
<1>4. ASSUME NEW n \in Good PROVE n + 1 \in Good
  <2>. SUFFICES ASSUME n + 1 <= Len(s) PROVE Kept(n + 1) /\ InOrder(n + 1)
    OBVIOUS
  <2>1. n \in Nat /\ n <= Len(s) /\ n + 1 \in 1 .. Len(s) /\ (n + 1) - 1 = n
    BY <1>2
  <2>2. Kept(n) /\ InOrder(n)
    BY <2>1
  <2>. DEFINE x == s[n + 1]
  <2>3. To(n + 1) = To(n) \cup {x} /\ x \in T
    <3>1. \A i \in 1 .. n + 1 : i \in 1 .. n \/ i = n + 1
      BY <2>1
    <3>2. \A i \in 1 .. n : i \in 1 .. n + 1
      BY <2>1
    <3>3. n + 1 \in 1 .. n + 1
      BY <2>1
    <3>. QED
      BY <1>2, <2>1, <3>1, <3>2, <3>3
  <2>4. Once(s) => x \notin To(n)
    <3>1. \A i \in 1 .. n : i \in 1 .. Len(s) /\ i # n + 1
      BY <1>2, <2>1
    <3>. QED
      BY <1>2, <2>1, <3>1 DEF Once
  <2>5. rest[n + 1] = IF x \in S THEN rest[n] ELSE Append(rest[n], x)
    BY <1>1, <2>1
  <2>6. Kept(n + 1)
    <3>. HIDE DEF x, To, InOrder
    <3>1. CASE x \in S
      BY <2>2, <2>3, <2>5, <3>1
    <3>2. CASE x \notin S
      <4>1. /\ Append(rest[n], x) \in Seq(T) /\ ToSet(Append(rest[n], x)) = ToSet(rest[n]) \cup {x}
            /\ Once(rest[n]) /\ x \notin ToSet(rest[n]) => Once(Append(rest[n], x))
        BY <2>2, <2>3, AppendRow
      <4>. QED
        BY <2>2, <2>3, <2>4, <2>5, <3>2, <4>1
    <3>. QED
      BY <3>1, <3>2
  <2>7. InOrder(n + 1)
    <3>. SUFFICES ASSUME NEW i \in 1 .. n + 1, NEW j \in 1 .. n + 1, i < j,
                         s[i] \notin S, s[j] \notin S
                  PROVE  Before(rest[n + 1], s[i], s[j])
      OBVIOUS
    <3>1. i \in 1 .. n /\ (j \in 1 .. n \/ j = n + 1)
      BY <2>1
    <3>2. rest[n] \in Seq(T)
      BY <2>2
    <3>3. CASE j = n + 1
      <4>1. s[i] \in To(n) \ S /\ ToSet(rest[n]) = To(n) \ S
        BY <2>2, <3>1
      <4>2. rest[n + 1] = Append(rest[n], s[j]) /\ s[i] \in ToSet(rest[n]) /\ s[j] \in T
        BY <2>3, <2>5, <3>3, <4>1
      <4>. HIDE DEF To, Kept, InOrder
      <4>. QED
        BY <3>2, <4>2, AppendOrder
    <3>4. CASE j \in 1 .. n
      <4>1. Before(rest[n], s[i], s[j])
        BY <2>2, <3>1, <3>4
      <4>. HIDE DEF To, Kept, InOrder
      <4>. QED
        BY <2>3, <2>5, <3>2, <4>1, AppendOrder
    <3>. QED
      BY <3>1, <3>3, <3>4
  <2>. QED
    BY <2>6, <2>7
<1>5. Kept(Len(s)) /\ InOrder(Len(s))
  <2>1. Good \in SUBSET Nat
    OBVIOUS
  <2>2. Good = Nat
    <3>. HIDE DEF Good
    <3>. QED
      BY <1>3, <1>4, <2>1, NoFirstMissing
  <2>. HIDE DEF Kept, InOrder
  <2>. QED
    BY <1>2, <2>2
<1>6. ASSUME NEW o, NEW p, Before(s, o, p), {o, p} \cap S = {}
      PROVE  Before(Without(s, S), o, p)
  <2>1. PICK i \in 1 .. Len(s), j \in 1 .. Len(s) : i < j /\ s[i] = o /\ s[j] = p
    BY <1>2, <1>6 DEF Before
  <2>2. s[i] \notin S /\ s[j] \notin S
    BY <1>6, <2>1
  <2>3. Before(rest[Len(s)], s[i], s[j])
    BY <1>5, <2>1, <2>2
  <2>. QED
    BY <1>1, <2>1, <2>3
<1>7. ToSet(s) = To(Len(s))
  BY <1>2 DEF ToSet
<1>. HIDE DEF To, InOrder
<1>. QED
  BY <1>1, <1>5, <1>6, <1>7

(* In a sequence without repetitions two rows come in one order. *)
LEMMA OneOrder ==
    ASSUME NEW T, NEW s \in Seq(T), Once(s)
    PROVE  /\ \A o, p : Before(s, o, p) => o # p /\ {o, p} \subseteq ToSet(s) /\ ~Before(s, p, o)
           /\ \A o, p \in ToSet(s) : o = p \/ Before(s, o, p) \/ Before(s, p, o)
<1>1. Len(s) \in Nat /\ DOMAIN s = 1 .. Len(s)
  OBVIOUS
<1>2. ASSUME NEW o, NEW p, Before(s, o, p)
      PROVE  o # p /\ {o, p} \subseteq ToSet(s) /\ ~Before(s, p, o)
  <2>1. PICK i \in 1 .. Len(s), j \in 1 .. Len(s) : i < j /\ s[i] = o /\ s[j] = p
    BY <1>1, <1>2 DEF Before
  <2>2. ASSUME Before(s, p, o) PROVE FALSE
    <3>1. PICK k \in 1 .. Len(s), l \in 1 .. Len(s) : k < l /\ s[k] = p /\ s[l] = o
      BY <1>1, <2>2 DEF Before
    <3>2. k = j /\ l = i
      BY <1>1, <2>1, <3>1 DEF Once
    <3>. QED
      BY <2>1, <3>1, <3>2
  <2>3. o # p
    BY <1>1, <2>1 DEF Once
  <2>4. {o, p} \subseteq ToSet(s)
    BY <1>1, <2>1 DEF ToSet
  <2>. QED
    BY <2>2, <2>3, <2>4
<1>3. ASSUME NEW o \in ToSet(s), NEW p \in ToSet(s), o # p
      PROVE  Before(s, o, p) \/ Before(s, p, o)
  <2>1. PICK i \in 1 .. Len(s) : s[i] = o
    BY <1>1 DEF ToSet
  <2>2. PICK j \in 1 .. Len(s) : s[j] = p
    BY <1>1 DEF ToSet
  <2>3. i < j \/ j < i
    BY <1>1, <1>3, <2>1, <2>2
  <2>. QED
    BY <1>1, <2>1, <2>2, <2>3 DEF Before
<1>. QED
  BY <1>2, <1>3

(* What is left of a sequence, and what is put behind it, is in its order. *)
LEMMA LeftInOrder ==
    ASSUME NEW T, NEW s \in Seq(T), Once(s), NEW S, NEW o, NEW p, Before(Without(s, S), o, p)
    PROVE  Before(s, o, p)
<1>. DEFINE w == Without(s, S)
<1>1. /\ w \in Seq(T) /\ Once(w) /\ ToSet(w) = ToSet(s) \ S
      /\ \A x, y : Before(s, x, y) /\ {x, y} \cap S = {} => Before(w, x, y)
  BY WithoutRows
<1>. HIDE DEF w
<1>2. o # p /\ {o, p} \subseteq ToSet(w) /\ ~Before(w, p, o)
  BY <1>1, OneOrder DEF w
<1>3. {o, p} \subseteq ToSet(s) /\ {o, p} \cap S = {} /\ {p, o} \cap S = {}
  BY <1>1, <1>2
<1>4. ~Before(s, p, o)
  BY <1>1, <1>2, <1>3
<1>. QED
  BY <1>2, <1>3, <1>4, OneOrder

LEMMA BehindInOrder ==
    ASSUME NEW T, NEW s \in Seq(T), NEW x \in T, Once(s), x \notin ToSet(s),
           NEW o, NEW p, Before(Append(s, x), o, p)
    PROVE  Before(s, o, p) \/ (p = x /\ o \in ToSet(s))
<1>. DEFINE t == Append(s, x)
<1>1. t \in Seq(T) /\ Once(t) /\ ToSet(t) = ToSet(s) \cup {x}
  BY AppendRow
<1>2. /\ \A y, z : Before(s, y, z) => Before(t, y, z)
      /\ \A y \in ToSet(s) : Before(t, y, x)
  BY AppendOrder
<1>. HIDE DEF t
<1>3. o # p /\ {o, p} \subseteq ToSet(t) /\ ~Before(t, p, o)
  BY <1>1, OneOrder DEF t
<1>4. o # x
  BY <1>1, <1>2, <1>3
<1>5. CASE p = x
  BY <1>1, <1>3, <1>4, <1>5
<1>6. CASE p # x
  BY <1>1, <1>2, <1>3, <1>4, <1>6, OneOrder
<1>. QED
  BY <1>5, <1>6

LEMMA TopRows ==
    ASSUME NEW T, NEW s \in Seq(T)
    PROVE  /\ Top(s) \in Seq(T) /\ ToSet(Top(s)) \subseteq ToSet(s)
           /\ Once(s) => Once(Top(s))
<1>. DEFINE n == IF Len(s) < Limit THEN Len(s) ELSE Limit
<1>1. n \in 0 .. Len(s) /\ Len(s) \in Nat /\ DOMAIN s = 1 .. Len(s)
  BY PlacementAssumption
<1>. HIDE DEF n
<1>2. /\ SubSeq(s, 1, n) \in Seq(T) /\ DOMAIN SubSeq(s, 1, n) = 1 .. n
      /\ \A i \in 1 .. n : SubSeq(s, 1, n)[i] = s[i]
  BY <1>1
<1>. QED
  BY <1>1, <1>2 DEF Top, ToSet, Once, n

LEMMA TopOrder ==
    ASSUME NEW T, NEW s \in Seq(T), Once(s), NEW o, NEW p,
           Before(s, o, p), p \in ToSet(Top(s))
    PROVE  Before(Top(s), o, p)
<1>. DEFINE n == IF Len(s) < Limit THEN Len(s) ELSE Limit
<1>1. n \in 0 .. Len(s) /\ Len(s) \in Nat /\ DOMAIN s = 1 .. Len(s)
  BY PlacementAssumption
<1>. HIDE DEF n
<1>2. /\ DOMAIN SubSeq(s, 1, n) = 1 .. n
      /\ \A i \in 1 .. n : SubSeq(s, 1, n)[i] = s[i]
  BY <1>1
<1>3. PICK i \in 1 .. Len(s), j \in 1 .. Len(s) : i < j /\ s[i] = o /\ s[j] = p
  BY <1>1 DEF Before
<1>4. PICK k \in 1 .. n : s[k] = p
  BY <1>2 DEF Top, ToSet, n
<1>5. k \in 1 .. Len(s)
  BY <1>1
<1>6. j = k
  BY <1>1, <1>3, <1>4, <1>5 DEF Once
<1>7. i \in 1 .. n /\ j \in 1 .. n
  BY <1>1, <1>3, <1>6
<1>8. Before(SubSeq(s, 1, n), o, p)
  BY <1>2, <1>3, <1>7 DEF Before
<1>. QED
  BY <1>8 DEF Top, n

LEMMA ByIdRows ==
    ASSUME NEW S \in SUBSET Nat, IsFiniteSet(S)
    PROVE  ById(S) \in Seq(S) /\ Once(ById(S)) /\ ToSet(ById(S)) = S
<1>. DEFINE n == Cardinality(S)
            Rank(x) == Cardinality(Below(S, x))
            s == [i \in 1 .. n |-> CHOOSE x \in S : Rank(x) = i - 1]
<1>1. n \in Nat
  BY FS_CardinalityType
<1>2. ASSUME NEW i \in 1 .. n PROVE s[i] \in S /\ Rank(s[i]) = i - 1
  <2>1. \E x \in S : Rank(x) = i - 1
    <3>1. i - 1 \in 0 .. n - 1
      BY <1>1
    <3>. QED
      BY <3>1, RankTaken
  <2>. HIDE DEF Rank
  <2>. QED
    BY <2>1
<1>3. ASSUME NEW i \in 1 .. n, NEW j \in 1 .. n, i < j PROVE s[i] < s[j]
  <2>1. s[i] \in S /\ s[j] \in S /\ Rank(s[i]) = i - 1 /\ Rank(s[j]) = j - 1
    BY <1>2
  <2>2. s[i] \in Nat /\ s[j] \in Nat
    BY <2>1
  <2>. HIDE DEF s
  <2>3. s[i] # s[j]
    BY <1>1, <1>3, <2>1
  <2>4. ~ (s[j] < s[i])
    <3>1. s[j] < s[i] => Rank(s[j]) < Rank(s[i])
      BY <2>1, RankGrows
    <3>. HIDE DEF Rank
    <3>. QED
      BY <1>1, <1>3, <2>1, <3>1
  <2>. QED
    BY <2>2, <2>3, <2>4
<1>4. s \in [1 .. n -> S] /\ \A i, j \in DOMAIN s : i < j => s[i] < s[j]
  <2>1. DOMAIN s = 1 .. n
    OBVIOUS
  <2>2. s = [i \in 1 .. n |-> s[i]]
    OBVIOUS
  <2>. HIDE DEF s
  <2>. QED
    BY <1>2, <1>3, <2>1, <2>2
<1>5. /\ ById(S) \in [1 .. n -> S]
      /\ \A i, j \in DOMAIN ById(S) : i < j => ById(S)[i] < ById(S)[j]
  <2>. HIDE DEF s
  <2>. QED
    BY <1>4 DEF ById
<1>. DEFINE t == ById(S)
<1>. HIDE DEF n, t
<1>6. \A i \in 1 .. n : t[i] \in Nat
  BY <1>5 DEF t
<1>7. \A i, j \in 1 .. n : i = j \/ i < j \/ j < i
  BY <1>1
<1>8. Once(t)
  BY <1>5, <1>6, <1>7 DEF Once, t
<1>9. t \in Seq(S) /\ Len(t) = n
  BY <1>1, <1>5 DEF t
<1>10. ToSet(t) = S
  <2>1. Cardinality(ToSet(t)) = Cardinality(S) /\ ToSet(t) \subseteq S
    BY <1>8, <1>9, OnceCounts, RowsOf DEF n
  <2>. QED
    BY <2>1, FS_Subset
<1>. QED
  BY <1>8, <1>9, <1>10 DEF t

-----------------------------------------------------------------------------
(* The inductive invariant: TypeOK, that no row comes twice, and that what *)
(* the settling has yet to try, has queued or has placed waits for a match *)
(* in what is committed, unless it was decided on meanwhile.               *)
Waits(o) == placed[o] = None \/ o \in Queued

MatchesOK == /\ placed \in [Listing -> Entry \cup {None}] /\ by \in [Listing -> Judges]
             /\ \A o \in Listing : placed[o] # None => placed[o] \in entries

RowsOK == /\ queue \in Seq(Listing) /\ Once(queue)
          /\ among \in [Listing -> SUBSET Entry]
          /\ \A o \in Listing \ Queued : among[o] = {}
          /\ snoozed \subseteq Queued

CatalogueOK == /\ entries \subseteq Entry /\ fits \in [Listing -> SUBSET Entry]
               /\ made \subseteq Entry \ entries

MergingOK == merging # NoMerge =>
                /\ merging.from \in entries /\ merging.into \in entries
                /\ merging.from # merging.into
                /\ \A o \in merging.moved : placed[o] = merging.from
                /\ merging.moved \subseteq Listing /\ merging.moved \cap DOMAIN linked = {}

AskedOK == DOMAIN asked \subseteq Listing /\ \A o \in DOMAIN asked : asked[o] \subseteq Entry

WrittenOK == /\ DOMAIN linked \subseteq Listing
             /\ \A o \in DOMAIN linked : linked[o] \in SeesEntries
             /\ DOMAIN found \subseteq Listing /\ DOMAIN linked \cap DOMAIN found = {}
             /\ \A o \in DOMAIN found : found[o] \subseteq Entry

StampsOK == /\ recent \in Seq(Listing) /\ Once(recent)
            /\ fresh \subseteq DOMAIN found /\ fresh \cap (Queued \cup ToSet(recent)) = {}
            /\ DOMAIN found \subseteq fresh \cup ToSet(recent)
            /\ ToSet(recent) \subseteq DOMAIN found \cup (Queued \ DOMAIN linked)

PassOK == /\ stage \in Stage /\ todo \in Seq(Listing)
          /\ Once(todo) /\ ToSet(todo) \cap DOMAIN linked = {}
          /\ stage = "idle" => Written = {} /\ recent = <<>> /\ made = {} /\ todo = <<>>
          /\ since \subseteq Listing /\ faults \in 0 .. MaxFaults

WaitsOK == \A o \in (ToSet(todo) \cup Written) \ since : Waits(o)

IInv == /\ MatchesOK /\ RowsOK /\ CatalogueOK /\ MergingOK /\ AskedOK
        /\ WrittenOK /\ StampsOK /\ PassOK /\ WaitsOK

LEMMA InvGivesTypes == IInv => TypeOK
<1>. SUFFICES ASSUME IInv PROVE TypeOK
  OBVIOUS
<1>1. Cardinality(Queued) = Len(queue)
  BY OnceCounts DEF IInv, RowsOK, Queued
<1>. QED
  BY <1>1 DEF IInv, MatchesOK, RowsOK, CatalogueOK, MergingOK, AskedOK, WrittenOK, StampsOK,
              PassOK, TypeOK

LEMMA InvAtFirst == Init => IInv
<1>. SUFFICES ASSUME Init PROVE IInv
  OBVIOUS
<1>1. /\ <<>> \in Seq(Listing) /\ ToSet(<<>>) = {} /\ Once(<<>>)
      /\ DOMAIN NoLinks = {} /\ NoMerge.moved = {}
  BY DEF ToSet, Once, NoLinks, NoMerge
<1>2. queue \in Seq(Listing) /\ Once(queue)
  <2>1. CASE queue = <<>>
    BY <1>1, <2>1
  <2>2. ASSUME NEW o \in Unread, queue = <<o>> PROVE queue \in Seq(Listing) /\ Once(queue)
    BY <2>2, PlacementAssumption DEF Once
  <2>. QED
    BY <2>1, <2>2 DEF Init
<1>3. MatchesOK /\ CatalogueOK
  BY PlacementAssumption DEF Init, MatchesOK, CatalogueOK, Judges
<1>4. RowsOK
  BY <1>2 DEF Init, RowsOK
<1>5. WrittenOK /\ StampsOK /\ PassOK /\ WaitsOK
  BY <1>1, PlacementAssumption
  DEF Init, WrittenOK, StampsOK, PassOK, WaitsOK, Stage, Written
<1>6. AskedOK /\ MergingOK
  BY <1>1 DEF Init, AskedOK, MergingOK
<1>. QED
  BY <1>3, <1>4, <1>5, <1>6 DEF IInv

-----------------------------------------------------------------------------
(* What the settling sees. *)
LEMMA TheOne ==
    ASSUME NEW S, IsMatch(S)
    PROVE  The(S) \in S
<1>1. S # {}
  BY FS_EmptySet DEF IsMatch
<1>. QED
  BY <1>1 DEF The

LEMMA IdsFinite ==
    ASSUME NEW S \in SUBSET Listing
    PROVE  S \in SUBSET Nat /\ IsFiniteSet(S) /\ ById(S) \in Seq(Listing)
           /\ ToSet(ById(S)) = S /\ Once(ById(S))
<1>1. S \in SUBSET Nat /\ IsFiniteSet(S)
  BY PlacementAssumption, FS_Subset
<1>2. ById(S) \in Seq(S) /\ Once(ById(S))
  BY <1>1, ByIdRows
<1>3. ToSet(ById(S)) = S
  BY <1>1, ByIdRows
<1>4. \A s \in Seq(S) : s \in Seq(Listing)
  OBVIOUS
<1>. QED
  BY <1>1, <1>2, <1>3, <1>4

LEMMA SeenRows ==
    ASSUME IInv
    PROVE  /\ SeesQueue \in Seq(Listing) /\ Once(SeesQueue)
           /\ ToSet(SeesQueue) = (Queued \ Written) \cup DOMAIN found
           /\ Queued \subseteq Listing /\ Written \subseteq Listing
<1>. DEFINE new == ById(fresh)
            had == Untouched \o new
<1>1. queue \in Seq(Listing) /\ Once(queue) /\ recent \in Seq(Listing) /\ Once(recent)
      /\ Written \subseteq Listing
  BY DEF IInv, RowsOK, WrittenOK, StampsOK, Written
<1>2. /\ Untouched \in Seq(Listing) /\ Once(Untouched)
      /\ ToSet(Untouched) = Queued \ (Written \cup ToSet(recent))
  BY <1>1, WithoutRows DEF Queued, Untouched
<1>3. new \in Seq(Listing) /\ Once(new) /\ ToSet(new) = fresh
  <2>1. fresh \in SUBSET Listing
    BY DEF IInv, WrittenOK, StampsOK
  <2>. QED
    BY <2>1, IdsFinite
<1>4. Queued \subseteq Listing
  BY <1>1, RowsOf DEF Queued
<1>5. ToSet(Untouched) \cap fresh = {} /\ (ToSet(Untouched) \cup fresh) \cap ToSet(recent) = {}
  BY <1>2 DEF IInv, StampsOK, Written
<1>. HIDE DEF new
<1>6. had \in Seq(Listing) /\ Once(had) /\ ToSet(had) = ToSet(Untouched) \cup fresh
  BY <1>2, <1>3, <1>5, JoinRows
<1>. HIDE DEF had
<1>7. /\ had \o recent \in Seq(Listing) /\ Once(had \o recent)
      /\ ToSet(had \o recent) = ToSet(had) \cup ToSet(recent)
  BY <1>1, <1>5, <1>6, JoinRows
<1>8. SeesQueue = had \o recent
  BY DEF SeesQueue, had, new
<1>9. ToSet(SeesQueue) = (Queued \ Written) \cup DOMAIN found
  BY <1>2, <1>6, <1>7, <1>8 DEF IInv, StampsOK, WrittenOK, Written
<1>. QED
  BY <1>1, <1>4, <1>7, <1>8, <1>9

LEMMA PendingRows ==
    ASSUME IInv
    PROVE  /\ Top(Pending) \in Seq(Listing) /\ Once(Top(Pending))
           /\ \A o \in ToSet(Top(Pending)) : placed[o] = None /\ o \notin DOMAIN linked
<1>. DEFINE new == {o \in Listing : ~SeesPlaced(o) /\ o \notin ToSet(SeesQueue)}
            set == {o \in Listing : SeesPlaced(o)}
            old == Without(SeesQueue, set)
<1>1. ById(new) \in Seq(Listing) /\ ToSet(ById(new)) \subseteq new /\ Once(ById(new))
  BY IdsFinite
<1>2. SeesQueue \in Seq(Listing) /\ Once(SeesQueue)
  BY SeenRows
<1>3. old \in Seq(Listing) /\ ToSet(old) = ToSet(SeesQueue) \ set /\ Once(old)
      /\ ToSet(SeesQueue) \subseteq Listing
  <2>. HIDE DEF set
  <2>. QED
    BY <1>2, WithoutRows, RowsOf
<1>4. Pending \in Seq(Listing) /\ ToSet(Pending) = ToSet(ById(new)) \cup ToSet(old)
      /\ Once(Pending)
  <2>1. ToSet(ById(new)) \cap ToSet(old) = {}
    BY <1>1, <1>3
  <2>. HIDE DEF new, old
  <2>2. /\ ById(new) \o old \in Seq(Listing)
        /\ ToSet(ById(new) \o old) = ToSet(ById(new)) \cup ToSet(old)
        /\ Once(ById(new) \o old)
    BY <1>1, <1>3, <2>1, JoinRows
  <2>. QED
    BY <2>2 DEF Pending, new, old, set
<1>5. \A o \in ToSet(Pending) : placed[o] = None /\ o \notin DOMAIN linked
  BY <1>1, <1>3, <1>4 DEF SeesPlaced
<1>6. Top(Pending) \in Seq(Listing) /\ ToSet(Top(Pending)) \subseteq ToSet(Pending)
      /\ Once(Top(Pending))
  BY <1>4, TopRows
<1>. QED
  BY <1>5, <1>6

(* A pass takes a row after what is ahead of it and what was never tried. *)
LEMMA PendingInTurn ==
    ASSUME IInv, NEW o \in Listing, NEW p \in ToSet(Top(Pending)) \cap ToSet(SeesQueue),
           ~SeesPlaced(o), GoesFirst(o, p)
    PROVE  Before(Top(Pending), o, p)
<1>. DEFINE new == {x \in Listing : ~SeesPlaced(x) /\ x \notin ToSet(SeesQueue)}
            set == {x \in Listing : SeesPlaced(x)}
            old == Without(SeesQueue, set)
<1>1. ById(new) \in Seq(Listing) /\ ToSet(ById(new)) = new /\ Once(ById(new))
  BY IdsFinite
<1>2. SeesQueue \in Seq(Listing) /\ Once(SeesQueue)
  BY SeenRows
<1>3. /\ old \in Seq(Listing) /\ ToSet(old) = ToSet(SeesQueue) \ set /\ Once(old)
      /\ \A x, y : Before(SeesQueue, x, y) /\ {x, y} \cap set = {} => Before(old, x, y)
  <2>. HIDE DEF set
  <2>. QED
    BY <1>2, WithoutRows
<1>4. Pending = ById(new) \o old
  BY DEF Pending
<1>5. ToSet(ById(new)) \cap ToSet(old) = {} /\ o \notin set /\ p \notin new
  BY <1>1, <1>3
<1>6. o \in new \/ Before(SeesQueue, o, p)
  BY DEF GoesFirst
<1>. HIDE DEF new, old, set
<1>7. /\ Pending \in Seq(Listing) /\ Once(Pending)
      /\ ToSet(Pending) = ToSet(ById(new)) \cup ToSet(old)
  BY <1>1, <1>3, <1>4, <1>5, JoinRows
<1>8. ToSet(Top(Pending)) \subseteq ToSet(Pending)
  BY <1>7, TopRows
<1>9. p \in ToSet(old) /\ p \notin set
  BY <1>1, <1>3, <1>5, <1>7, <1>8
<1>10. Before(Pending, o, p)
  <2>1. CASE o \in new
    BY <1>1, <1>3, <1>4, <1>9, <2>1, JoinOrder
  <2>2. CASE Before(SeesQueue, o, p)
    <3>1. Before(old, o, p)
      BY <1>3, <1>5, <1>9, <2>2
    <3>. QED
      BY <1>1, <1>3, <1>4, <3>1, JoinOrder
  <2>. QED
    BY <1>6, <2>1, <2>2
<1>. QED
  BY <1>7, <1>10, TopOrder

LEMMA SweepableRows ==
    ASSUME IInv
    PROVE  /\ Top(Sweepable) \in Seq(Listing) /\ Once(Top(Sweepable))
           /\ \A o \in ToSet(Top(Sweepable)) \ since : Waits(o)
           /\ ToSet(Top(Sweepable)) \cap DOMAIN linked = {}
<1>. DEFINE some == {o \in ToSet(SeesQueue) : SeesAmong(o) = {} /\ ~SeesSnoozed(o)}
<1>1. ToSet(SeesQueue) \subseteq Listing
      /\ ToSet(SeesQueue) = (Queued \ Written) \cup DOMAIN found
  BY SeenRows, RowsOf
<1>2. ById(some) \in Seq(Listing) /\ ToSet(ById(some)) \subseteq some /\ Once(ById(some))
  BY <1>1, IdsFinite
<1>3. Top(Sweepable) \in Seq(Listing) /\ ToSet(Top(Sweepable)) \subseteq some
      /\ Once(Top(Sweepable))
  <2>. HIDE DEF some
  <2>1. /\ Top(ById(some)) \in Seq(Listing) /\ ToSet(Top(ById(some))) \subseteq ToSet(ById(some))
        /\ Once(Top(ById(some)))
    BY <1>2, TopRows
  <2>. QED
    BY <1>2, <2>1 DEF Sweepable, some
<1>4. /\ \A o \in ToSet(SeesQueue) \ since : Waits(o)
      /\ ToSet(SeesQueue) \cap DOMAIN linked = {}
  BY <1>1 DEF IInv, WaitsOK, Waits, WrittenOK, Written
<1>. QED
  BY <1>3, <1>4

(* What one listing adds to what was written. *)
LEMMA LinkWrites ==
    ASSUME IInv, NEW o \in Listing, NEW e \in SeesEntries', SettleLink(o, e),
           UNCHANGED <<merging, queue>>, SeesEntries \subseteq SeesEntries'
    PROVE  /\ WrittenOK' /\ StampsOK' /\ DOMAIN found' = DOMAIN found \ {o}
           /\ DOMAIN linked' = DOMAIN linked \cup {o} /\ o \notin merging.moved
<1>1. recent \in Seq(Listing) /\ Once(recent) /\ UNCHANGED Queued
  BY DEF IInv, StampsOK, Queued
<1>2. /\ linked' = With(linked, o, e) /\ recent' = Without(recent, {o}) /\ fresh' = fresh \ {o}
      /\ found' = [x \in DOMAIN found \ {o} |-> found[x]] /\ o \notin merging.moved
  BY DEF SettleLink, Moving
<1>3. recent' \in Seq(Listing) /\ ToSet(recent') = ToSet(recent) \ {o} /\ Once(recent')
  BY <1>1, <1>2, WithoutRows
<1>4. DOMAIN linked' = DOMAIN linked \cup {o}
      /\ \A x \in DOMAIN linked' : linked'[x] = IF x = o THEN e ELSE linked[x]
  BY <1>2 DEF With
<1>5. DOMAIN found' = DOMAIN found \ {o} /\ \A x \in DOMAIN found' : found'[x] = found[x]
  BY <1>2
<1>6. WrittenOK'
  BY <1>4, <1>5 DEF IInv, WrittenOK
<1>7. StampsOK'
  BY <1>1, <1>2, <1>3, <1>4, <1>5 DEF IInv, StampsOK
<1>. QED
  BY <1>2, <1>4, <1>5, <1>6, <1>7

LEMMA QueueWrites ==
    ASSUME IInv, NEW o \in Listing, NEW S \in SUBSET Entry, SettleQueue(o, S),
           o \notin DOMAIN linked, UNCHANGED queue, SeesEntries \subseteq SeesEntries'
    PROVE  /\ WrittenOK' /\ StampsOK' /\ DOMAIN found' = DOMAIN found \cup {o}
           /\ UNCHANGED linked
<1>1. recent \in Seq(Listing) /\ Once(recent) /\ UNCHANGED Queued
  BY DEF IInv, StampsOK, Queued
<1>2. found' = With(found, o, S) /\ UNCHANGED linked
  BY DEF SettleQueue
<1>3. DOMAIN found' = DOMAIN found \cup {o}
      /\ \A x \in DOMAIN found' : found'[x] = IF x = o THEN S ELSE found[x]
  BY <1>2 DEF With
<1>4. WrittenOK'
  BY <1>2, <1>3 DEF IInv, WrittenOK
<1>5. CASE o \in ToSet(SeesQueue)
  <2>. DEFINE rest == Without(recent, {o})
  <2>1. fresh' = fresh \ {o} /\ recent' = Append(rest, o)
    BY <1>5 DEF SettleQueue
  <2>2. rest \in Seq(Listing) /\ ToSet(rest) = ToSet(recent) \ {o} /\ Once(rest)
    BY <1>1, WithoutRows
  <2>. HIDE DEF rest
  <2>3. recent' \in Seq(Listing) /\ Once(recent') /\ ToSet(recent') = ToSet(recent) \cup {o}
    BY <2>1, <2>2, AppendRow
  <2>4. StampsOK'
    BY <1>1, <1>2, <1>3, <2>1, <2>3 DEF IInv, StampsOK
  <2>. QED
    BY <1>2, <1>3, <1>4, <2>4
<1>6. CASE o \notin ToSet(SeesQueue)
  <2>1. fresh' = fresh \cup {o} /\ UNCHANGED recent
    BY <1>6 DEF SettleQueue
  <2>2. o \notin Queued /\ o \notin DOMAIN found
    BY <1>6, SeenRows DEF Written
  <2>3. o \notin ToSet(recent)
    BY <2>2 DEF IInv, StampsOK
  <2>4. StampsOK'
    BY <1>1, <1>2, <1>3, <2>1, <2>2, <2>3 DEF IInv, StampsOK
  <2>. QED
    BY <1>2, <1>3, <1>4, <2>4
<1>. QED
  BY <1>5, <1>6

-----------------------------------------------------------------------------
(* The steps of the settling. *)
Outside == <<matches, rows, catalogue, asked, faults>>

LEMMA SettlesOn ==
    ASSUME IInv, UNCHANGED <<Outside, since>>, WrittenOK', StampsOK',
           stage' \in Stage \ {"idle"}, todo' \in Seq(Listing), Once(todo'),
           ToSet(todo') \cap DOMAIN linked' = {},
           made' \subseteq Entry \ entries,
           merging.moved \cap DOMAIN linked' \subseteq DOMAIN linked,
           \A o \in (ToSet(todo') \cup Written') \ since : Waits(o)
    PROVE  IInv'
<1>1. MatchesOK' /\ RowsOK' /\ AskedOK'
  BY DEF IInv, Outside, matches, rows, catalogue, MatchesOK, RowsOK, AskedOK, Queued
<1>2. CatalogueOK'
  BY DEF IInv, Outside, catalogue, CatalogueOK
<1>3. MergingOK'
  BY DEF IInv, Outside, matches, catalogue, MergingOK
<1>4. PassOK'
  BY DEF IInv, Outside, PassOK
<1>5. WaitsOK'
  BY DEF WaitsOK, Waits, Outside, matches, rows, Queued
<1>. QED
  BY <1>1, <1>2, <1>3, <1>4, <1>5 DEF IInv

LEMMA NothingWritten ==
    ASSUME IInv, UNCHANGED <<entries, queue, overlay, made>>
    PROVE  WrittenOK' /\ StampsOK' /\ UNCHANGED Written
BY DEF IInv, WrittenOK, StampsOK, SeesEntries, overlay, Queued, Written

LEMMA StepBegin ==
    ASSUME IInv, Begin
    PROVE  IInv'
<1>1. stage = "idle" /\ stage' = "first" /\ todo' = Top(Pending) /\ since' = {}
      /\ UNCHANGED <<overlay, made>> /\ UNCHANGED Outside
  BY DEF Begin, Outside
<1>2. Top(Pending) \in Seq(Listing) /\ Once(Top(Pending))
      /\ \A o \in ToSet(Top(Pending)) : placed[o] = None /\ o \notin DOMAIN linked
  BY PendingRows
<1>3. WrittenOK' /\ StampsOK' /\ Written' = {} /\ made' = {}
  BY <1>1, NothingWritten DEF Outside, catalogue, rows, IInv, PassOK
<1>4. MatchesOK' /\ RowsOK' /\ AskedOK' /\ CatalogueOK' /\ MergingOK'
  BY <1>1 DEF IInv, Outside, matches, rows, catalogue, MatchesOK, RowsOK, AskedOK, CatalogueOK,
              MergingOK, Queued, overlay
<1>5. PassOK'
  BY <1>1, <1>2 DEF IInv, Outside, PassOK, Stage, overlay
<1>6. WaitsOK'
  BY <1>1, <1>2, <1>3 DEF WaitsOK, Waits, Outside, matches, rows, Queued
<1>. QED
  BY <1>3, <1>4, <1>5, <1>6 DEF IInv

LEMMA StepBeginSweep ==
    ASSUME IInv, BeginSweep
    PROVE  IInv'
<1>1. stage' = "sweep" /\ todo' = Top(Sweepable) /\ UNCHANGED <<Outside, since>>
      /\ UNCHANGED <<overlay, made>> /\ UNCHANGED linked
  BY DEF BeginSweep, Outside, overlay
<1>2. /\ Top(Sweepable) \in Seq(Listing) /\ Once(Top(Sweepable))
      /\ \A o \in ToSet(Top(Sweepable)) \ since : Waits(o)
      /\ ToSet(Top(Sweepable)) \cap DOMAIN linked = {}
  BY SweepableRows
<1>3. WrittenOK' /\ StampsOK' /\ UNCHANGED Written
  BY <1>1, NothingWritten DEF Outside, catalogue, rows
<1>4. \A o \in Written \ since : Waits(o)
  BY DEF IInv, WaitsOK
<1>5. made' \subseteq Entry \ entries
  BY <1>1 DEF IInv, CatalogueOK
<1>. QED
  BY <1>1, <1>2, <1>3, <1>4, <1>5, SettlesOn DEF Stage

LEMMA StepBeginAgain ==
    ASSUME IInv, BeginAgain
    PROVE  IInv'
<1>1. stage' = "again" /\ todo' = Top(Pending) /\ UNCHANGED <<Outside, since>>
      /\ UNCHANGED <<overlay, made>> /\ UNCHANGED linked
  BY DEF BeginAgain, Outside, overlay
<1>2. Top(Pending) \in Seq(Listing) /\ Once(Top(Pending))
      /\ \A o \in ToSet(Top(Pending)) : placed[o] = None /\ o \notin DOMAIN linked
  BY PendingRows
<1>3. WrittenOK' /\ StampsOK' /\ UNCHANGED Written
  BY <1>1, NothingWritten DEF Outside, catalogue, rows
<1>4. \A o \in (ToSet(Top(Pending)) \cup Written) \ since : Waits(o)
  BY <1>2 DEF IInv, WaitsOK, Waits
<1>5. made' \subseteq Entry \ entries /\ ToSet(Top(Pending)) \cap DOMAIN linked = {}
  BY <1>1, <1>2 DEF IInv, CatalogueOK
<1>. QED
  BY <1>1, <1>2, <1>3, <1>4, <1>5, SettlesOn DEF Stage

(* The listing at the head is done with, whatever was written about it. *)
LEMMA HeadDone ==
    ASSUME IInv, todo # <<>>, stage # "idle", Proceed, WrittenOK', StampsOK',
           made' \subseteq Entry \ entries,
           DOMAIN found' \subseteq DOMAIN found \cup {Head(todo)},
           DOMAIN linked' \subseteq DOMAIN linked \cup {Head(todo)},
           Head(todo) \in DOMAIN linked' => Head(todo) \notin merging.moved
    PROVE  IInv'
<1>1. todo \in Seq(Listing) /\ Once(todo) /\ ToSet(todo) \cap DOMAIN linked = {} /\ stage \in Stage
  BY DEF IInv, PassOK
<1>2. /\ Tail(todo) \in Seq(Listing) /\ ToSet(Tail(todo)) \subseteq ToSet(todo)
      /\ Head(todo) \in ToSet(todo) /\ Once(Tail(todo)) /\ Head(todo) \notin ToSet(Tail(todo))
  BY <1>1, TailRows
<1>3. UNCHANGED <<Outside, since>> /\ todo' = Tail(todo) /\ UNCHANGED stage
  BY DEF Proceed, Outside
<1>4. \A o \in (ToSet(todo') \cup Written') \ since : Waits(o)
  BY <1>2, <1>3 DEF IInv, WaitsOK, Written
<1>5. ToSet(todo') \cap DOMAIN linked' = {} /\ merging.moved \cap DOMAIN linked' \subseteq DOMAIN linked
  BY <1>1, <1>2, <1>3
<1>. QED
  BY <1>1, <1>2, <1>3, <1>4, <1>5, SettlesOn

LEMMA HeadLinks ==
    ASSUME IInv, todo # <<>>, stage # "idle", Proceed,
           NEW e \in SeesEntries', SettleLink(Head(todo), e),
           made \subseteq made', made' \subseteq Entry \ entries
    PROVE  IInv'
<1>1. Head(todo) \in Listing
  BY TailRows DEF IInv, PassOK
<1>2. UNCHANGED <<entries, merging, queue>>
  BY DEF Proceed, catalogue, rows
<1>3. SeesEntries \subseteq SeesEntries'
  BY <1>2 DEF SeesEntries
<1>4. /\ WrittenOK' /\ StampsOK' /\ DOMAIN found' = DOMAIN found \ {Head(todo)}
      /\ DOMAIN linked' = DOMAIN linked \cup {Head(todo)} /\ Head(todo) \notin merging.moved
  BY <1>1, <1>2, <1>3, LinkWrites
<1>. QED
  BY <1>4, HeadDone

LEMMA HeadQueues ==
    ASSUME IInv, todo # <<>>, stage # "idle", Proceed,
           NEW S \in SUBSET Entry, SettleQueue(Head(todo), S),
           made \subseteq made', made' \subseteq Entry \ entries
    PROVE  IInv'
<1>1. Head(todo) \in Listing /\ Head(todo) \in ToSet(todo)
  BY TailRows DEF IInv, PassOK
<1>2. UNCHANGED <<entries, queue>> /\ Head(todo) \notin DOMAIN linked
  BY <1>1 DEF Proceed, catalogue, rows, IInv, PassOK
<1>3. SeesEntries \subseteq SeesEntries'
  BY <1>2 DEF SeesEntries
<1>4. /\ WrittenOK' /\ StampsOK' /\ DOMAIN found' = DOMAIN found \cup {Head(todo)}
      /\ UNCHANGED linked
  BY <1>1, <1>2, <1>3, QueueWrites
<1>. QED
  BY <1>2, <1>4, HeadDone

LEMMA HeadSkips ==
    ASSUME IInv, todo # <<>>, stage # "idle", Proceed,
           UNCHANGED <<overlay, made>>
    PROVE  IInv'
<1>1. WrittenOK' /\ StampsOK' /\ UNCHANGED <<linked, found>>
  BY NothingWritten DEF Proceed, catalogue, rows, overlay
<1>2. made' \subseteq Entry \ entries
  BY DEF IInv, CatalogueOK
<1>3. Head(todo) \notin DOMAIN linked
  BY TailRows DEF IInv, PassOK
<1>. QED
  BY <1>1, <1>2, <1>3, HeadDone

(* What the ladder finds is in the catalogue. *)
LEMMA LadderFinds ==
    ASSUME IInv, todo # <<>>
    PROVE  LET fit == Ladder(Head(todo), SeesEntries)
           IN  /\ fit \in SUBSET Entry /\ fit \subseteq SeesEntries
               /\ IsMatch(fit) => The(fit) \in SeesEntries
               /\ Head(todo) \in Listing /\ Own[Head(todo)] \in Entry
<1>. DEFINE fit == Ladder(Head(todo), SeesEntries)
<1>1. Head(todo) \in Listing
  BY TailRows DEF IInv, PassOK
<1>2. fit \in SUBSET Entry /\ fit \subseteq SeesEntries
  BY <1>1 DEF IInv, CatalogueOK, Ladder
<1>3. IsMatch(fit) => The(fit) \in fit
  BY TheOne
<1>. HIDE DEF fit
<1>. QED
  BY <1>1, <1>2, <1>3, PlacementAssumption DEF fit

LEMMA StepTry ==
    ASSUME IInv, Try
    PROVE  IInv'
<1>. DEFINE o == Head(todo)
            fit == Ladder(o, SeesEntries)
<1>1. /\ todo # <<>> /\ stage # "idle" /\ Proceed /\ UNCHANGED made
      /\ IF o \in Unread THEN UNCHANGED overlay
         ELSE IF IsMatch(fit) THEN SettleLink(o, The(fit)) ELSE SettleQueue(o, fit)
  BY DEF Try
<1>2. /\ fit \in SUBSET Entry
      /\ IsMatch(fit) => The(fit) \in SeesEntries
  BY <1>1, LadderFinds
<1>3. SeesEntries' = SeesEntries /\ made \subseteq made' /\ made' \subseteq Entry \ entries
  BY <1>1 DEF Proceed, catalogue, SeesEntries, IInv, CatalogueOK
<1>4. CASE o \in Unread
  BY <1>1, <1>4, HeadSkips
<1>5. CASE o \notin Unread /\ IsMatch(fit)
  <2>. DEFINE e == The(fit)
  <2>1. SettleLink(o, e)
    BY <1>1, <1>5
  <2>2. e \in SeesEntries'
    BY <1>2, <1>3, <1>5
  <2>. HIDE DEF e
  <2>. QED
    BY <1>1, <1>3, <2>1, <2>2, HeadLinks
<1>6. CASE o \notin Unread /\ ~IsMatch(fit)
  <2>1. SettleQueue(o, fit)
    BY <1>1, <1>6
  <2>. HIDE DEF fit
  <2>. QED
    BY <1>1, <1>2, <1>3, <2>1, HeadQueues
<1>. QED
  BY <1>4, <1>5, <1>6

LEMMA StepSweep ==
    ASSUME IInv, SweepUnread \/ SweepPlaces \/ SweepLeaves \/ SweepMakes
    PROVE  IInv'
<1>. DEFINE o == Head(todo)
            fit == Ladder(o, SeesEntries)
            now == fit \cup {Own[o]}
<1>1. todo # <<>> /\ stage # "idle" /\ Proceed
  BY DEF SweepUnread, SweepPlaces, SweepLeaves, SweepMakes
<1>2. /\ fit \in SUBSET Entry
      /\ IsMatch(fit) => The(fit) \in SeesEntries
      /\ Own[o] \in Entry
  BY <1>1, LadderFinds
<1>3. UNCHANGED entries /\ made \subseteq Entry \ entries
  BY <1>1 DEF Proceed, catalogue, IInv, CatalogueOK
<1>4. CASE SweepUnread
  BY <1>1, <1>4, HeadSkips DEF SweepUnread
<1>5. CASE SweepPlaces
  <2>1. IsMatch(fit) /\ SettleLink(o, The(fit)) /\ UNCHANGED made
    BY <1>5 DEF SweepPlaces
  <2>2. SeesEntries' = SeesEntries /\ made \subseteq made' /\ made' \subseteq Entry \ entries
    BY <1>3, <2>1 DEF SeesEntries
  <2>. DEFINE e == The(fit)
  <2>3. SettleLink(o, e) /\ e \in SeesEntries'
    BY <1>2, <2>1, <2>2
  <2>. HIDE DEF e
  <2>. QED
    BY <1>1, <2>2, <2>3, HeadLinks
<1>6. CASE SweepLeaves
  <2>1. SettleQueue(o, fit) /\ UNCHANGED made
    BY <1>6 DEF SweepLeaves
  <2>2. made \subseteq made' /\ made' \subseteq Entry \ entries
    BY <1>3, <2>1
  <2>. HIDE DEF fit
  <2>. QED
    BY <1>1, <1>2, <2>1, <2>2, HeadQueues
<1>7. CASE SweepMakes
  <2>1. /\ CanMake(o) /\ made' = made \cup {Own[o]}
        /\ IsMatch(now) => SettleLink(o, Own[o])
        /\ ~IsMatch(now) => SettleQueue(o, now)
    BY <1>7 DEF SweepMakes
  <2>2. /\ Own[o] \in SeesEntries' /\ made \subseteq made' /\ made' \subseteq Entry \ entries
        /\ now \in SUBSET Entry
    BY <1>2, <1>3, <2>1 DEF SeesEntries, CanMake
  <2>. HIDE DEF now
  <2>3. CASE IsMatch(now)
    BY <1>1, <2>1, <2>2, <2>3, HeadLinks
  <2>4. CASE ~IsMatch(now)
    BY <1>1, <2>1, <2>2, <2>4, HeadQueues
  <2>. QED
    BY <2>3, <2>4
<1>. QED
  BY <1>4, <1>5, <1>6, <1>7

(* Nothing is under way any more. *)
LEMMA StepEnds ==
    ASSUME IInv, EndSettling, UNCHANGED <<matches, rows, catalogue, asked, since>>,
           faults' \in 0 .. MaxFaults
    PROVE  IInv'
<1>1. /\ <<>> \in Seq(Listing) /\ ToSet(<<>>) = {} /\ Once(<<>>) /\ DOMAIN NoLinks = {}
  BY DEF ToSet, Once, NoLinks
<1>2. stage' = "idle" /\ todo' = <<>> /\ linked' = NoLinks /\ found' = NoLinks
      /\ fresh' = {} /\ recent' = <<>> /\ made' = {}
  BY DEF EndSettling
<1>3. MatchesOK' /\ RowsOK' /\ AskedOK'
  BY DEF IInv, matches, rows, catalogue, MatchesOK, RowsOK, AskedOK, Queued
<1>4. CatalogueOK' /\ MergingOK'
  BY <1>1, <1>2 DEF IInv, matches, catalogue, CatalogueOK, MergingOK
<1>5. WrittenOK' /\ StampsOK' /\ PassOK' /\ WaitsOK'
  BY <1>1, <1>2 DEF IInv, WrittenOK, StampsOK, PassOK, WaitsOK, Written, Stage
<1>. QED
  BY <1>3, <1>4, <1>5 DEF IInv

LEMMA StepFails ==
    ASSUME IInv, SweepFails \/ Abort
    PROVE  IInv'
<1>1. faults \in 0 .. MaxFaults
  BY DEF IInv, PassOK
<1>2. faults' \in 0 .. MaxFaults
  BY <1>1, PlacementAssumption DEF SweepFails, Abort
<1>. QED
  BY <1>2, StepEnds DEF SweepFails, Abort

LEMMA StepCommit ==
    ASSUME IInv, Commit
    PROVE  /\ IInv'
           /\ \A o \in Listing : placed'[o] = IF o \in DOMAIN linked THEN linked[o] ELSE placed[o]
           /\ Queued' = (Queued \ Written) \cup DOMAIN found
<1>1. /\ placed' = Over(linked, placed)
      /\ by' = [o \in Listing |-> IF o \in DOMAIN linked THEN "rule" ELSE by[o]]
      /\ queue' = SeesQueue
      /\ among' = [o \in Listing |-> IF o \in DOMAIN linked THEN {} ELSE SeesAmong(o)]
      /\ snoozed' = snoozed \ DOMAIN linked
      /\ entries' = SeesEntries
      /\ EndSettling /\ UNCHANGED <<fits, merging, asked, since, faults>>
  BY DEF Commit
<1>2. /\ SeesQueue \in Seq(Listing) /\ Once(SeesQueue)
      /\ ToSet(SeesQueue) = (Queued \ Written) \cup DOMAIN found
  BY SeenRows
<1>3. Queued' = (Queued \ Written) \cup DOMAIN found
  BY <1>1, <1>2 DEF Queued
<1>4. \A o \in Listing : placed'[o] = IF o \in DOMAIN linked THEN linked[o] ELSE placed[o]
  BY <1>1 DEF Over
<1>5. /\ <<>> \in Seq(Listing) /\ ToSet(<<>>) = {} /\ Once(<<>>) /\ DOMAIN NoLinks = {}
  BY DEF ToSet, Once, NoLinks
<1>6. stage' = "idle" /\ todo' = <<>> /\ linked' = NoLinks /\ found' = NoLinks
      /\ fresh' = {} /\ recent' = <<>> /\ made' = {}
  BY <1>1 DEF EndSettling
<1>7. SeesEntries \subseteq Entry /\ entries \subseteq SeesEntries
  BY DEF IInv, CatalogueOK, SeesEntries
<1>8. MatchesOK'
  <2>1. \A o \in DOMAIN linked : linked[o] \in SeesEntries
    BY DEF IInv, WrittenOK
  <2>2. placed' \in [Listing -> Entry \cup {None}]
    BY <1>1, <1>7, <2>1 DEF IInv, MatchesOK, Over
  <2>3. by' \in [Listing -> Judges]
    BY <1>1 DEF IInv, MatchesOK, Judges
  <2>4. \A o \in Listing : placed'[o] # None => placed'[o] \in entries'
    BY <1>1, <1>4, <1>7, <2>1 DEF IInv, MatchesOK
  <2>. QED
    BY <2>2, <2>3, <2>4 DEF MatchesOK
<1>9. RowsOK'
  <2>1. \A o \in Listing : SeesAmong(o) \in SUBSET Entry
    BY DEF SeesAmong, IInv, WrittenOK, RowsOK
  <2>2. among' \in [Listing -> SUBSET Entry]
    BY <1>1, <2>1
  <2>3. ASSUME NEW o \in Listing \ Queued' PROVE among'[o] = {}
    <3>1. o \in DOMAIN linked \/ (o \notin Queued /\ o \notin DOMAIN found)
      BY <1>3 DEF Written
    <3>. QED
      BY <1>1, <3>1 DEF SeesAmong, IInv, RowsOK
  <2>4. snoozed' \subseteq Queued'
    BY <1>1, <1>3 DEF IInv, RowsOK, Written
  <2>. QED
    BY <1>1, <1>2, <2>2, <2>3, <2>4 DEF RowsOK
<1>10. CatalogueOK' /\ AskedOK'
  BY <1>1, <1>6, <1>7 DEF IInv, CatalogueOK, AskedOK
<1>11. MergingOK'
  <2>1. SUFFICES ASSUME merging # NoMerge PROVE MergingOK'
    BY <1>1 DEF MergingOK
  <2>2. /\ merging.from \in entries /\ merging.into \in entries /\ merging.from # merging.into
        /\ \A o \in merging.moved : placed[o] = merging.from
        /\ merging.moved \subseteq Listing /\ merging.moved \cap DOMAIN linked = {}
    BY <2>1 DEF IInv, MergingOK
  <2>3. \A o \in merging.moved : placed'[o] = merging.from
    BY <1>4, <2>2
  <2>. QED
    BY <1>1, <1>5, <1>6, <1>7, <2>2, <2>3 DEF MergingOK
<1>12. WrittenOK' /\ StampsOK' /\ PassOK' /\ WaitsOK'
  BY <1>1, <1>5, <1>6 DEF IInv, WrittenOK, StampsOK, PassOK, WaitsOK, Written, Stage
<1>. QED
  BY <1>3, <1>4, <1>8, <1>9, <1>10, <1>11, <1>12 DEF IInv

-----------------------------------------------------------------------------
(* The requests of people, and the judge's answer. *)

(* A step that leaves the settling alone, but for what it was decided      *)
(* behind its back: S.                                                     *)
LEMMA PassGoesOn ==
    ASSUME IInv, NEW S \in SUBSET Listing, Touch(S), UNCHANGED <<settling, faults>>,
           stage = "idle" => recent' = <<>>,
           \A o \in Listing \ S : Waits(o) => Waits(o)'
    PROVE  PassOK' /\ WaitsOK'
<1>1. UNCHANGED <<stage, todo, linked, found, made>>
  BY DEF settling
<1>2. PassOK'
  BY <1>1 DEF IInv, PassOK, Touch, Written
<1>3. WaitsOK'
  <2>1. CASE stage = "idle"
    <3>1. ToSet(todo) = {} /\ Written = {} /\ UNCHANGED Written
      BY <1>1, <2>1 DEF IInv, PassOK, Written, ToSet
    <3>. QED
      BY <1>1, <3>1 DEF WaitsOK
  <2>2. CASE stage # "idle"
    <3>1. since' = since \cup S
      BY <2>2 DEF Touch
    <3>2. ToSet(todo) \subseteq Listing /\ Written \subseteq Listing /\ UNCHANGED Written
      BY <1>1, RowsOf DEF IInv, PassOK, WrittenOK, Written
    <3>. QED
      BY <1>1, <3>1, <3>2 DEF IInv, WaitsOK
  <2>. QED
    BY <2>1, <2>2
<1>. QED
  BY <1>2, <1>3

(* The catalogue may have grown by what the settling does not make.        *)
LEMMA Places ==
    ASSUME IInv, NEW S \in SUBSET Listing, NEW f \in [S -> entries'], NEW who \in Judges,
           Link(f, who), Touch(S), UNCHANGED <<settling, faults, fits, merging>>,
           entries \subseteq entries', entries' \subseteq Entry \ made,
           AskedOK'
    PROVE  /\ IInv'
           /\ \A o \in Listing : placed'[o] = IF o \in S THEN f[o] ELSE placed[o]
           /\ Queued' = Queued \ S
<1>1. DOMAIN f = S
  OBVIOUS
<1>2. /\ S \cap merging.moved = {}
      /\ placed' = Over(f, placed)
      /\ by' = [o \in Listing |-> IF o \in S THEN who ELSE by[o]]
      /\ queue' = Without(queue, S) /\ recent' = Without(recent, S \ DOMAIN found)
      /\ among' = [o \in Listing |-> IF o \in S THEN {} ELSE among[o]]
      /\ snoozed' = snoozed \ S
  BY <1>1 DEF Link, Dequeue
<1>3. \A o \in Listing : placed'[o] = IF o \in S THEN f[o] ELSE placed[o]
  BY <1>1, <1>2 DEF Over
<1>4. queue' \in Seq(Listing) /\ Once(queue') /\ Queued' = Queued \ S
  BY <1>2, WithoutRows DEF IInv, RowsOK, Queued
<1>5. None \notin Entry /\ \A o \in S : f[o] \in entries' /\ f[o] # None
  BY PlacementAssumption
<1>6. MatchesOK'
  <2>1. placed' \in [Listing -> Entry \cup {None}]
    BY <1>1, <1>2, <1>5 DEF IInv, MatchesOK, Over
  <2>2. by' \in [Listing -> Judges]
    BY <1>2 DEF IInv, MatchesOK
  <2>3. \A o \in Listing : placed'[o] # None => placed'[o] \in entries'
    BY <1>3, <1>5 DEF IInv, MatchesOK
  <2>. QED
    BY <2>1, <2>2, <2>3 DEF MatchesOK
<1>7. RowsOK'
  BY <1>2, <1>4 DEF IInv, RowsOK
<1>8. UNCHANGED <<linked, found, fresh, made, todo, stage>>
  BY DEF settling
<1>9. CatalogueOK' /\ WrittenOK' /\ StampsOK'
  <2>1. recent' \in Seq(Listing) /\ Once(recent') /\ ToSet(recent') = ToSet(recent) \ (S \ DOMAIN found)
    BY <1>2, WithoutRows DEF IInv, StampsOK
  <2>2. StampsOK'
    BY <1>4, <1>8, <2>1 DEF IInv, StampsOK
  <2>. QED
    BY <1>8, <2>2 DEF IInv, CatalogueOK, WrittenOK, SeesEntries
<1>10. MergingOK'
  BY <1>2, <1>3, <1>8 DEF IInv, MergingOK
<1>11. PassOK' /\ WaitsOK'
  <2>1. \A o \in Listing \ S : Waits(o) => Waits(o)'
    BY <1>3, <1>4 DEF Waits
  <2>2. ASSUME stage = "idle" PROVE recent' = <<>>
    <3>. DEFINE gone == S \ DOMAIN found
    <3>1. recent = <<>> /\ recent' = Without(recent, gone) /\ recent \in Seq(Listing)
      BY <1>2, <2>2 DEF IInv, PassOK
    <3>. HIDE DEF gone
    <3>2. recent' \in Seq(Listing) /\ ToSet(recent') = ToSet(recent) \ gone
      BY <3>1, WithoutRows
    <3>3. ToSet(recent') = {}
      BY <3>1, <3>2 DEF ToSet
    <3>4. recent' # <<>> => 1 \in DOMAIN recent'
      BY <3>2
    <3>. QED
      BY <3>3, <3>4 DEF ToSet
  <2>. QED
    BY <2>1, <2>2, PassGoesOn
<1>. QED
  BY <1>3, <1>4, <1>6, <1>7, <1>9, <1>10, <1>11 DEF IInv

(* One listing goes back to the queue, from wherever it was.               *)
LEMMA GoesBack ==
    ASSUME IInv, NEW o \in Listing, NEW S \in SUBSET Entry, Requeue(o, S), o \notin Written, Touch({o}),
           UNCHANGED <<settling, faults, fits, merging, asked>>,
           entries \subseteq entries', entries' \subseteq Entry \ made,
           \/ UNCHANGED matches
           \/ /\ placed' = [placed EXCEPT ![o] = None] /\ by' = [by EXCEPT ![o] = "rule"]
              /\ o \notin merging.moved
    PROVE  IInv' /\ Queued' = Queued \cup {o}
<1>. DEFINE rest == Without(queue, {o})
<1>1. /\ queue' = Append(rest, o) /\ among' = [among EXCEPT ![o] = S] /\ UNCHANGED snoozed
      /\ recent' = IF stage = "idle" THEN <<>> ELSE Append(Without(recent, {o}), o)
  BY DEF Requeue
<1>2. rest \in Seq(Listing) /\ Once(rest) /\ ToSet(rest) = Queued \ {o}
  BY WithoutRows DEF IInv, RowsOK, Queued
<1>. HIDE DEF rest
<1>3. queue' \in Seq(Listing) /\ Once(queue') /\ Queued' = Queued \cup {o}
  BY <1>1, <1>2, AppendRow DEF Queued
<1>4. RowsOK'
  BY <1>1, <1>3 DEF IInv, RowsOK
<1>5. MatchesOK'
  BY DEF IInv, MatchesOK, matches, Judges
<1>6. UNCHANGED <<linked, found, fresh, made, todo, stage>>
  BY DEF settling
<1>7. CatalogueOK' /\ WrittenOK' /\ AskedOK' /\ StampsOK'
  <2>1. o \notin DOMAIN linked /\ o \notin DOMAIN found /\ o \notin fresh
    BY DEF Written, IInv, StampsOK
  <2>2. recent' \in Seq(Listing) /\ Once(recent')
        /\ ToSet(recent') \subseteq ToSet(recent) \cup {o}
        /\ (stage # "idle" => ToSet(recent') = ToSet(recent) \cup {o})
    <3>1. CASE stage = "idle"
      BY <1>1, <3>1 DEF ToSet, Once
    <3>2. CASE stage # "idle"
      <4>. DEFINE kept == Without(recent, {o})
      <4>1. kept \in Seq(Listing) /\ Once(kept) /\ ToSet(kept) = ToSet(recent) \ {o}
        BY WithoutRows DEF IInv, StampsOK
      <4>2. recent' = Append(kept, o)
        BY <1>1, <3>2
      <4>. HIDE DEF kept
      <4>. QED
        BY <3>2, <4>1, <4>2, AppendRow
    <3>. QED
      BY <3>1, <3>2
  <2>3. DOMAIN found \subseteq fresh \cup ToSet(recent')
    <3>1. CASE stage = "idle"
      BY <3>1 DEF IInv, PassOK, Written
    <3>. QED
      BY <2>2, <3>1 DEF IInv, StampsOK
  <2>4. StampsOK'
    BY <1>3, <1>6, <2>1, <2>2, <2>3 DEF IInv, StampsOK
  <2>. QED
    BY <1>6, <2>4 DEF IInv, CatalogueOK, WrittenOK, SeesEntries, AskedOK
<1>8. \A x \in Listing \ {o} : placed'[x] = placed[x]
  BY DEF IInv, MatchesOK, matches
<1>9. MergingOK'
  BY <1>6, <1>8 DEF IInv, MergingOK, matches
<1>10. PassOK' /\ WaitsOK'
  <2>1. \A x \in Listing \ {o} : Waits(x) => Waits(x)'
    BY <1>3, <1>8 DEF Waits
  <2>. QED
    BY <1>1, <2>1, PassGoesOn
<1>. QED
  BY <1>3, <1>4, <1>5, <1>7, <1>9, <1>10 DEF IInv

(* Only what is snoozed changes. *)
LEMMA SnoozeOnly ==
    ASSUME IInv, NEW o \in Listing, snoozed' \subseteq Queued,
           UNCHANGED <<matches, queue, among, recent, catalogue, asked, settling, faults>>,
           Touch({o}) \/ UNCHANGED since
    PROVE  IInv' /\ UNCHANGED Queued
<1>1. UNCHANGED <<placed, by, entries, fits, merging, linked, found, fresh, made, todo, stage>>
      /\ UNCHANGED Queued
  BY DEF matches, catalogue, settling, Queued
<1>2. MatchesOK' /\ RowsOK' /\ CatalogueOK' /\ MergingOK' /\ AskedOK' /\ WrittenOK' /\ StampsOK'
  BY <1>1 DEF IInv, MatchesOK, RowsOK, CatalogueOK, MergingOK, AskedOK, WrittenOK, StampsOK,
              SeesEntries
<1>3. PassOK' /\ WaitsOK'
  <2>1. CASE Touch({o})
    <3>1. \A x \in Listing \ {o} : Waits(x) => Waits(x)'
      BY <1>1 DEF Waits
    <3>2. stage = "idle" => recent' = <<>>
      BY DEF IInv, PassOK
    <3>. QED
      BY <2>1, <3>1, <3>2, PassGoesOn
  <2>2. CASE UNCHANGED since
    BY <1>1, <2>2 DEF IInv, PassOK, WaitsOK, Waits, Written
  <2>. QED
    BY <2>1, <2>2
<1>. QED
  BY <1>1, <1>2, <1>3 DEF IInv

(* What a request may do to where listings are: only unlinking takes one   *)
(* out, and it goes to the queue.                                          *)
StaysSomewhere(o) ==
    /\ placed[o] # None => placed'[o] # None \/ Unlink(o) \/ GoesWithTheEntry(o)
    /\ placed[o] # None \/ o \in Queued
         => placed'[o] # None \/ o \in Queued' \/ GoesWithTheEntry(o)

LEMMA PlacedStay ==
    ASSUME IInv, IInv', NEW S \in SUBSET Listing, NEW f \in [S -> Entry],
           \A o \in Listing : placed'[o] = IF o \in S THEN f[o] ELSE placed[o],
           Queued' = Queued \ S
    PROVE  \A o \in Listing : StaysSomewhere(o)
<1>1. \A o \in S : f[o] # None
  BY PlacementAssumption
<1>. QED
  BY <1>1 DEF StaysSomewhere

LEMMA OneIsPlaced ==
    ASSUME IInv, NEW o \in Listing, NEW e \in entries', NEW who \in Judges,
           Link(Only(o, e), who), Touch({o}), UNCHANGED <<settling, faults, fits, merging, asked>>,
           entries \subseteq entries', entries' \subseteq Entry \ made
    PROVE  IInv' /\ \A x \in Listing : StaysSomewhere(x)
<1>. DEFINE f == Only(o, e)
<1>1. f \in [{o} -> entries'] /\ f \in [{o} -> Entry] /\ {o} \in SUBSET Listing
  BY DEF Only
<1>2. AskedOK'
  BY DEF IInv, AskedOK
<1>. HIDE DEF f
<1>3. /\ IInv'
      /\ \A x \in Listing : placed'[x] = IF x \in {o} THEN f[x] ELSE placed[x]
      /\ Queued' = Queued \ {o}
  <2>1. Link(f, who)
    BY DEF f
  <2>. QED
    BY <1>1, <1>2, <2>1, Places
<1>. QED
  BY <1>1, <1>3, PlacedStay

LEMMA StepByHand ==
    ASSUME IInv, NEW o \in Listing, ByHand(o)
    PROVE  IInv' /\ \A x \in Listing : StaysSomewhere(x)
<1>1. entries \subseteq Entry \ made /\ \A x \in Listing : placed[x] # None => placed[x] \in entries
  BY DEF IInv, CatalogueOK, MatchesOK
<1>9. ASSUME ~Locked(o), ~Inserted(o) PROVE o \notin Written
  BY <1>9 DEF Locked, Inserted, Written
<1>2. ASSUME NEW e \in Entry, SetManually(o, e)
      PROVE  IInv' /\ \A x \in Listing : StaysSomewhere(x)
  <2>1. /\ e \in entries' /\ Link(Only(o, e), "human") /\ Touch({o}) /\ UNCHANGED entries
        /\ UNCHANGED <<settling, faults, fits, merging, asked>>
    BY <1>2 DEF SetManually, Request, catalogue
  <2>. QED
    BY <1>1, <2>1, OneIsPlaced DEF Judges
<1>3. CASE Keep(o)
  <2>1. /\ placed[o] \in entries' /\ Link(Only(o, placed[o]), "human") /\ Touch({o})
        /\ UNCHANGED entries /\ UNCHANGED <<settling, faults, fits, merging, asked>>
    BY <1>1, <1>3 DEF Keep, Request, catalogue
  <2>. QED
    BY <1>1, <2>1, OneIsPlaced DEF Judges
<1>4. CASE Unlink(o)
  <2>1. /\ Requeue(o, {}) /\ Touch({o}) /\ UNCHANGED entries
        /\ UNCHANGED <<settling, faults, fits, merging, asked>>
        /\ placed' = [placed EXCEPT ![o] = None] /\ by' = [by EXCEPT ![o] = "rule"]
        /\ o \notin merging.moved /\ ~Locked(o) /\ ~Inserted(o)
    BY <1>4 DEF Unlink, Request, catalogue, Moving
  <2>2. IInv' /\ Queued' = Queued \cup {o}
    BY <1>1, <1>9, <2>1, GoesBack
  <2>3. \A x \in Listing \ {o} : placed'[x] = placed[x]
    BY <2>1 DEF IInv, MatchesOK
  <2>. QED
    BY <1>4, <2>2, <2>3 DEF StaysSomewhere
<1>5. CASE Snooze(o) \/ Unsnooze(o) \/ Wakes(o)
  <2>1. /\ snoozed' \subseteq Queued
        /\ UNCHANGED <<matches, queue, among, recent, catalogue, asked, settling, faults>>
        /\ Touch({o}) \/ UNCHANGED since
    BY <1>5 DEF Snooze, Unsnooze, Wakes, Request, IInv, RowsOK
  <2>2. IInv' /\ UNCHANGED Queued /\ UNCHANGED placed
    BY <2>1, SnoozeOnly DEF matches
  <2>. QED
    BY <2>2 DEF StaysSomewhere
<1>6. ASSUME NEW fit \in SUBSET entries', entries \subseteq entries', entries' \subseteq Entry \ made,
             ~Locked(o), Touch({o}), UNCHANGED <<settling, faults, fits, merging, asked>>,
             \/ IsMatch(fit) /\ Link(Only(o, The(fit)), "rule")
             \/ ~IsMatch(fit) /\ ~Inserted(o) /\ Requeue(o, fit) /\ UNCHANGED matches
      PROVE  IInv' /\ \A x \in Listing : StaysSomewhere(x)
  <2>1. CASE IsMatch(fit) /\ Link(Only(o, The(fit)), "rule")
    <3>. DEFINE e == The(fit)
    <3>1. e \in entries' /\ Link(Only(o, e), "rule")
      BY <1>6, <2>1, TheOne
    <3>. HIDE DEF e
    <3>. QED
      BY <1>6, <3>1, OneIsPlaced DEF Judges
  <2>2. CASE ~Inserted(o) /\ Requeue(o, fit) /\ UNCHANGED matches
    <3>1. IInv' /\ Queued' = Queued \cup {o}
      BY <1>6, <1>9, <2>2, GoesBack
    <3>. QED
      BY <2>2, <3>1 DEF StaysSomewhere, matches
  <2>. QED
    BY <1>6, <2>1, <2>2
<1>7. CASE MatchOffer(o)
  <2>. DEFINE fit == Ladder(o, entries)
  <2>1. /\ ~Locked(o) /\ Touch({o}) /\ UNCHANGED entries
        /\ UNCHANGED <<settling, faults, fits, merging, asked>>
        /\ \/ IsMatch(fit) /\ Link(Only(o, The(fit)), "rule")
           \/ ~IsMatch(fit) /\ ~Inserted(o) /\ Requeue(o, fit) /\ UNCHANGED matches
    BY <1>7 DEF MatchOffer, Request, catalogue
  <2>2. fit \in SUBSET entries'
    BY <2>1 DEF Ladder
  <2>. HIDE DEF fit
  <2>. QED
    BY <1>1, <1>6, <2>1, <2>2
<1>8. CASE Promote(o)
  <2>. DEFINE fit == Ladder(o, entries')
  <2>1. /\ ~Locked(o) /\ Touch({o}) /\ UNCHANGED <<settling, faults, fits, merging, asked>>
        /\ entries' = entries \cup {Own[o]} /\ CanMake(o)
        /\ \/ IsMatch(fit) /\ Link(Only(o, The(fit)), "rule")
           \/ ~IsMatch(fit) /\ ~Inserted(o) /\ Requeue(o, fit) /\ UNCHANGED matches
    BY <1>8 DEF Promote, Request
  <2>2. fit \in SUBSET entries'
    BY DEF Ladder
  <2>3. entries' \subseteq Entry \ made
    BY <1>1, <2>1, PlacementAssumption DEF CanMake, SeesEntries
  <2>. HIDE DEF fit
  <2>. QED
    BY <1>6, <2>1, <2>2, <2>3
<1>. QED
  BY <1>2, <1>3, <1>4, <1>5, <1>7, <1>8 DEF ByHand

LEMMA StepAnswer ==
    ASSUME IInv, Answer
    PROVE  IInv' /\ \A x \in Listing : StaysSomewhere(x)
<1>. DEFINE Answers(S) == [S -> UNION {asked[o] : o \in DOMAIN asked}]
            Applied(S, f) == /\ \A o \in S : f[o] \in asked[o] \cap entries /\ ~Locked(o)
                             /\ Link(f, "judge") /\ Touch(S)
<1>1. PICK S \in SUBSET DOMAIN asked : \E f \in Answers(S) : Applied(S, f)
  BY DEF Answer
<1>2. PICK f \in Answers(S) : Applied(S, f)
  BY <1>1
<1>3. asked' = NoLinks /\ UNCHANGED <<settling, faults, fits, merging, entries>>
  BY DEF Answer, catalogue
<1>4. S \in SUBSET Listing
  BY DEF IInv, AskedOK
<1>5. entries \subseteq Entry \ made
  BY DEF IInv, CatalogueOK
<1>6. f \in [S -> entries'] /\ f \in [S -> Entry]
  BY <1>2, <1>3, <1>5
<1>7. AskedOK'
  <2>1. DOMAIN NoLinks = {}
    BY DEF NoLinks
  <2>. QED
    BY <1>3, <2>1 DEF AskedOK
<1>8. /\ IInv'
      /\ \A x \in Listing : placed'[x] = IF x \in S THEN f[x] ELSE placed[x]
      /\ Queued' = Queued \ S
  <2>1. "judge" \in Judges
    BY DEF Judges
  <2>. QED
    BY <1>2, <1>3, <1>4, <1>5, <1>6, <1>7, <2>1, Places
<1>. QED
  BY <1>4, <1>6, <1>8, PlacedStay

LEMMA StepAsk ==
    ASSUME IInv, Ask
    PROVE  IInv' /\ UNCHANGED <<placed, Queued>>
<1>1. PICK some \in SUBSET (Queued \ Unread) : asked' = [o \in some |-> among[o]]
  <2>. DEFINE some == {o \in Queued \ Unread : Cardinality(among[o]) > 1}
  <2>1. some \in SUBSET (Queued \ Unread) /\ asked' = [o \in some |-> among[o]]
    BY DEF Ask
  <2>. HIDE DEF some
  <2>. QED
    BY <2>1
<1>2. UNCHANGED <<matches, rows, catalogue, settling, recent, since, faults>>
  BY DEF Ask
<1>3. UNCHANGED <<placed, by, queue, among, snoozed, entries, fits, merging, linked, found,
                  fresh, recent, made, todo, stage, Queued>>
  BY <1>2 DEF matches, rows, catalogue, settling, Queued
<1>4. AskedOK'
  BY <1>1, SeenRows DEF IInv, AskedOK, RowsOK
<1>. QED
  BY <1>2, <1>3, <1>4 DEF IInv, MatchesOK, RowsOK, CatalogueOK, MergingOK, WrittenOK, StampsOK,
              PassOK, WaitsOK, Waits, SeesEntries, Written

-----------------------------------------------------------------------------
(* Merging two entries. *)
LEMMA StepBeginMerge ==
    ASSUME IInv, NEW e \in Entry, NEW f \in Entry, BeginMerge(e, f)
    PROVE  IInv' /\ UNCHANGED <<placed, Queued>>
<1>. DEFINE moved == {o \in Listing : placed[o] = e}
<1>1. /\ merging' = [from |-> e, into |-> f, moved |-> moved] /\ faults' = faults + 1
      /\ faults < MaxFaults /\ <<e, f>> \in Merged /\ {e, f} \subseteq entries
      /\ \A o \in DOMAIN linked : placed[o] # e
      /\ UNCHANGED <<matches, rows, entries, fits, asked, settling, recent, since>>
  BY DEF BeginMerge
<1>2. merging'.from = e /\ merging'.into = f /\ merging'.moved = moved
  BY <1>1
<1>3. e # f
  BY <1>1, PlacementAssumption
<1>4. UNCHANGED <<placed, by, queue, among, snoozed, linked, found, fresh, recent, made, todo,
                  stage, Queued>>
  BY <1>1 DEF matches, rows, settling, Queued
<1>5. MergingOK'
  BY <1>1, <1>2, <1>3, <1>4 DEF MergingOK
<1>6. PassOK'
  BY <1>1, <1>4, PlacementAssumption DEF IInv, PassOK, Written
<1>7. MatchesOK' /\ RowsOK' /\ CatalogueOK' /\ AskedOK' /\ WrittenOK' /\ StampsOK' /\ WaitsOK'
  BY <1>1, <1>4 DEF IInv, MatchesOK, RowsOK, CatalogueOK, AskedOK, WrittenOK, StampsOK, WaitsOK,
                    Waits, SeesEntries, Written
<1>. QED
  BY <1>4, <1>5, <1>6, <1>7 DEF IInv

LEMMA StepMergeFails ==
    ASSUME IInv, MergeFails
    PROVE  IInv' /\ UNCHANGED <<placed, Queued>>
<1>1. merging' = NoMerge /\ UNCHANGED <<matches, rows, entries, fits, asked, settling, recent,
                                       since, faults>>
  BY DEF MergeFails
<1>2. UNCHANGED <<placed, by, queue, among, snoozed, linked, found, fresh, recent, made, todo,
                  stage, Queued>>
  BY <1>1 DEF matches, rows, settling, Queued
<1>. QED
  BY <1>1, <1>2 DEF IInv, MatchesOK, RowsOK, CatalogueOK, AskedOK, WrittenOK, StampsOK, WaitsOK,
                    Waits, SeesEntries, MergingOK, PassOK, Written

LEMMA StepEndMerge ==
    ASSUME IInv, EndMerge
    PROVE  IInv' /\ \A x \in Listing : StaysSomewhere(x)
<1>1. /\ merging # NoMerge
      /\ \A o \in DOMAIN linked : linked[o] # merging.from
      /\ placed' = [o \in Listing |-> AfterMerge(o)]
      /\ by' = [o \in Listing |-> IF placed'[o] = None THEN "rule" ELSE by[o]]
      /\ entries' = entries \ {merging.from}
      /\ fits' = [o \in Listing |-> IF merging.from \in fits[o]
                                    THEN fits[o] \cup {merging.into} ELSE fits[o]]
      /\ merging' = NoMerge
      /\ UNCHANGED <<rows, asked, settling, recent, since, faults>>
  BY DEF EndMerge
<1>2. /\ merging.from \in entries /\ merging.into \in entries /\ merging.from # merging.into
      /\ \A o \in merging.moved : placed[o] = merging.from
  BY <1>1 DEF IInv, MergingOK
<1>3. entries \subseteq Entry \ made /\ None \notin Entry
  BY PlacementAssumption DEF IInv, CatalogueOK
<1>4. ASSUME NEW o \in Listing
      PROVE  /\ placed[o] # merging.from => placed'[o] = placed[o]
             /\ placed[o] = merging.from /\ o \in merging.moved => placed'[o] = merging.into
             /\ placed[o] = merging.from /\ o \notin merging.moved => placed'[o] = None
  BY <1>1 DEF AfterMerge, Moving
<1>5. UNCHANGED <<queue, among, snoozed, linked, found, fresh, recent, made, todo, stage, Queued>>
  BY <1>1 DEF rows, settling, Queued
<1>6. MatchesOK'
  <2>1. \A o \in Listing : placed[o] \in Entry \cup {None}
                           /\ (placed[o] # None => placed[o] \in entries)
    BY DEF IInv, MatchesOK
  <2>2. \A o \in Listing : placed'[o] = None \/ placed'[o] \in entries'
    BY <1>1, <1>2, <1>4, <2>1
  <2>3. placed' \in [Listing -> Entry \cup {None}]
    <3>1. placed' = [o \in Listing |-> placed'[o]]
      BY <1>1
    <3>2. \A o \in Listing : placed'[o] \in Entry \cup {None}
      BY <1>1, <1>3, <2>2
    <3>. QED
      BY <3>1, <3>2
  <2>4. by' \in [Listing -> Judges]
    BY <1>1 DEF IInv, MatchesOK, Judges
  <2>. QED
    BY <2>2, <2>3, <2>4 DEF MatchesOK
<1>7. CatalogueOK' /\ WrittenOK' /\ StampsOK'
  <2>1. fits' \in [Listing -> SUBSET Entry]
    BY <1>1, <1>2, <1>3 DEF IInv, CatalogueOK
  <2>. QED
    BY <1>1, <1>3, <1>5, <2>1 DEF IInv, CatalogueOK, WrittenOK, StampsOK, SeesEntries
<1>8. MergingOK' /\ RowsOK' /\ AskedOK' /\ PassOK'
  BY <1>1, <1>5 DEF IInv, MergingOK, RowsOK, AskedOK, PassOK, Written
<1>9. WaitsOK'
  <2>1. ToSet(todo) \subseteq Listing /\ Written \subseteq Listing /\ UNCHANGED Written
    BY <1>5, RowsOf DEF IInv, PassOK, WrittenOK, Written
  <2>2. \A o \in Listing : placed[o] = None => placed'[o] = None
    BY <1>2, <1>3, <1>4
  <2>. QED
    BY <1>1, <1>5, <2>1, <2>2 DEF IInv, WaitsOK, Waits
<1>10. ASSUME NEW x \in Listing PROVE StaysSomewhere(x)
  <2>1. CASE placed[x] = merging.from /\ x \notin merging.moved
    BY <2>1 DEF StaysSomewhere, GoesWithTheEntry, Moving
  <2>2. CASE ~(placed[x] = merging.from /\ x \notin merging.moved)
    BY <1>2, <1>3, <1>4, <1>5, <2>2 DEF StaysSomewhere
  <2>. QED
    BY <2>1, <2>2
<1>. QED
  BY <1>6, <1>7, <1>8, <1>9, <1>10 DEF IInv

-----------------------------------------------------------------------------
LEMMA StepStutters ==
    ASSUME IInv, UNCHANGED vars
    PROVE  IInv' /\ UNCHANGED <<placed, Queued>>
<1>1. UNCHANGED <<placed, by, queue, among, snoozed, entries, fits, merging, asked, stage, todo,
                  linked, found, fresh, recent, made, since, faults, Queued>>
  BY DEF vars, matches, rows, catalogue, settling, Queued
<1>. QED
  BY <1>1 DEF IInv, MatchesOK, RowsOK, CatalogueOK, MergingOK, AskedOK, WrittenOK, StampsOK,
              PassOK, WaitsOK, Waits, SeesEntries, Written

LEMMA StepSettle ==
    ASSUME IInv, Settle \/ Abort
    PROVE  IInv' /\ \A o \in Listing : StaysSomewhere(o)
<1>1. ASSUME IInv', UNCHANGED <<placed, Queued>>
      PROVE  IInv' /\ \A o \in Listing : StaysSomewhere(o)
  BY <1>1 DEF StaysSomewhere
<1>2. CASE Begin \/ BeginSweep \/ BeginAgain
  <2>1. UNCHANGED <<placed, Queued>>
    BY <1>2 DEF Begin, BeginSweep, BeginAgain, matches, rows, Queued
  <2>. QED
    BY <1>1, <1>2, <2>1, StepBegin, StepBeginSweep, StepBeginAgain
<1>3. CASE Try \/ SweepUnread \/ SweepPlaces \/ SweepLeaves \/ SweepMakes
  <2>1. UNCHANGED <<matches, rows>>
    BY <1>3 DEF Try, SweepUnread, SweepPlaces, SweepLeaves, SweepMakes, Proceed
  <2>2. UNCHANGED <<placed, Queued>>
    BY <2>1 DEF matches, rows, Queued
  <2>. QED
    BY <1>1, <1>3, <2>2, StepTry, StepSweep
<1>4. CASE SweepFails \/ Abort
  <2>1. UNCHANGED <<placed, Queued>>
    BY <1>4 DEF SweepFails, Abort, matches, rows, Queued
  <2>. QED
    BY <1>1, <1>4, <2>1, StepFails
<1>5. CASE Commit
  <2>1. /\ IInv'
        /\ \A o \in Listing : placed'[o] = IF o \in DOMAIN linked THEN linked[o] ELSE placed[o]
        /\ Queued' = (Queued \ Written) \cup DOMAIN found
    BY <1>5, StepCommit
  <2>2. \A o \in DOMAIN linked : linked[o] # None /\ o \in Listing
    BY PlacementAssumption DEF IInv, WrittenOK, CatalogueOK, SeesEntries
  <2>. QED
    BY <2>1, <2>2 DEF StaysSomewhere, Written
<1>. QED
  BY <1>2, <1>3, <1>4, <1>5 DEF Settle

LEMMA StepKeeps ==
    ASSUME IInv, [Next]_vars
    PROVE  IInv' /\ \A o \in Listing : StaysSomewhere(o)
<1>1. ASSUME IInv', UNCHANGED <<placed, Queued>>
      PROVE  IInv' /\ \A o \in Listing : StaysSomewhere(o)
  BY <1>1 DEF StaysSomewhere
<1>2. CASE Settle \/ Abort
  BY <1>2, StepSettle
<1>3. CASE Ask
  BY <1>1, <1>3, StepAsk
<1>4. CASE Answer
  BY <1>4, StepAnswer
<1>5. ASSUME NEW o \in Handled, ByHand(o)
      PROVE  IInv' /\ \A x \in Listing : StaysSomewhere(x)
  <2>1. o \in Listing
    BY PlacementAssumption
  <2>. QED
    BY <1>5, <2>1, StepByHand
<1>6. ASSUME NEW e \in Entry, NEW f \in Entry, BeginMerge(e, f)
      PROVE  IInv' /\ \A x \in Listing : StaysSomewhere(x)
  BY <1>1, <1>6, StepBeginMerge
<1>7. CASE EndMerge
  BY <1>7, StepEndMerge
<1>8. CASE MergeFails
  BY <1>1, <1>8, StepMergeFails
<1>9. CASE UNCHANGED vars
  BY <1>1, <1>9, StepStutters
<1>. QED
  BY <1>2, <1>3, <1>4, <1>5, <1>6, <1>7, <1>8, <1>9 DEF Next

LEMMA PlacementInv == Spec => []IInv
<1>1. IInv /\ [Next]_vars => IInv'
  BY StepKeeps
<1>. QED
  BY <1>1, InvAtFirst, PTL DEF Spec

(* What is written about a listing (its row, the candidates on it, its     *)
(* match, what the settling has written and what a merge has moved) comes  *)
(* and goes together, with whatever requests, merges and failures between  *)
(* the settling's reads and its commit.                                    *)
THEOREM PlacementTyped == Spec => []TypeOK
BY PlacementInv, InvGivesTypes, PTL

(* Only a commit or a failure ends a settling at that point. *)
LEMMA EndsBy ==
    ASSUME Next, stage = "again", stage' = "idle"
    PROVE  Commit \/ Abort
<1>1. ~(Begin \/ BeginSweep \/ BeginAgain \/ Try \/ SweepUnread \/ SweepPlaces \/ SweepLeaves
        \/ SweepMakes \/ SweepFails)
  BY DEF Begin, BeginSweep, BeginAgain, Try, SweepUnread, SweepPlaces, SweepLeaves,
         SweepMakes, SweepFails, Proceed
<1>2. ASSUME UNCHANGED settling PROVE FALSE
  BY <1>2 DEF settling
<1>3. \A x \in Handled : ~ByHand(x)
  BY <1>2 DEF ByHand, SetManually, Keep, Unlink, Snooze, Unsnooze, Wakes, MatchOffer, Promote,
              Request
<1>4. ~Ask /\ ~Answer /\ ~EndMerge /\ ~MergeFails /\ \A e, f \in Entry : ~BeginMerge(e, f)
  BY <1>2 DEF Ask, Answer, EndMerge, MergeFails, BeginMerge
<1>. QED
  BY <1>1, <1>3, <1>4 DEF Next, Settle

(* A listing nobody decided on while the settling went is left with one    *)
(* answer by its commit: it has a match or a row, not both.                *)
THEOREM CommitLeavesOne == Spec => OneAnswer
<1>1. IInv /\ [Next]_vars =>
        [stage = "again" /\ stage' = "idle" =>
            \A o \in Listing \ since : ~Both(o) => ~Both(o)']_vars
  <2>. SUFFICES ASSUME IInv, Next, stage = "again", stage' = "idle",
                       NEW o \in Listing \ since, ~Both(o)
                PROVE  ~Both(o)'
    OBVIOUS
  <2>1. CASE Commit
    <3>1. /\ placed'[o] = IF o \in DOMAIN linked THEN linked[o] ELSE placed[o]
          /\ Queued' = (Queued \ Written) \cup DOMAIN found
      BY <2>1, StepCommit
    <3>2. CASE o \in DOMAIN linked
      <4>1. o \in Written /\ o \notin DOMAIN found
        BY <3>2 DEF Written, IInv, WrittenOK
      <4>. QED
        BY <3>1, <4>1 DEF Both
    <3>3. CASE o \notin DOMAIN linked /\ o \in DOMAIN found
      <4>1. Waits(o)
        BY <3>3 DEF IInv, WaitsOK, Written
      <4>. QED
        BY <3>1, <3>3, <4>1 DEF Both, Waits
    <3>4. CASE o \notin DOMAIN linked /\ o \notin DOMAIN found
      BY <3>1, <3>4 DEF Both
    <3>. QED
      BY <3>2, <3>3, <3>4
  <2>2. CASE Abort
    <3>1. UNCHANGED <<placed, Queued>>
      BY <2>2 DEF Abort, matches, rows, Queued
    <3>. QED
      BY <3>1 DEF Both
  <2>3. Commit \/ Abort
    BY EndsBy
  <2>. QED
    BY <2>1, <2>2, <2>3
<1>. QED
  BY <1>1, PlacementInv, PTL DEF Spec, OneAnswer

(* A settling moves nothing that had a match and no row when it commits,   *)
(* unless somebody decided on it since the settling began: whoever placed  *)
(* it, it stays where it was put, and theirs.                              *)
THEOREM MovesOnlyTheWaiting == Spec => MovesOnlyWhatWaits
<1>1. IInv /\ [Next]_vars =>
        [stage = "again" /\ stage' = "idle" =>
            \A o \in Listing \ since :
                placed[o] # None /\ o \notin Queued => placed'[o] = placed[o] /\ by'[o] = by[o]]_vars
  <2>. SUFFICES ASSUME IInv, Next, stage = "again", stage' = "idle",
                       NEW o \in Listing \ since, placed[o] # None, o \notin Queued
                PROVE  placed'[o] = placed[o] /\ by'[o] = by[o]
    OBVIOUS
  <2>1. o \notin DOMAIN linked
    BY DEF IInv, WaitsOK, Waits, Written
  <2>2. CASE Commit
    <3>1. by'[o] = by[o]
      BY <2>1, <2>2 DEF Commit
    <3>. QED
      BY <2>1, <2>2, <3>1, StepCommit
  <2>3. CASE Abort
    BY <2>3 DEF Abort, matches
  <2>. QED
    BY <2>2, <2>3, EndsBy
<1>. QED
  BY <1>1, PlacementInv, PTL DEF Spec, MovesOnlyWhatWaits

(* No miss of the ladder, at whatever time its question was read, takes a  *)
(* listing out of the catalogue: a person does, or the merge that deletes  *)
(* the entry it had just been put on.                                      *)
THEOREM OnlyPeopleTakeOut == Spec => PlacedStaysPlaced
<1>1. IInv /\ [Next]_vars =>
        [\A o \in Listing : placed[o] # None =>
            placed'[o] # None \/ Unlink(o) \/ GoesWithTheEntry(o)]_vars
  BY StepKeeps DEF StaysSomewhere
<1>. QED
  BY <1>1, PlacementInv, PTL DEF Spec, PlacedStaysPlaced

(* Once it was tried, a listing has a match or a row, unless a merge took  *)
(* its match away with the entry.                                          *)
THEOREM AlwaysSomewhere == Spec => NeverNowhere
<1>1. IInv /\ [Next]_vars =>
        [\A o \in Listing : placed[o] # None \/ o \in Queued
            => placed'[o] # None \/ o \in Queued' \/ GoesWithTheEntry(o)]_vars
  BY StepKeeps DEF StaysSomewhere
<1>. QED
  BY <1>1, PlacementInv, PTL DEF Spec, NeverNowhere

-----------------------------------------------------------------------------
(* Turns. *)
InTurn == \A o, p \in Listing : KeepsItsTurn(o, p)

LEMMA TurnsStay ==
    ASSUME UNCHANGED queue
    PROVE  InTurn
BY DEF InTurn, KeepsItsTurn

LEMMA TurnsAfterDequeue ==
    ASSUME IInv, NEW S, Dequeue(S)
    PROVE  InTurn
<1>1. queue' = Without(queue, S) /\ queue \in Seq(Listing)
  BY DEF Dequeue, IInv, RowsOK
<1>2. /\ ToSet(Without(queue, S)) = ToSet(queue) \ S
      /\ \A o, p : Before(queue, o, p) /\ {o, p} \cap S = {} => Before(Without(queue, S), o, p)
  BY <1>1, WithoutRows
<1>3. Queued' = Queued \ S
  BY <1>1, <1>2 DEF Queued
<1>. QED
  BY <1>1, <1>2, <1>3 DEF InTurn, KeepsItsTurn

LEMMA TurnsAfterRequeue ==
    ASSUME IInv, NEW x \in Listing, NEW S, Requeue(x, S), Tried(x)
    PROVE  InTurn
<1>. DEFINE rest == Without(queue, {x})
<1>1. queue' = Append(rest, x) /\ queue \in Seq(Listing)
  BY DEF Requeue, IInv, RowsOK
<1>2. /\ rest \in Seq(Listing) /\ ToSet(rest) = ToSet(queue) \ {x}
      /\ \A o, p : Before(queue, o, p) /\ {o, p} \cap {x} = {} => Before(rest, o, p)
  BY <1>1, WithoutRows
<1>. HIDE DEF rest
<1>3. Queued' = ToSet(rest) \cup {x}
  BY <1>1, <1>2, AppendRow DEF Queued
<1>4. SUFFICES ASSUME NEW o \in Listing, NEW p \in Listing, o # x,
                      Before(queue, o, p), {o, p} \subseteq Queued'
               PROVE  Before(Append(rest, x), o, p)
  BY <1>1 DEF InTurn, KeepsItsTurn
<1>5. CASE p = x
  <2>1. o \in ToSet(rest)
    BY <1>3, <1>4
  <2>. QED
    BY <1>2, <1>5, <2>1, AppendOrder
<1>6. CASE p # x
  <2>1. Before(rest, o, p)
    BY <1>2, <1>4, <1>6
  <2>. QED
    BY <1>2, <2>1, AppendOrder
<1>. QED
  BY <1>5, <1>6

(* The rows that others stamped while the settling went are in the order   *)
(* of the queue, and behind each of them is what was behind it, but for    *)
(* what the settling places.                                               *)
AgreesOn(o) == \A p \in Listing :
                  Before(queue, o, p) /\ p \notin DOMAIN linked => Before(recent, o, p)

AgreesOK == \A o \in ToSet(recent) \ DOMAIN found : AgreesOn(o)

LEMMA TurnsAfterCommit ==
    ASSUME IInv, AgreesOK, Commit
    PROVE  InTurn
<1>. DEFINE new == ById(fresh)
            had == Untouched \o new
            gone == Written \cup ToSet(recent)
<1>1. queue' = had \o recent /\ queue \in Seq(Listing) /\ recent \in Seq(Listing)
  BY DEF Commit, SeesQueue, IInv, RowsOK, StampsOK
<1>2. /\ Untouched \in Seq(Listing) /\ ToSet(Untouched) = Queued \ gone
      /\ \A o, p : Before(queue, o, p) /\ {o, p} \cap gone = {} => Before(Untouched, o, p)
  <2>. HIDE DEF gone
  <2>. QED
    BY <1>1, WithoutRows DEF Queued, Untouched, gone
<1>3. new \in Seq(Listing)
  <2>1. fresh \in SUBSET Listing
    BY DEF IInv, WrittenOK, StampsOK
  <2>. QED
    BY <2>1, IdsFinite
<1>4. Queued' = (Queued \ Written) \cup DOMAIN found
  BY StepCommit
<1>. HIDE DEF new
<1>5. /\ had \in Seq(Listing)
      /\ \A o, p : Before(Untouched, o, p) => Before(had, o, p)
      /\ \A o \in ToSet(Untouched) : o \in ToSet(had)
  <2>1. had \in Seq(Listing)
    BY <1>2, <1>3
  <2>2. \A o, p : Before(Untouched, o, p) => Before(had, o, p)
    BY <1>2, <1>3, JoinOrder
  <2>3. \A o \in ToSet(Untouched) : o \in ToSet(had)
    <3>1. \A i \in DOMAIN Untouched : i \in DOMAIN had /\ had[i] = Untouched[i]
      BY <1>2, <1>3
    <3>. HIDE DEF had
    <3>. QED
      BY <3>1 DEF ToSet
  <2>. QED
    BY <2>1, <2>2, <2>3
<1>. HIDE DEF had
<1>6. SUFFICES ASSUME NEW o \in Listing, NEW p \in Listing, o \notin DOMAIN found,
                      Before(queue, o, p), {o, p} \subseteq Queued'
               PROVE  Before(had \o recent, o, p)
  BY <1>1 DEF InTurn, KeepsItsTurn, Tried
<1>7. o \in Queued \ Written /\ p \notin DOMAIN linked /\ p \in Queued
  <2>1. p \in Queued
    BY <1>1, <1>6, OneOrder DEF IInv, RowsOK, Queued
  <2>. QED
    BY <1>4, <1>6, <2>1 DEF Written, IInv, WrittenOK
<1>8. CASE o \in ToSet(recent)
  <2>1. Before(recent, o, p)
    BY <1>6, <1>7, <1>8 DEF AgreesOK, AgreesOn
  <2>. QED
    BY <1>1, <1>5, <2>1, JoinOrder
<1>9. CASE o \notin ToSet(recent) /\ p \in ToSet(recent)
  <2>1. o \in ToSet(had)
    BY <1>2, <1>5, <1>7, <1>9
  <2>. QED
    BY <1>1, <1>5, <1>9, <2>1, JoinOrder
<1>10. CASE o \notin ToSet(recent) /\ p \notin ToSet(recent)
  <2>1. p \notin Written
    BY <1>7, <1>10 DEF Written, IInv, StampsOK
  <2>2. {o, p} \cap gone = {}
    BY <1>7, <1>10, <2>1
  <2>. HIDE DEF gone
  <2>3. Before(had, o, p)
    BY <1>2, <1>5, <1>6, <2>2
  <2>. QED
    BY <1>1, <1>5, <2>3, JoinOrder
<1>. QED
  BY <1>8, <1>9, <1>10

LEMMA TurnsAfterHand ==
    ASSUME IInv, NEW o \in Listing, ByHand(o)
    PROVE  InTurn
<1>1. ASSUME NEW f, NEW who, Link(f, who) PROVE InTurn
  BY <1>1, TurnsAfterDequeue DEF Link
<1>2. CASE Snooze(o) \/ Unsnooze(o) \/ Wakes(o)
  BY <1>2, TurnsStay DEF Snooze, Unsnooze, Wakes
<1>3. ASSUME NEW e \in Entry, SetManually(o, e) PROVE InTurn
  BY <1>1, <1>3 DEF SetManually
<1>4. CASE Keep(o)
  BY <1>1, <1>4 DEF Keep
<1>5. CASE Unlink(o)
  <2>1. Requeue(o, {}) /\ Tried(o)
    BY <1>5 DEF Unlink, Tried
  <2>. QED
    BY <2>1, TurnsAfterRequeue
<1>6. CASE MatchOffer(o)
  <2>1. Tried(o)
    BY <1>6 DEF Tried
  <2>. DEFINE fit == Ladder(o, entries)
  <2>2. Link(Only(o, The(fit)), "rule") \/ Requeue(o, fit)
    BY <1>6 DEF MatchOffer
  <2>. HIDE DEF fit
  <2>. QED
    BY <1>1, <2>1, <2>2, TurnsAfterRequeue
<1>7. CASE Promote(o)
  <2>1. Tried(o)
    BY <1>7 DEF Tried
  <2>. DEFINE fit == Ladder(o, entries')
  <2>2. Link(Only(o, The(fit)), "rule") \/ Requeue(o, fit)
    BY <1>7 DEF Promote
  <2>. HIDE DEF fit
  <2>. QED
    BY <1>1, <2>1, <2>2, TurnsAfterRequeue
<1>. QED
  BY <1>2, <1>3, <1>4, <1>5, <1>6, <1>7 DEF ByHand

LEMMA TurnsKept ==
    ASSUME IInv, AgreesOK, Next
    PROVE  InTurn
<1>1. CASE Settle \/ Abort
  <2>1. CASE Commit
    BY <2>1, TurnsAfterCommit
  <2>2. CASE ~Commit
    <3>1. UNCHANGED rows
      BY <1>1, <2>2 DEF Settle, Abort, Begin, BeginSweep, BeginAgain, Try, SweepUnread,
                        SweepPlaces, SweepLeaves, SweepMakes, SweepFails, Proceed
    <3>. QED
      BY <3>1, TurnsStay DEF rows
  <2>. QED
    BY <2>1, <2>2
<1>2. CASE Answer
  <2>1. PICK f : Link(f, "judge")
    BY <1>2 DEF Answer
  <2>. QED
    BY <2>1, TurnsAfterDequeue DEF Link
<1>3. ASSUME NEW o \in Handled, ByHand(o) PROVE InTurn
  BY <1>3, PlacementAssumption, TurnsAfterHand
<1>4. CASE Ask \/ EndMerge \/ MergeFails \/ \E e, f \in Entry : BeginMerge(e, f)
  <2>1. UNCHANGED rows
    BY <1>4 DEF Ask, EndMerge, MergeFails, BeginMerge
  <2>. QED
    BY <2>1, TurnsStay DEF rows
<1>. QED
  BY <1>1, <1>2, <1>3, <1>4 DEF Next

(* That agreement, step by step. *)
LEMMA AgreesStays ==
    ASSUME AgreesOK, UNCHANGED <<queue, recent, linked, found>>
    PROVE  AgreesOK'
BY DEF AgreesOK, AgreesOn

LEMMA AgreesAtRest ==
    ASSUME recent = <<>>
    PROVE  AgreesOK
BY DEF AgreesOK, ToSet

LEMMA AgreesAfterEnd ==
    ASSUME EndSettling
    PROVE  AgreesOK'
BY DEF EndSettling, AgreesOK, ToSet

LEMMA AgreesAfterDequeue ==
    ASSUME IInv, AgreesOK, NEW S, Dequeue(S), UNCHANGED <<linked, found>>
    PROVE  AgreesOK'
<1>. DEFINE gone == S \ DOMAIN found
<1>1. /\ queue' = Without(queue, S) /\ recent' = Without(recent, gone)
      /\ queue \in Seq(Listing) /\ Once(queue) /\ recent \in Seq(Listing) /\ Once(recent)
  BY DEF Dequeue, IInv, RowsOK, StampsOK
<1>2. /\ queue' \in Seq(Listing) /\ Once(queue') /\ ToSet(queue') = ToSet(queue) \ S
  BY <1>1, WithoutRows
<1>. HIDE DEF gone
<1>3. /\ ToSet(recent') = ToSet(recent) \ gone
      /\ \A o, p : Before(recent, o, p) /\ {o, p} \cap gone = {} => Before(recent', o, p)
  BY <1>1, WithoutRows
<1>4. ASSUME NEW o \in ToSet(recent') \ DOMAIN found', NEW p \in Listing,
             Before(queue', o, p), p \notin DOMAIN linked'
      PROVE  Before(recent', o, p)
  <2>1. Before(queue, o, p) /\ {o, p} \subseteq ToSet(queue')
    BY <1>1, <1>2, <1>4, LeftInOrder, OneOrder
  <2>2. Before(recent, o, p)
    BY <1>3, <1>4, <2>1 DEF AgreesOK, AgreesOn
  <2>3. {o, p} \cap gone = {}
    BY <1>2, <2>1 DEF gone
  <2>. QED
    BY <1>3, <2>2, <2>3
<1>. QED
  BY <1>4 DEF AgreesOK, AgreesOn

LEMMA AgreesAfterRequeue ==
    ASSUME IInv, AgreesOK, NEW x \in Listing, NEW S, Requeue(x, S), UNCHANGED <<linked, found>>
    PROVE  AgreesOK'
<1>1. CASE stage = "idle"
  BY <1>1 DEF Requeue, AgreesOK, ToSet
<1>2. CASE stage # "idle"
  <2>. DEFINE rest == Without(queue, {x})
              kept == Without(recent, {x})
  <2>1. /\ queue' = Append(rest, x) /\ recent' = Append(kept, x)
        /\ queue \in Seq(Listing) /\ Once(queue) /\ recent \in Seq(Listing) /\ Once(recent)
    BY <1>2 DEF Requeue, IInv, RowsOK, StampsOK
  <2>2. /\ rest \in Seq(Listing) /\ Once(rest) /\ ToSet(rest) = ToSet(queue) \ {x}
        /\ \A o, p : Before(rest, o, p) => Before(queue, o, p)
    BY <2>1, WithoutRows, LeftInOrder
  <2>3. /\ kept \in Seq(Listing) /\ Once(kept) /\ ToSet(kept) = ToSet(recent) \ {x}
        /\ \A o, p : Before(recent, o, p) /\ {o, p} \cap {x} = {} => Before(kept, o, p)
    BY <2>1, WithoutRows
  <2>. HIDE DEF rest, kept
  <2>4. ToSet(recent') = ToSet(kept) \cup {x}
    BY <2>1, <2>3, AppendRow
  <2>5. /\ \A o, p : Before(kept, o, p) => Before(recent', o, p)
        /\ \A o \in ToSet(kept) : Before(recent', o, x)
    BY <2>1, <2>3, AppendOrder
  <2>6. ASSUME NEW o \in ToSet(recent') \ DOMAIN found', NEW p \in Listing,
               Before(queue', o, p), p \notin DOMAIN linked'
        PROVE  Before(recent', o, p)
    <3>1. Before(rest, o, p) \/ (p = x /\ o \in ToSet(rest))
      BY <2>1, <2>2, <2>6, BehindInOrder
    <3>2. o \in ToSet(rest) /\ o # x /\ o \in ToSet(kept)
      BY <2>2, <2>4, <2>6, <3>1, OneOrder
    <3>3. CASE p = x
      BY <2>5, <3>2, <3>3
    <3>4. CASE p # x
      <4>1. Before(recent, o, p)
        BY <2>2, <2>3, <2>6, <3>1, <3>2, <3>4 DEF AgreesOK, AgreesOn
      <4>. QED
        BY <2>3, <2>5, <3>2, <3>4, <4>1
    <3>. QED
      BY <3>3, <3>4
  <2>. QED
    BY <2>6 DEF AgreesOK, AgreesOn
<1>. QED
  BY <1>1, <1>2

LEMMA AgreesAfterLink ==
    ASSUME IInv, AgreesOK, NEW x, NEW e, SettleLink(x, e), UNCHANGED queue
    PROVE  AgreesOK'
<1>1. /\ recent' = Without(recent, {x}) /\ recent \in Seq(Listing)
      /\ DOMAIN linked' = DOMAIN linked \cup {x} /\ DOMAIN found' = DOMAIN found \ {x}
  BY DEF SettleLink, With, IInv, StampsOK
<1>2. /\ ToSet(recent') = ToSet(recent) \ {x}
      /\ \A o, p : Before(recent, o, p) /\ {o, p} \cap {x} = {} => Before(recent', o, p)
  BY <1>1, WithoutRows
<1>3. ASSUME NEW o \in ToSet(recent') \ DOMAIN found', NEW p \in Listing,
             Before(queue', o, p), p \notin DOMAIN linked'
      PROVE  Before(recent', o, p)
  <2>1. o # x /\ p # x /\ o \in ToSet(recent) \ DOMAIN found /\ p \notin DOMAIN linked
    BY <1>1, <1>2, <1>3
  <2>2. Before(recent, o, p)
    BY <1>3, <2>1 DEF AgreesOK, AgreesOn
  <2>. QED
    BY <1>2, <2>1, <2>2
<1>. QED
  BY <1>3 DEF AgreesOK, AgreesOn

LEMMA AgreesAfterQueue ==
    ASSUME IInv, AgreesOK, NEW x \in Listing, NEW S, SettleQueue(x, S), UNCHANGED queue
    PROVE  AgreesOK'
<1>1. DOMAIN found' = DOMAIN found \cup {x} /\ UNCHANGED linked
  BY DEF SettleQueue, With
<1>2. CASE UNCHANGED recent
  BY <1>1, <1>2 DEF AgreesOK, AgreesOn
<1>3. CASE ~UNCHANGED recent
  <2>. DEFINE kept == Without(recent, {x})
  <2>1. recent' = Append(kept, x) /\ recent \in Seq(Listing) /\ Once(recent)
    BY <1>3 DEF SettleQueue, IInv, StampsOK
  <2>2. /\ kept \in Seq(Listing) /\ Once(kept) /\ ToSet(kept) = ToSet(recent) \ {x}
        /\ \A o, p : Before(recent, o, p) /\ {o, p} \cap {x} = {} => Before(kept, o, p)
    BY <2>1, WithoutRows
  <2>. HIDE DEF kept
  <2>3. ToSet(recent') = ToSet(kept) \cup {x}
    BY <2>1, <2>2, AppendRow
  <2>4. /\ \A o, p : Before(kept, o, p) => Before(recent', o, p)
        /\ \A o \in ToSet(kept) : Before(recent', o, x)
    BY <2>1, <2>2, AppendOrder
  <2>5. ASSUME NEW o \in ToSet(recent') \ DOMAIN found', NEW p \in Listing,
               Before(queue', o, p), p \notin DOMAIN linked'
        PROVE  Before(recent', o, p)
    <3>1. o # x /\ o \in ToSet(kept) /\ o \in ToSet(recent) \ DOMAIN found
      BY <1>1, <2>2, <2>3, <2>5
    <3>2. Before(recent, o, p)
      BY <1>1, <2>5, <3>1 DEF AgreesOK, AgreesOn
    <3>. QED
      BY <2>2, <2>4, <3>1, <3>2
  <2>. QED
    BY <2>5 DEF AgreesOK, AgreesOn
<1>. QED
  BY <1>2, <1>3

LEMMA AgreesAsSettling ==
    ASSUME IInv, AgreesOK, Settle \/ Abort
    PROVE  AgreesOK'
<1>1. CASE Begin \/ BeginSweep \/ BeginAgain \/ SweepUnread
  <2>1. UNCHANGED <<queue, recent, linked, found>>
    BY <1>1 DEF Begin, BeginSweep, BeginAgain, SweepUnread, Proceed, rows, overlay
  <2>. QED
    BY <2>1, AgreesStays
<1>2. CASE SweepFails \/ Abort \/ Commit
  BY <1>2, AgreesAfterEnd DEF SweepFails, Abort, Commit
<1>3. ASSUME todo # <<>>, Proceed, NEW e, NEW S,
             \/ UNCHANGED overlay
             \/ SettleLink(Head(todo), e) \/ SettleQueue(Head(todo), S)
      PROVE  AgreesOK'
  <2>1. Head(todo) \in Listing
    BY <1>3, TailRows DEF IInv, PassOK
  <2>2. UNCHANGED queue
    BY <1>3 DEF Proceed, rows
  <2>3. CASE UNCHANGED overlay
    BY <2>2, <2>3, AgreesStays DEF overlay
  <2>. QED
    BY <1>3, <2>1, <2>2, <2>3, AgreesAfterLink, AgreesAfterQueue
<1>. DEFINE o == Head(todo)
            fit == Ladder(o, SeesEntries)
            now == fit \cup {Own[o]}
<1>4. CASE Try
  <2>1. /\ todo # <<>> /\ Proceed
        /\ UNCHANGED overlay \/ SettleLink(o, The(fit)) \/ SettleQueue(o, fit)
    BY <1>4 DEF Try
  <2>. HIDE DEF fit
  <2>. QED
    BY <1>3, <2>1
<1>5. CASE SweepPlaces \/ SweepLeaves
  <2>1. todo # <<>> /\ Proceed /\ (SettleLink(o, The(fit)) \/ SettleQueue(o, fit))
    BY <1>5 DEF SweepPlaces, SweepLeaves
  <2>. HIDE DEF fit
  <2>. QED
    BY <1>3, <2>1
<1>6. CASE SweepMakes
  <2>1. todo # <<>> /\ Proceed /\ (SettleLink(o, Own[o]) \/ SettleQueue(o, now))
    BY <1>6 DEF SweepMakes
  <2>. HIDE DEF now
  <2>. QED
    BY <1>3, <2>1
<1>. QED
  BY <1>1, <1>2, <1>4, <1>5, <1>6 DEF Settle

LEMMA AgreesAfterHand ==
    ASSUME IInv, AgreesOK, NEW o \in Listing, ByHand(o)
    PROVE  AgreesOK'
<1>1. UNCHANGED <<linked, found>>
  BY DEF ByHand, SetManually, Keep, Unlink, Snooze, Unsnooze, Wakes, MatchOffer, Promote,
         Request, settling
<1>2. ASSUME NEW f, NEW who, Link(f, who) PROVE AgreesOK'
  BY <1>1, <1>2, AgreesAfterDequeue DEF Link
<1>3. ASSUME NEW S, Requeue(o, S) PROVE AgreesOK'
  BY <1>1, <1>3, AgreesAfterRequeue
<1>4. CASE Snooze(o) \/ Unsnooze(o) \/ Wakes(o)
  BY <1>1, <1>4, AgreesStays DEF Snooze, Unsnooze, Wakes
<1>5. ASSUME NEW e \in Entry, SetManually(o, e) PROVE AgreesOK'
  BY <1>2, <1>5 DEF SetManually
<1>6. CASE Keep(o)
  BY <1>2, <1>6 DEF Keep
<1>7. CASE Unlink(o)
  BY <1>3, <1>7 DEF Unlink
<1>8. CASE MatchOffer(o)
  <2>. DEFINE fit == Ladder(o, entries)
  <2>1. Link(Only(o, The(fit)), "rule") \/ Requeue(o, fit)
    BY <1>8 DEF MatchOffer
  <2>. HIDE DEF fit
  <2>. QED
    BY <1>2, <1>3, <2>1
<1>9. CASE Promote(o)
  <2>. DEFINE fit == Ladder(o, entries')
  <2>1. Link(Only(o, The(fit)), "rule") \/ Requeue(o, fit)
    BY <1>9 DEF Promote
  <2>. HIDE DEF fit
  <2>. QED
    BY <1>2, <1>3, <2>1
<1>. QED
  BY <1>4, <1>5, <1>6, <1>7, <1>8, <1>9 DEF ByHand

LEMMA AgreesKept ==
    ASSUME IInv, AgreesOK, [Next]_vars
    PROVE  AgreesOK'
<1>1. CASE Settle \/ Abort
  BY <1>1, AgreesAsSettling
<1>2. CASE Answer
  <2>1. PICK f : Link(f, "judge")
    BY <1>2 DEF Answer
  <2>2. UNCHANGED <<linked, found>>
    BY <1>2 DEF Answer, settling
  <2>. QED
    BY <2>1, <2>2, AgreesAfterDequeue DEF Link
<1>3. ASSUME NEW o \in Handled, ByHand(o) PROVE AgreesOK'
  BY <1>3, PlacementAssumption, AgreesAfterHand
<1>4. CASE Ask \/ EndMerge \/ MergeFails \/ (\E e, f \in Entry : BeginMerge(e, f)) \/ UNCHANGED vars
  <2>1. UNCHANGED <<rows, settling, recent>>
    BY <1>4 DEF Ask, EndMerge, MergeFails, BeginMerge, vars
  <2>. QED
    BY <2>1, AgreesStays DEF rows, settling
<1>. QED
  BY <1>1, <1>2, <1>3, <1>4 DEF Next

LEMMA AgreesHolds == Spec => []AgreesOK
<1>1. Init => AgreesOK
  BY AgreesAtRest DEF Init
<1>2. IInv /\ AgreesOK /\ [Next]_vars => AgreesOK'
  BY AgreesKept
<1>. QED
  BY <1>1, <1>2, PlacementInv, PTL DEF Spec

(* Only these steps begin a pass. *)
LEMMA PassesBegin ==
    ASSUME IInv, Next, PassBegins
    PROVE  todo' = Top(Pending)
<1>1. stage' # stage /\ stage' # "sweep" /\ stage' # "idle"
  BY DEF PassBegins
<1>2. ~UNCHANGED settling
  BY <1>1 DEF settling
<1>3. ~(Abort \/ Ask \/ Answer \/ EndMerge \/ MergeFails \/ \E e, f \in Entry : BeginMerge(e, f))
  BY <1>1, <1>2 DEF Abort, EndSettling, Ask, Answer, EndMerge, MergeFails, BeginMerge
<1>4. \A o \in Handled : ~ByHand(o)
  BY <1>2 DEF ByHand, SetManually, Keep, Unlink, Snooze, Unsnooze, Wakes, MatchOffer, Promote,
              Request
<1>5. ~(BeginSweep \/ Try \/ SweepUnread \/ SweepPlaces \/ SweepLeaves \/ SweepMakes \/ SweepFails
        \/ Commit)
  BY <1>1 DEF BeginSweep, Try, SweepUnread, SweepPlaces, SweepLeaves, SweepMakes, SweepFails,
              Commit, EndSettling, Proceed
<1>. QED
  BY <1>3, <1>4, <1>5 DEF Next, Settle, Begin, BeginAgain

(* Nobody overtakes in the queue: a row gets ahead of another only as the  *)
(* other is tried, and a pass takes the least recently tried first, for    *)
(* any number of listings, requests, merges and failures.                  *)
THEOREM NobodyOvertakes == Spec => FirstComeFirst
<1>1. ASSUME IInv, AgreesOK, Next, NEW o \in Listing, NEW p \in Listing
      PROVE  KeepsItsTurn(o, p) /\ TakenInTurn(o, p)
  <2>1. KeepsItsTurn(o, p)
    BY <1>1, TurnsKept DEF InTurn
  <2>2. TakenInTurn(o, p)
    BY <1>1, PassesBegin, PendingInTurn DEF TakenInTurn
  <2>. QED
    BY <2>1, <2>2
<1>2. IInv /\ AgreesOK /\ [Next]_vars =>
        [\A o, p \in Listing : KeepsItsTurn(o, p) /\ TakenInTurn(o, p)]_vars
  BY <1>1
<1>. QED
  BY <1>2, PlacementInv, AgreesHolds, PTL DEF Spec, FirstComeFirst
=============================================================================
