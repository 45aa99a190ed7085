------------------------------ MODULE Verdicts -------------------------------
(***************************************************************************)
(* The judge's store: what an outside model answered, kept so that it is   *)
(* asked once. Passes look for the questions that have no answer, pay for  *)
(* as many as they may, and write the answers in the transaction that acts *)
(* on them; an admin may forget an answer, so that the next pass asks      *)
(* again. This is check_matches, whose budget counts what it pays for; the *)
(* other three passes look through the first rows of the queue instead.    *)
(***************************************************************************)
EXTENDS Naturals, FiniteSets

CONSTANTS Question,    \* by question_hash
          Listings,    \* how many matches a rule made, in offer order
          Asks,        \* the question of each: two may ask the same
          Verdict,     \* what may be answered
          Failed,      \* no answer: the service refused, or was not there
          NoRow,       \* no row
          Judging,     \* passes that may be under way at once
          Budget,      \* limit: new questions a pass may pay for
          MaxPaid, MaxForgotten  \* bounds

ASSUME VerdictsAssumption ==
    /\ Listings \in Nat /\ Asks \in [1..Listings -> Question]
    /\ Failed \notin Verdict /\ NoRow \notin Verdict /\ Failed # NoRow
    /\ Budget \in Nat \ {0} /\ MaxPaid \in Nat /\ MaxForgotten \in Nat

VARIABLES
    live,       \* the row of each question that is not forgotten, if any
    past,       \* answers whose rows are forgotten
    judging,    \* of each pass: where it is and what it holds
    paid,       \* calls that were answered, by question
    forgotten,  \* rows forgotten, by question
    excused     \* ghost: passes overlapped, or one was lost with what it paid for

verdictVars == <<live, past, judging, paid, forgotten, excused>>

NoVerdicts == [q \in Question |-> NoRow]
Resting == [at |-> "idle", results |-> NoVerdicts, wrote |-> NoVerdicts,
            reads |-> NoVerdicts, takes |-> {}, todo |-> {}, lacked |-> {}]

Active(p) == judging[p].at \notin {"idle", "done"}

VerdictsInit ==
    /\ live = NoVerdicts /\ past = [q \in Question |-> {}]
    /\ judging = [p \in Judging |-> Resting]
    /\ paid = [q \in Question |-> 0] /\ forgotten = paid
    /\ excused = FALSE

-----------------------------------------------------------------------------
Lacking == {l \in 1..Listings : live[Asks[l]] = NoRow}

(* Mutant of Within, for PassMovesForward: answers held count too, as they *)
(* do where the queue is cut at the limit.                                 *)
WithinRows(ls) == {l \in ls : l <= Budget}

(* The first listings without an answer, as many as the pass may pay for.  *)
Within(ls) == {l \in ls : Cardinality({m \in ls : m < l}) < Budget}

(* The pass looks for what is stored. It sees what is committed.           *)
Look(p) ==
    /\ ~Active(p)
    /\ judging' = [judging EXCEPT ![p] =
         [Resting EXCEPT !.at = "asking", !.reads = live,
                         !.takes = Within(Lacking), !.lacked = {Asks[l] : l \in Lacking}]]
    /\ excused' = (excused \/ \E o \in Judging \ {p} : Active(o))
    /\ UNCHANGED <<live, past, paid, forgotten>>

(* Mutant of Calls, for PaidTwiceNeedsOverlap: one call for each listing.  *)
CallsForEach(ls, q) == Cardinality({l \in ls : Asks[l] = q})

(* by_hash: one call for each question, however many listings ask it.      *)
Calls(ls, q) == IF \E l \in ls : Asks[l] = q THEN 1 ELSE 0

(* _ask_all: the calls run together, and nothing is written until all are  *)
(* back. A call that failed is counted and not stored; an error that is no *)
(* TypeSafeError ends the pass with the answers it was to store.           *)
AskAll(p) ==
    LET ls == judging[p].takes
        asking == {Asks[l] : l \in ls}
    IN
    /\ judging[p].at = "asking"
    /\ \A q \in Question : paid[q] + Calls(ls, q) <= MaxPaid
    /\ \E results \in [asking -> Verdict \cup {Failed}], breaks \in BOOLEAN :
         LET got == {q \in asking : results[q] # Failed} IN
         /\ paid' = [q \in Question |-> paid[q] + IF q \in got THEN Calls(ls, q) ELSE 0]
         /\ IF breaks
            THEN judging' = [judging EXCEPT ![p] = Resting] /\ excused' = TRUE
            ELSE /\ judging' = [judging EXCEPT
                      ![p].at = "storing", ![p].todo = got,
                      ![p].results = [q \in Question |-> IF q \in got THEN results[q] ELSE NoRow]]
                 /\ UNCHANGED excused
    /\ UNCHANGED <<live, past, forgotten>>

(* Mutant of Insertable, for KeepsTheBook: no index makes a question's row  *)
(* the only one.                                                           *)
InsertsAnyway(p, q) == TRUE

(* The answers are written one after another, in the order of the listings *)
(* that asked first. An insert waits for a pass that has the same question *)
(* uncommitted.                                                            *)
FirstOf(q) == CHOOSE l \in 1..Listings : Asks[l] = q /\ \A m \in 1..(l - 1) : Asks[m] # q
IsNext(p, q) == q \in judging[p].todo /\ \A r \in judging[p].todo : FirstOf(q) <= FirstOf(r)
Insertable(p, q) == \A o \in Judging \ {p} : judging[o].wrote[q] = NoRow

Store(p, q) ==
    /\ judging[p].at = "storing" /\ IsNext(p, q) /\ Insertable(p, q)
    /\ IF live[q] = NoRow
       THEN judging' = [judging EXCEPT
                ![p].todo = @ \ {q}, ![p].wrote[q] = judging[p].results[q],
                ![p].reads[q] = judging[p].results[q]]
       ELSE judging' = [judging EXCEPT ![p].at = "taken"]
    /\ UNCHANGED <<live, past, paid, forgotten, excused>>

(* The answer that was there first.                                        *)
Existing(p, q) == live[q]

(* IntegrityError, in a savepoint: another pass asked first, and its       *)
(* answer is taken - unless it has been forgotten since, which ends the    *)
(* pass.                                                                   *)
Conflict(p, q) ==
    /\ judging[p].at = "taken" /\ IsNext(p, q)
    /\ IF live[q] # NoRow
       THEN /\ judging' = [judging EXCEPT ![p].at = "storing", ![p].todo = @ \ {q},
                                          ![p].reads[q] = Existing(p, q)]
            /\ UNCHANGED excused
       ELSE judging' = [judging EXCEPT ![p] = Resting] /\ excused' = TRUE
    /\ UNCHANGED <<live, past, paid, forgotten>>

(* The request ends, and what the pass wrote is committed.                 *)
Committed(p) ==
    /\ judging[p].at = "storing" /\ judging[p].todo = {}
    /\ live' = [q \in Question |-> IF judging[p].wrote[q] = NoRow
                                   THEN live[q] ELSE judging[p].wrote[q]]
    /\ judging' = [judging EXCEPT ![p].at = "done", ![p].wrote = NoVerdicts]
    /\ UNCHANGED <<past, paid, forgotten, excused>>

(* The request is cut off, or what acts on the answers raises.             *)
RolledBack(p) ==
    /\ Active(p)
    /\ judging' = [judging EXCEPT ![p] = Resting] /\ excused' = TRUE
    /\ UNCHANGED <<live, past, paid, forgotten>>

(* forget: the row stays and stops answering.                              *)
Forget(q) ==
    /\ live[q] # NoRow /\ forgotten[q] < MaxForgotten
    /\ live' = [live EXCEPT ![q] = NoRow]
    /\ past' = [past EXCEPT ![q] = @ \cup {live[q]}]
    /\ forgotten' = [forgotten EXCEPT ![q] = @ + 1]
    /\ UNCHANGED <<judging, paid, excused>>

VerdictsNext ==
    \/ \E p \in Judging : Look(p) \/ AskAll(p) \/ Committed(p) \/ RolledBack(p)
    \/ \E p \in Judging, q \in Question : Store(p, q) \/ Conflict(p, q)
    \/ \E q \in Question : Forget(q)

VerdictsSpec == VerdictsInit /\ [][VerdictsNext]_verdictVars

-----------------------------------------------------------------------------
(* Properties.                                                             *)

VerdictsTypeOK ==
    /\ live \in [Question -> Verdict \cup {NoRow}]
    /\ past \in [Question -> SUBSET Verdict]
    /\ \A p \in Judging :
          /\ judging[p].at \in {"idle", "asking", "storing", "taken", "done"}
          /\ judging[p].todo \subseteq Question /\ judging[p].takes \subseteq 1..Listings
    /\ \A q \in Question : paid[q] \in 0..MaxPaid /\ forgotten[q] \in 0..MaxForgotten

(* What a pass that ended well goes by is what the store has or had of the *)
(* question, also where two passes asked it and were told different        *)
(* things: no listing is placed by an answer nobody can look up.           *)
HoldsTheStored ==
    \A p \in Judging, q \in Question :
        (judging[p].at = "done" /\ judging[p].reads[q] # NoRow) =>
            judging[p].reads[q] \in past[q] \cup {live[q]}

(* judge/service.py: "answers already held do not count against it, so a   *)
(* pass always moves forward". A pass that found questions without an      *)
(* answer has asked one of them, and ends with an answer to each that did  *)
(* not fail. (A budget of questions that fail each time does hold it up.)  *)
PassMovesForward ==
    \A p \in Judging :
        (judging[p].at = "done" /\ judging[p].lacked # {}) =>
            /\ \E l \in judging[p].takes : Asks[l] \in judging[p].lacked
            /\ \A q \in Question : judging[p].results[q] # NoRow => judging[p].reads[q] # NoRow

(* db/models.py, JudgeVerdict: "the same question is never paid for        *)
(* twice". It is, once for each time its answer was forgotten; otherwise   *)
(* only when two passes overlap or one is lost with what it paid for.      *)
PaidTwiceNeedsOverlap ==
    ~excused => \A q \in Question : paid[q] <= 1 + forgotten[q]

(* What a pass that has ended goes by; one under way goes by nothing yet.  *)
GoesBy(p) == IF judging[p].at = "done" THEN judging[p].reads ELSE NoVerdicts

TheBook == INSTANCE AnswerBook
               WITH Answer <- Verdict, NoAnswer <- NoRow, Reader <- Judging, answer <- live,
                    withdrawn <- past, goesBy <- [p \in Judging |-> GoesBy(p)]

(* "It takes a question, answers it once, and stores the answer"           *)
(* (judge/service.py:4): whichever passes write at the same time, an       *)
(* answer that is committed is never written over, a pass whose answer was *)
(* committed goes by it, and every pass by answers that were.              *)
KeepsTheBook == TheBook!BookSpec
=============================================================================
