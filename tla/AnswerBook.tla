----------------------------- MODULE AnswerBook ------------------------------
(***************************************************************************)
(* What the judge's store promises, however many passes pay for answers at *)
(* once: a question has one answer, it is written once and stays what it   *)
(* is until somebody withdraws it, and a pass that has ended goes by       *)
(* answers that are in the book or were withdrawn from it.  How a pass     *)
(* comes by them, and that two of them may pay for the same question, is   *)
(* left to the detailed module.                                            *)
(***************************************************************************)
CONSTANTS Question,
          Answer,
          NoAnswer,
          Reader     \* the passes

VARIABLES answer,    \* of each question, NoAnswer without one
          withdrawn, \* the answers each question had before
          goesBy     \* what each reader that has ended goes by

bookVars == <<answer, withdrawn, goesBy>>

Page == [Question -> Answer \cup {NoAnswer}]
Blank == [q \in Question |-> NoAnswer]

BookInit == /\ answer = Blank
            /\ withdrawn = [q \in Question |-> {}]
            /\ goesBy = [p \in Reader |-> Blank]

(* A reader ends.  It writes the answers it was first with, and goes by    *)
(* them and by others that are or were in the book.                        *)
Enter(p) ==
    /\ answer' \in Page /\ goesBy' \in [Reader -> Page]
    /\ \A q \in Question : answer'[q] # answer[q] => answer[q] = NoAnswer
                                                    /\ goesBy'[p][q] = answer'[q]
    /\ \A q \in Question : goesBy'[p][q] \in withdrawn[q] \cup {answer'[q], NoAnswer}
    /\ \A o \in Reader \ {p} : goesBy'[o] = goesBy[o]
    /\ UNCHANGED withdrawn

(* It begins anew. *)
Leave(p) == /\ goesBy' = [goesBy EXCEPT ![p] = Blank]
            /\ UNCHANGED <<answer, withdrawn>>

Withdraw(q) == /\ answer[q] # NoAnswer
               /\ withdrawn' = [withdrawn EXCEPT ![q] = @ \cup {answer[q]}]
               /\ answer' = [answer EXCEPT ![q] = NoAnswer]
               /\ UNCHANGED goesBy

BookNext == \/ \E p \in Reader : Enter(p) \/ Leave(p)
            \/ \E q \in Question : Withdraw(q)

BookSpec == BookInit /\ [][BookNext]_bookVars
=============================================================================
