------------------------------ MODULE Snapshots ------------------------------
(***************************************************************************)
(* The bytes a shop served, on the worker's disk: a file of the last page  *)
(* of each product and, apart, one of the page that would not parse. A     *)
(* crawl writes them product by product; a re-parse works through them     *)
(* without a network, a broken one in preference to a good one. Files are  *)
(* written in place and nothing is locked: a worker that dies leaves what  *)
(* it was at.                                                              *)
(***************************************************************************)
EXTENDS Naturals

CONSTANTS Card,        \* products, by the shop's identifier
          File,        \* identifiers once they are safe to put in a path
          NameOf,      \* _safe: the file of each, not always one of its own
          MaxServed    \* bound: pages the shop serves

ASSUME SnapshotsAssumption == NameOf \in [Card -> File] /\ MaxServed \in Nat

VARIABLES
    good,      \* the snapshot in <source>/, of each file
    broken,    \* the snapshot in failed/<source>/
    mode,      \* "idle", "crawl" or "reparse"
    work,      \* a crawl's cards still to read
    files,     \* a re-parse's files still to read
    payload,   \* pages read and not handed over, 0 for none
    handed,    \* page behind what was last handed over under an identifier
    served,    \* pages served so far
    tried,     \* ghost: how the newest try at a card's page went
    cut        \* ghost: cards a worker died at, in the middle of the writing

snapVars == <<good, broken, mode, work, files, payload, handed, served, tried, cut>>

Missing  == [state |-> "missing"]
HalfWritten    == [state |-> "torn"]
Snapshot(c, p) == [state |-> "whole", card |-> c, page |-> p]
Whole    == {Snapshot(c, p) : c \in Card, p \in 1..MaxServed}
Ids      == Card \cup File
Empty == [x \in Ids |-> 0]

SnapInit ==
    /\ good = [f \in File |-> Missing] /\ broken = good
    /\ served = 0
    /\ mode = "idle" /\ work = {} /\ files = {}
    /\ payload = Empty /\ handed = Empty
    /\ tried = [c \in Card |-> "never"] /\ cut = {}

-----------------------------------------------------------------------------
(* Mutant of Keeps, for NeverToAnOlderPage: forget_failure is not called.  *)
KeepsFailure(c, p) ==
    /\ good' = [good EXCEPT ![NameOf[c]] = Snapshot(c, p)]
    /\ UNCHANGED broken

(* A page that was read: it is the good one, and what there was of broken  *)
(* ones goes.                                                              *)
Keeps(c, p) ==
    /\ good' = [good EXCEPT ![NameOf[c]] = Snapshot(c, p)]
    /\ broken' = [broken EXCEPT ![NameOf[c]] = Missing]

(* Mutant of SetsApart, for BrokenAreTheFailures: only a crawl's failures. *)
SetsApartCrawled(c, p) ==
    /\ broken' = IF mode = "crawl" THEN [broken EXCEPT ![NameOf[c]] = Snapshot(c, p)] ELSE broken
    /\ UNCHANGED good

(* A page that was not: its bytes are put with the broken ones.            *)
SetsApart(c, p) ==
    /\ broken' = [broken EXCEPT ![NameOf[c]] = Snapshot(c, p)]
    /\ UNCHANGED good

(* The worker dies: between the save and forget_failure, or while a file   *)
(* is being written. What it had not handed over is lost.                  *)
Dies(c, p, ok) ==
    /\ \/ ok /\ good' = [good EXCEPT ![NameOf[c]] = Snapshot(c, p)] /\ UNCHANGED broken
       \/ ok /\ good' = [good EXCEPT ![NameOf[c]] = HalfWritten] /\ UNCHANGED broken
       \/ ~ok /\ broken' = [broken EXCEPT ![NameOf[c]] = HalfWritten] /\ UNCHANGED good
    /\ cut' = cut \cup {c}
    /\ mode' = "idle" /\ work' = {} /\ files' = {} /\ payload' = Empty
    /\ UNCHANGED tried

(* A full pass, over what the shop lists.                                  *)
Crawl == /\ mode = "idle" /\ mode' = "crawl"
         /\ work' \in SUBSET Card \ {{}}
         /\ UNCHANGED <<good, broken, files, payload, handed, served, tried, cut>>

(* _observe: one product's page, its snapshot, its fields.                 *)
ObserveCard(c) ==
    /\ mode = "crawl" /\ c \in work /\ served < MaxServed
    /\ served' = served + 1
    /\ \/ /\ Keeps(c, served')
          /\ tried' = [tried EXCEPT ![c] = "read"]
          /\ payload' = [payload EXCEPT ![c] = served']
          /\ work' = work \ {c} /\ UNCHANGED <<mode, files, cut>>
       \/ /\ SetsApart(c, served')
          /\ tried' = [tried EXCEPT ![c] = "failed"]
          /\ work' = work \ {c} /\ UNCHANGED <<mode, files, payload, cut>>
       \/ \E ok \in BOOLEAN : Dies(c, served', ok)
    /\ UNCHANGED handed

(* _reparse: every file of both areas.                                     *)
ReparseAll ==
    /\ mode = "idle" /\ mode' = "reparse"
    /\ files' = {f \in File : good[f] # Missing \/ broken[f] # Missing}
    /\ UNCHANGED <<good, broken, work, payload, handed, served, tried, cut>>

(* Mutant of Reported, for SnapTypeOK: the file's name.                    *)
ReportedByFile(f, s) == f
(* The snapshot's own identifier, not the one the file's name yields.      *)
Reported(f, s) == s.card

Chosen(f) == IF broken[f] # Missing THEN broken[f] ELSE good[f]

(* One file, which the parser as it is now reads or does not, whatever it  *)
(* made of it before. Only the parser may fail on one: bytes that do not   *)
(* unpack end the re-parse, with all that it had read.                     *)
ReadFile(f) ==
    LET s == Chosen(f) IN
    /\ mode = "reparse" /\ f \in files
    /\ \/ /\ s = HalfWritten
          /\ mode' = "idle" /\ files' = {} /\ payload' = Empty
          /\ UNCHANGED <<good, broken, work, tried, cut>>
       \/ /\ s # HalfWritten
          /\ IF broken[f] # Missing THEN Keeps(s.card, s.page) ELSE UNCHANGED <<good, broken>>
          /\ tried' = [tried EXCEPT ![s.card] = "read"]
          /\ payload' = [payload EXCEPT ![Reported(f, s)] = s.page]
          /\ files' = files \ {f} /\ UNCHANGED <<mode, work, cut>>
       \/ /\ s # HalfWritten
          /\ IF broken[f] = Missing THEN SetsApart(s.card, s.page) ELSE UNCHANGED <<good, broken>>
          /\ tried' = [tried EXCEPT ![s.card] = "failed"]
          /\ files' = files \ {f} /\ UNCHANGED <<mode, work, payload, cut>>
       \/ /\ s # HalfWritten
          /\ Dies(s.card, s.page, broken[f] # Missing)
    /\ UNCHANGED <<handed, served>>

(* A crawl hands over a slice at a time, a re-parse all at its end.        *)
HandsOver ==
    /\ mode = "crawl" \/ (mode = "reparse" /\ files = {})
    /\ handed' = [x \in Ids |-> IF payload[x] = 0 THEN handed[x] ELSE payload[x]]
    /\ payload' = Empty
    /\ mode' = IF work = {} THEN "idle" ELSE mode
    /\ UNCHANGED <<good, broken, work, files, served, tried, cut>>

SnapNext ==
    \/ Crawl \/ ReparseAll \/ HandsOver
    \/ \E c \in Card : ObserveCard(c)
    \/ \E f \in File : ReadFile(f)

SnapSpec == SnapInit /\ [][SnapNext]_snapVars

-----------------------------------------------------------------------------
(* Properties.                                                             *)

Alone(c) == \A d \in Card \ {c} : NameOf[d] # NameOf[c]

(* What is handed over goes by identifiers the shop has given: a re-parse  *)
(* reads products again and invents none (worker.py: "it invents a second  *)
(* one beside it").                                                        *)
SnapTypeOK ==
    /\ good \in [File -> Whole \cup {Missing, HalfWritten}]
    /\ broken \in [File -> Whole \cup {Missing, HalfWritten}]
    /\ served \in 0..MaxServed
    /\ mode \in {"idle", "crawl", "reparse"}
    /\ work \subseteq Card /\ files \subseteq File /\ cut \subseteq Card
    /\ payload \in [Ids -> 0..served] /\ handed \in [Ids -> 0..served]
    /\ tried \in [Card -> {"never", "read", "failed"}]
    /\ \A x \in Ids \ Card : payload[x] = 0 /\ handed[x] = 0

(* What is handed over of a product is never from an older page than what  *)
(* was handed over before, though a re-parse takes the broken snapshot     *)
(* before the good one - unless a worker died while writing that product's *)
(* files: then a broken page a newer one had superseded is read, handed    *)
(* over and put in the newer one's place.                                  *)
NeverToAnOlderPage ==
    [][\A c \in Card \ cut : handed'[c] >= handed[c]]_snapVars

(* The broken examples are the products whose newest try failed, a crawl's *)
(* or a re-parse's, and no others - but for a product a worker died at and *)
(* for those that share a file.                                            *)
BrokenAreTheFailures ==
    \A c \in Card \ cut : Alone(c) =>
        (tried[c] = "failed" <=> broken[NameOf[c]] # Missing)
=============================================================================
