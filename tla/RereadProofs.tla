---------------------------- MODULE RereadProofs ----------------------------
(***************************************************************************)
(* What holds of Reread for every value of its constants.                  *)
(***************************************************************************)
EXTENDS Reread, Ranks

(* No listing is handed over with other words than those that are quiet. *)
Quieted ==
    \A o \in Listing : quiet[KeyOf[o]] => batch[o] \in {None, words[KeyOf[o]]}

(* Only a request that is quiet has been read from, and one that is closed *)
(* was, unless it failed, or there never was one.                          *)
Rested ==
    \A k \in Key : /\ after[k] > 0 => quiet[k]
                   /\ open[k] \/ failed[k] \/ quiet[k] \/ words[k] = 0

(* A change under way is newer than the words, and than the change by      *)
(* which the loop took the request of its key.                             *)
Newer ==
    \A k \in Key : change[k] > 0 => change[k] > words[k] /\ (k = cur => change[k] > curAsked)

(* The listings placed before the last change of a key. *)
Before(k) == {o \in placed : KeyOf[o] = k /\ joined[o] < words[k]}

(* While a batch is read its request stands still, and a listing behind    *)
(* the cursor is in the batch, unless the batch is full and ends before.   *)
Reading ==
    place = "reading" =>
        /\ quiet[cur] /\ change[cur] = 0 /\ curAsked = words[cur]
        /\ \A o \in Before(cur) : o > after[cur] =>
              o \in page \/ (Cardinality(page) = Batch /\ \A p \in page : p < o)

(* What is settled for has been read, if nothing was asked since. *)
Settling ==
    place = "settling" /\ curAsked = words[cur] =>
        quiet[cur] /\ \A o \in Before(cur) : read[o] = words[cur]

Inductive == /\ TypeOK /\ Quieted /\ Rested /\ Newer /\ Reading /\ Settling
             /\ CursorIsBehind /\ ReadSinceChanged

-----------------------------------------------------------------------------
(* The batch. *)

(* The listings of a key behind its cursor. *)
Rest(k) == {o \in placed : KeyOf[o] = k /\ o > after[k]}

LEMMA PageBatch ==
    ASSUME TypeOK, NEW k \in Key, NEW o \in placed, KeyOf[o] = k, o > after[k]
    PROVE  o \in PageOf(k) \/ (Cardinality(PageOf(k)) = Batch /\ \A p \in PageOf(k) : p < o)
<1>1. Rest(k) \in SUBSET Nat /\ IsFiniteSet(Rest(k)) /\ o \in Rest(k)
  <2>1. Rest(k) \subseteq Listing
    BY DEF Rest, TypeOK
  <2>. QED
    BY <2>1, FS_Subset, RereadAssumption DEF Rest
<1>2. PageOf(k) = {x \in Rest(k) : Cardinality(Below(Rest(k), x)) < Batch}
  BY DEF PageOf, Rest, Below
<1>3. Batch \in Nat /\ Cardinality(Below(Rest(k), o)) \in Nat
  BY <1>1, RankSmall, RereadAssumption
<1>4. CASE Cardinality(Below(Rest(k), o)) < Batch
  BY <1>1, <1>2, <1>4
<1>5. CASE Cardinality(Below(Rest(k), o)) >= Batch
  BY <1>1, <1>2, <1>3, <1>5, FirstOnes
<1>. QED
  BY <1>3, <1>4, <1>5

LEMMA PageOfKey ==
    ASSUME NEW k \in Key
    PROVE  PageOf(k) \subseteq {o \in placed : KeyOf[o] = k}
  BY DEF PageOf

(* Where the cursor moves after a full batch. *)
LEMMA PageEnd ==
    ASSUME TypeOK, Cardinality(page) = Batch
    PROVE  LET last == CHOOSE o \in page : \A p \in page : p <= o
           IN  last \in page /\ \A p \in page : p <= last
<1>1. page \in SUBSET Nat /\ IsFiniteSet(page)
  <2>1. page \subseteq Listing
    BY DEF TypeOK
  <2>. QED
    BY <2>1, FS_Subset, RereadAssumption
<1>2. page # {}
  BY FS_EmptySet, RereadAssumption
<1>. QED
  BY <1>1, <1>2, GreatestMember

-----------------------------------------------------------------------------
LEMMA InitInductive == Init => Inductive
<1>. SUFFICES ASSUME Init PROVE Inductive
  OBVIOUS
<1>. USE RereadAssumption DEF Init
<1>1. TypeOK
  BY DEF TypeOK, Place
<1>2. Quieted /\ Rested /\ Newer /\ Reading /\ Settling
  BY DEF Quieted, Rested, Newer, Reading, Settling
<1>3. CursorIsBehind /\ ReadSinceChanged
  BY DEF CursorIsBehind, ReadSinceChanged
<1>. QED
  BY <1>1, <1>2, <1>3 DEF Inductive

LEMMA AskInductive ==
    ASSUME Inductive, NEW k \in Key, Ask(k)
    PROVE  Inductive'
<1>. USE DEF Inductive, Ask, registry, request, loop, listings
<1>1. TypeOK'
  BY RereadAssumption DEF TypeOK, Place
<1>2. Quieted' /\ Rested' /\ CursorIsBehind' /\ ReadSinceChanged'
  BY DEF Quieted, Rested, CursorIsBehind, ReadSinceChanged
<1>3. Newer'
  BY DEF Newer, TypeOK
<1>4. Reading' /\ Settling'
  BY DEF Reading, Settling, Before, Locked, TypeOK
<1>. QED
  BY <1>1, <1>2, <1>3, <1>4

LEMMA AskCommitInductive ==
    ASSUME Inductive, NEW k \in Key, AskCommit(k)
    PROVE  Inductive'
<1>. USE DEF Inductive, AskCommit, loop, listings
<1>1. TypeOK'
  BY RereadAssumption DEF TypeOK, Place
<1>2. Quieted' /\ Rested'
  BY RereadAssumption DEF Quieted, Rested, TypeOK
<1>3. Newer'
  BY DEF Newer, TypeOK
<1>4. Reading' /\ Settling'
  <2>1. Before(cur)' = Before(cur) \/ k = cur
    BY RereadAssumption DEF Before, TypeOK
  <2>2. CASE k = cur
    <3>1. place # "reading" /\ curAsked # words'[cur]
      BY <2>2 DEF Reading, Newer, TypeOK
    <3>. QED
      BY <3>1 DEF Reading, Settling
  <2>3. CASE k # cur
    BY <2>1, <2>3 DEF Reading, Settling, TypeOK
  <2>. QED
    BY <2>2, <2>3
<1>5. CursorIsBehind' /\ ReadSinceChanged'
  <2>1. ASSUME NEW o \in placed, KeyOf[o] = k PROVE ~ (o <= after'[k]) /\ open'[k]
    BY RereadAssumption DEF TypeOK
  <2>2. ASSUME NEW o \in placed, KeyOf[o] # k
        PROVE  LET q == KeyOf[o] IN
               open'[q] = open[q] /\ failed'[q] = failed[q] /\ after'[q] = after[q] /\ words'[q] = words[q]
    BY <2>2, RereadAssumption DEF TypeOK
  <2>. QED
    BY <2>1, <2>2, RereadAssumption DEF CursorIsBehind, ReadSinceChanged, TypeOK
<1>. QED
  BY <1>1, <1>2, <1>3, <1>4, <1>5

LEMMA AskRolledBackInductive ==
    ASSUME Inductive, NEW k \in Key, AskRolledBack(k)
    PROVE  Inductive'
<1>. USE DEF Inductive, AskRolledBack, request, loop, listings
<1>1. TypeOK'
  BY RereadAssumption DEF TypeOK, Place
<1>2. Quieted' /\ Rested' /\ CursorIsBehind' /\ ReadSinceChanged'
  BY DEF Quieted, Rested, CursorIsBehind, ReadSinceChanged
<1>3. Newer' /\ Reading' /\ Settling'
  BY DEF Newer, Reading, Settling, Before, TypeOK
<1>. QED
  BY <1>1, <1>2, <1>3

LEMMA GoesQuietInductive ==
    ASSUME Inductive, NEW k \in Key, GoesQuiet(k)
    PROVE  Inductive'
<1>. USE DEF Inductive, GoesQuiet, registry, loop, listings
<1>1. TypeOK'
  BY RereadAssumption DEF TypeOK, Place
<1>2. Quieted' /\ Rested'
  BY RereadAssumption DEF Quieted, Rested, TypeOK
<1>3. Newer' /\ Reading' /\ Settling' /\ CursorIsBehind' /\ ReadSinceChanged'
  BY DEF Newer, Reading, Settling, Before, CursorIsBehind, ReadSinceChanged, TypeOK
<1>. QED
  BY <1>1, <1>2, <1>3

LEMMA Numbers ==
    ASSUME TypeOK
    PROVE  /\ \A o \in Listing : o \in Nat /\ o > 0 /\ KeyOf[o] \in Key /\ joined[o] \in Nat
           /\ \A k \in Key : words[k] \in Nat /\ after[k] \in Nat
<1>1. edits \in Nat
  BY RereadAssumption DEF TypeOK
<1>2. ASSUME NEW o \in Listing
      PROVE  o \in Nat /\ o > 0 /\ KeyOf[o] \in Key /\ joined[o] \in Nat
  <2>1. o \in Nat \ {0} /\ KeyOf[o] \in Key
    BY RereadAssumption
  <2>2. joined[o] \in 0 .. edits
    BY DEF TypeOK
  <2>. QED
    BY <1>1, <2>1, <2>2
<1>3. ASSUME NEW k \in Key PROVE words[k] \in Nat /\ after[k] \in Nat
  <2>1. words[k] \in 0 .. edits /\ after[k] \in Listing \union {0}
    BY DEF TypeOK
  <2>. QED
    BY <1>1, <1>2, <2>1
<1>. QED
  BY <1>2, <1>3

LEMMA LoadInductive ==
    ASSUME Inductive, NEW o \in Listing, Load(o)
    PROVE  Inductive'
<1>. USE DEF Inductive, Load, registry, request, loop
<1>1. TypeOK'
  BY RereadAssumption DEF TypeOK, Place
<1>2. Quieted'
  BY RereadAssumption DEF Quieted, TypeOK
<1>3. Rested' /\ Newer' /\ Reading' /\ Settling' /\ CursorIsBehind' /\ ReadSinceChanged'
  BY DEF Rested, Newer, Reading, Settling, Before, CursorIsBehind, ReadSinceChanged
<1>. QED
  BY <1>1, <1>2, <1>3

LEMMA HandOverInductive ==
    ASSUME Inductive, NEW o \in Listing, HandOver(o)
    PROVE  Inductive'
<1>. USE DEF Inductive, HandOver, registry, request, loop
<1>. DEFINE k == KeyOf[o]
<1>1. TypeOK'
  BY RereadAssumption DEF TypeOK, Place
<1>2. Quieted' /\ Rested' /\ Newer' /\ Reading'
  BY RereadAssumption DEF Quieted, Rested, Newer, Reading, Before, TypeOK
<1>3. k \in Key /\ (quiet[k] => read'[o] = words[k])
  BY RereadAssumption DEF Quieted, TypeOK
<1>4. \A p \in Listing : p # o => read'[p] = read[p]
  BY DEF TypeOK
<1>5. o \notin Before(k) \/ words[k] > 0
  BY Numbers, <1>3 DEF Before
<1>6. Settling'
  BY <1>3, <1>4 DEF Settling, Before, TypeOK
<1>7. CursorIsBehind'
  <2>1. o <= after[k] => quiet[k]
    BY <1>3, Numbers DEF Rested
  <2>. QED
    BY <1>3, <1>4, <2>1 DEF CursorIsBehind, TypeOK
<1>8. ReadSinceChanged'
  <2>1. o \in placed /\ joined[o] < words[k] => open[k] \/ failed[k] \/ quiet[k]
    BY <1>3, <1>5 DEF Rested, Before
  <2>. QED
    BY <1>3, <1>4, <2>1 DEF ReadSinceChanged, TypeOK
<1>. QED
  BY <1>1, <1>2, <1>6, <1>7, <1>8

LEMMA JoinInductive ==
    ASSUME Inductive, NEW o \in Listing, Join(o)
    PROVE  Inductive'
<1>. USE DEF Inductive, Join, registry, request, loop
<1>1. TypeOK'
  <2>1. words[KeyOf[o]] \in 0 .. edits
    BY Numbers DEF TypeOK
  <2>. QED
    BY <2>1 DEF TypeOK, Place
<1>2. Quieted' /\ Rested' /\ Newer'
  BY DEF Quieted, Rested, Newer
<1>3. /\ \A p \in placed' : joined'[p] < words[KeyOf[p]] => p \in placed /\ joined'[p] = joined[p]
      /\ Before(cur)' \subseteq Before(cur)
  <2>1. joined'[o] = words[KeyOf[o]] /\ ~ (words[KeyOf[o]] < words[KeyOf[o]])
    BY Numbers DEF TypeOK
  <2>2. \A p \in placed : p # o => joined'[p] = joined[p]
    BY DEF TypeOK
  <2>. QED
    BY <2>1, <2>2 DEF Before
<1>4. Reading' /\ Settling'
  BY <1>3 DEF Reading, Settling
<1>5. CursorIsBehind' /\ ReadSinceChanged'
  BY <1>3 DEF CursorIsBehind, ReadSinceChanged
<1>. QED
  BY <1>1, <1>2, <1>4, <1>5

LEMMA TakeInductive ==
    ASSUME Inductive, NEW k \in Key, Take(k)
    PROVE  Inductive'
<1>. USE DEF Inductive, Take, Ripe, registry, request, listings
<1>1. TypeOK'
  BY PageOfKey DEF TypeOK, Place
<1>2. Quieted' /\ Rested' /\ CursorIsBehind' /\ ReadSinceChanged'
  BY DEF Quieted, Rested, CursorIsBehind, ReadSinceChanged
<1>3. Newer' /\ Settling'
  BY DEF Newer, Settling, TypeOK
<1>4. Reading'
  <2>1. Before(cur)' = Before(k)
    BY DEF Before
  <2>2. \A o \in Before(k) : o > after[k] =>
           o \in PageOf(k) \/ (Cardinality(PageOf(k)) = Batch /\ \A p \in PageOf(k) : p < o)
    BY PageBatch DEF Before
  <2>3. quiet[k] /\ change[k] = 0 /\ asked[k] = words[k]
    BY DEF TypeOK
  <2>. QED
    BY <2>1, <2>2, <2>3 DEF Reading
<1>. QED
  BY <1>1, <1>2, <1>3, <1>4

LEMMA ReadPageInductive ==
    ASSUME Inductive, ReadPage
    PROVE  Inductive'
<1>. USE DEF Inductive, ReadPage, registry
<1>. DEFINE last == CHOOSE o \in page : \A p \in page : p <= o
<1>1. /\ \A o \in page : o \in Listing /\ KeyOf[o] = cur /\ read'[o] = words[cur]
      /\ \A o \in Listing \ page : read'[o] = read[o]
  BY DEF TypeOK
<1>2. Cardinality(page) = Batch => last \in page /\ \A p \in page : p <= last
  BY PageEnd
<1>3. \A k \in Key : k # cur => after'[k] = after[k]
  BY DEF TypeOK
<1>4. Cardinality(page) = Batch => after'[cur] = last
  BY DEF TypeOK
<1>5. TypeOK'
  <2>1. read' \in [Listing -> 0 .. edits]
    BY DEF TypeOK
  <2>2. after' \in [Key -> Listing \union {0}]
    BY <1>1, <1>2 DEF TypeOK
  <2>3. place' \in Place /\ page' = {}
    BY DEF Place
  <2>. HIDE DEF last
  <2>. QED
    BY <2>1, <2>2, <2>3 DEF TypeOK
<1>6. Quieted' /\ Newer' /\ Reading'
  BY DEF Quieted, Newer, Reading
<1>7. quiet[cur] /\ curAsked = words[cur]
  BY DEF Reading
<1>8. Rested'
  BY <1>3, <1>7 DEF Rested
<1>9. \A o \in Before(cur) : o <= after[cur] \/ o \in page => read'[o] = words[cur]
  BY <1>1 DEF CursorIsBehind, Before, TypeOK
<1>10. Settling'
  <2>1. Before(cur)' = Before(cur)
    BY DEF Before
  <2>2. ASSUME Cardinality(page) # Batch, NEW o \in Before(cur)
        PROVE  o <= after[cur] \/ o \in page
    <3>1. o \in Nat /\ after[cur] \in Nat
      BY Numbers DEF Before, TypeOK
    <3>2. o > after[cur] => o \in page
      BY <2>2 DEF Reading
    <3>. QED
      BY <3>1, <3>2
  <2>. QED
    BY <1>7, <1>9, <2>1, <2>2 DEF Settling
<1>11. CursorIsBehind'
  <2>. SUFFICES ASSUME NEW o \in placed, joined[o] < words[KeyOf[o]], open[KeyOf[o]],
                       o <= after'[KeyOf[o]]
                PROVE  read'[o] = words[KeyOf[o]]
    BY DEF CursorIsBehind
  <2>1. o \in Listing /\ KeyOf[o] \in Key
    BY RereadAssumption DEF TypeOK
  <2>2. CASE KeyOf[o] # cur
    BY <1>1, <1>3, <2>1, <2>2 DEF CursorIsBehind
  <2>3. CASE KeyOf[o] = cur
    <3>1. o \in Before(cur)
      BY <2>3 DEF Before
    <3>2. o <= after[cur] \/ o \in page
      <4>1. CASE Cardinality(page) # Batch
        BY <2>3, <4>1
      <4>2. CASE Cardinality(page) = Batch
        <5>1. last \in page /\ o <= last
          BY <1>2, <1>4, <2>3, <4>2
        <5>2. last \in Nat /\ o \in Nat /\ after[cur] \in Nat
          BY <1>1, <2>1, <2>3, <5>1, Numbers
        <5>3. o > after[cur] => o \in page \/ last < o
          BY <3>1, <5>1 DEF Reading
        <5>. QED
          BY <5>1, <5>2, <5>3
      <4>. QED
        BY <4>1, <4>2
    <3>. QED
      BY <1>9, <2>3, <3>1, <3>2
  <2>. QED
    BY <2>2, <2>3
<1>12. ReadSinceChanged'
  <2>1. \A o \in placed : o \in Listing
    BY DEF TypeOK
  <2>. QED
    BY <1>1, <2>1 DEF ReadSinceChanged
<1>. QED
  BY <1>5, <1>6, <1>8, <1>10, <1>11, <1>12

LEMMA FailsInductive == Inductive /\ Fails => Inductive'
<1>. SUFFICES ASSUME Inductive, Fails PROVE Inductive'
  OBVIOUS
<1>. USE DEF Inductive, Fails, registry, request, listings
<1>1. TypeOK'
  BY RereadAssumption DEF TypeOK, Place
<1>2. Quieted' /\ Rested' /\ CursorIsBehind' /\ ReadSinceChanged'
  BY DEF Quieted, Rested, CursorIsBehind, ReadSinceChanged
<1>3. Newer' /\ Reading' /\ Settling'
  BY DEF Newer, Reading, Settling
<1>. QED
  BY <1>1, <1>2, <1>3

LEMMA CrashInductive == Inductive /\ Crash => Inductive'
<1>. SUFFICES ASSUME Inductive, Crash PROVE Inductive'
  OBVIOUS
<1>. USE DEF Inductive, Crash, registry, request, listings
<1>1. TypeOK'
  BY RereadAssumption DEF TypeOK, Place
<1>2. Quieted' /\ Rested' /\ CursorIsBehind' /\ ReadSinceChanged'
  BY DEF Quieted, Rested, CursorIsBehind, ReadSinceChanged
<1>3. Newer' /\ Reading' /\ Settling'
  BY DEF Newer, Reading, Settling
<1>. QED
  BY <1>1, <1>2, <1>3

LEMMA FinishInductive == Inductive /\ Finish => Inductive'
<1>. SUFFICES ASSUME Inductive, Finish PROVE Inductive'
  OBVIOUS
<1>. USE DEF Inductive, Finish, registry, listings
<1>1. TypeOK'
  BY DEF TypeOK, Place
<1>2. Quieted' /\ Newer' /\ Reading' /\ Settling'
  BY DEF Quieted, Newer, Reading, Settling
<1>3. open'[cur] \/ (quiet[cur] /\ \A o \in Before(cur) : read[o] = words[cur])
  BY DEF Settling, TypeOK
<1>4. \A k \in Key : k # cur => open'[k] = open[k]
  BY DEF TypeOK
<1>5. Rested'
  BY <1>3, <1>4 DEF Rested
<1>6. CursorIsBehind' /\ ReadSinceChanged'
  <2>1. \A o \in placed : KeyOf[o] \in Key
    BY RereadAssumption DEF TypeOK
  <2>2. open[cur]
    BY DEF TypeOK
  <2>3. CursorIsBehind'
    BY <1>4, <2>1, <2>2 DEF CursorIsBehind
  <2>4. ReadSinceChanged'
    BY <1>3, <1>4, <2>1 DEF ReadSinceChanged, Before
  <2>. QED
    BY <2>3, <2>4
<1>. QED
  BY <1>1, <1>2, <1>5, <1>6

LEMMA FailCloseInductive == Inductive /\ FailClose => Inductive'
<1>. SUFFICES ASSUME Inductive, FailClose PROVE Inductive'
  OBVIOUS
<1>. USE DEF Inductive, FailClose, registry, listings
<1>1. TypeOK'
  BY DEF TypeOK, Place
<1>2. Quieted' /\ Newer' /\ Reading' /\ Settling'
  BY DEF Quieted, Newer, Reading, Settling
<1>3. /\ failed'[cur] /\ ~ open'[cur]
      /\ \A k \in Key : k # cur => open'[k] = open[k] /\ failed'[k] = failed[k]
  BY DEF TypeOK
<1>4. Rested'
  BY <1>3 DEF Rested
<1>5. CursorIsBehind' /\ ReadSinceChanged'
  <2>1. \A o \in placed : KeyOf[o] \in Key
    BY RereadAssumption DEF TypeOK
  <2>. QED
    BY <1>3, <2>1 DEF CursorIsBehind, ReadSinceChanged
<1>. QED
  BY <1>1, <1>2, <1>4, <1>5

LEMMA StepInductive == Inductive /\ [Next]_vars => Inductive'
<1>1. CASE UNCHANGED vars
  BY <1>1 DEF vars, registry, request, loop, listings, Inductive, TypeOK, Quieted, Rested, Newer,
     Before, Reading, Settling, CursorIsBehind, ReadSinceChanged
<1>2. ASSUME Inductive, NEW k \in Key,
             Ask(k) \/ AskCommit(k) \/ AskRolledBack(k) \/ GoesQuiet(k) \/ Take(k)
      PROVE  Inductive'
  BY <1>2, AskInductive, AskCommitInductive, AskRolledBackInductive, GoesQuietInductive,
     TakeInductive
<1>3. ASSUME Inductive, NEW o \in Listing, Load(o) \/ HandOver(o) \/ Join(o)
      PROVE  Inductive'
  BY <1>3, LoadInductive, HandOverInductive, JoinInductive
<1>4. Inductive /\ (ReadPage \/ Fails \/ Finish \/ FailClose \/ Crash) => Inductive'
  BY ReadPageInductive, FailsInductive, FinishInductive, FailCloseInductive, CrashInductive
<1>. QED
  BY <1>1, <1>2, <1>3, <1>4 DEF Next

LEMMA Always == Spec => []Inductive
  BY InitInductive, StepInductive, PTL DEF Spec

(* The variables have their types, the loop is at an open request whenever *)
(* it is at one, and its batch is of that request's listings               *)
(* (Scheduler.reread, BrandService._ask_for_reread).                       *)
THEOREM RereadTypes == Spec => []TypeOK
<1>1. Inductive => TypeOK
  BY DEF Inductive
<1>. QED
  BY <1>1, Always, PTL

(* A request that is finished has reached every listing that was placed    *)
(* under its maker before its last change, for any number of listings,     *)
(* changes, batches and crashes, as long as the quiet time outlasts a      *)
(* batch of hand-overs (Scheduler.reread).                                 *)
THEOREM FinishedHasRead == Spec => []ReadSinceChanged
<1>1. Inductive => ReadSinceChanged
  BY DEF Inductive
<1>. QED
  BY <1>1, Always, PTL

(* The cursor that survives a crash is never ahead of what was read        *)
(* (OfferService.reread_brand and the commit of a batch).                  *)
THEOREM CursorBehind == Spec => []CursorIsBehind
<1>1. Inductive => CursorIsBehind
  BY DEF Inductive
<1>. QED
  BY <1>1, Always, PTL
=============================================================================
