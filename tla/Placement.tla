------------------------------ MODULE Placement ------------------------------
(***************************************************************************)
(* What places a listing in the catalogue, and what keeps it in the queue  *)
(* (matching/service.py): the settling of a run, which is one transaction  *)
(* from its first listing to its last (Scheduler.settle), the requests of  *)
(* people that come while it is open, and the judge, whose answer is       *)
(* applied some time after its question was read.                          *)
(*                                                                         *)
(* Sessions read what has committed when a statement begins, and their own *)
(* writes.  A row that an open transaction wrote is locked: a request that *)
(* needs it waits, and then fails or goes on as if it had come after, so   *)
(* here it is disabled.  A row that an open transaction inserted is not    *)
(* seen by anybody's delete, while an insert under its key waits.          *)
(*                                                                         *)
(* What a listing's signals find is given: the rungs of the ladder, brands *)
(* and axes are the sets Fits.  Of what people do to entries there is the  *)
(* merge of two; splits and renames are left out.                          *)
(***************************************************************************)
EXTENDS Naturals, Sequences, FiniteSets, SequencesExt

CONSTANTS Listing,    \* the ids of the listings, all of condition new
          Unread,     \* those seen by quick passes only: they have no reading
          Entry,      \* variants, in the catalogue or not
          Fits,       \* the entries a listing's signals would find
          Own,        \* the entry that promoting a listing makes
          Promotable, \* listings of a trusted channel with a barcode or all axes
          Limit,      \* the limit of run and of promote_queue
          None,
          Requests,   \* which requests people make
          Handled,    \* bound: the listings they make them for
          Merged,     \* which entries a person may fold into which
          MaxFaults   \* bound: settlings that fail or crash, and merges

ASSUME PlacementAssumption ==
    /\ Listing \subseteq Nat /\ IsFiniteSet(Listing)
    /\ Unread \subseteq Listing
    /\ Fits \in [Listing -> SUBSET Entry] /\ Own \in [Listing -> Entry]
    /\ \A o \in Listing : Own[o] \in Fits[o]
    /\ Promotable \subseteq Listing /\ Handled \subseteq Listing /\ None \notin Entry
    /\ Merged \subseteq Entry \X Entry /\ \A m \in Merged : m[1] # m[2]
    /\ Limit \in Nat /\ MaxFaults \in Nat

VARIABLES
    placed,  \* the variant of a listing's active match, None without one
    by,      \* its decided_by, "rule" without a match
    queue,   \* the listings with a row in match_queue, least recently tried first
    among,   \* the candidates on the row; without any it is signals_unmatched
    snoozed, \* the listings whose row is hidden for now
    entries, \* the catalogue
    fits,    \* the entries a listing's signals find now
    merging, \* the merge under way: from, into, and the listings it moved
    asked,   \* the candidates of the listings the judge is being asked about
    stage,   \* what the settling is doing
    todo,    \* the listings it still has to go through
    linked,  \* what its transaction placed
    found,   \* the candidates on the rows it wrote
    fresh,   \* of these the rows it inserted, which say when it began
    recent,  \* the rows that say they were tried since, be it by others, in order
    made,    \* the entries it made
    since,   \* ghost: listings a request or the judge decided on since it began
    faults   \* settlings that failed and merges begun so far

matches   == <<placed, by>>
rows      == <<queue, among, snoozed>>
catalogue == <<entries, fits, merging>>
overlay   == <<linked, found, fresh, recent>>
settling  == <<stage, todo, linked, found, fresh, made>>
vars      == <<matches, rows, catalogue, asked, settling, recent, since, faults>>

Stage  == {"idle", "first", "sweep", "again"}
Judges == {"rule", "judge", "human"}
Queued == ToSet(queue)
NoLinks == [o \in {} |-> None]
Only(o, e) == [x \in {o} |-> e]
With(f, o, e) == [x \in DOMAIN f \cup {o} |-> IF x = o THEN e ELSE f[x]]
Over(f, g) == [o \in Listing |-> IF o \in DOMAIN f THEN f[o] ELSE g[o]]
NoMerge == [from |-> None, into |-> None, moved |-> {}]

(* The rows of s but those of S, in their order. *)
Without(s, S) ==
    LET rest[i \in 0..Len(s)] ==
            IF i = 0 THEN <<>>
            ELSE IF s[i] \in S THEN rest[i - 1] ELSE Append(rest[i - 1], s[i])
    IN rest[Len(s)]

ById(S) == CHOOSE s \in [1..Cardinality(S) -> S] : \A i, j \in DOMAIN s : i < j => s[i] < s[j]
Top(s) == SubSeq(s, 1, IF Len(s) < Limit THEN Len(s) ELSE Limit)

Init == /\ placed = [o \in Listing |-> None] /\ by = [o \in Listing |-> "rule"]
        /\ queue \in {<<>>} \cup {<<o>> : o \in Unread} \* placed and unlinked by hand
        /\ among = [o \in Listing |-> {}] /\ snoozed = {}
        /\ entries \in SUBSET Entry /\ fits = Fits /\ merging = NoMerge
        /\ asked = NoLinks
        /\ stage = "idle" /\ todo = <<>> /\ linked = NoLinks
        /\ found = NoLinks /\ fresh = {} /\ recent = <<>> /\ made = {}
        /\ since = {} /\ faults = 0

-----------------------------------------------------------------------------
(* The ladder, and what it writes. *)

(* _decide: one entry is a match, none and several are not. *)
Ladder(o, have) == fits[o] \cap have
IsMatch(S) == Cardinality(S) = 1
The(S) == CHOOSE e \in S : TRUE

(* A row that the open settling inserted is not seen by the delete. *)
Dequeue(S) == /\ queue' = Without(queue, S)
              /\ recent' = Without(recent, S \ DOMAIN found)
              /\ among' = [o \in Listing |-> IF o \in S THEN {} ELSE among[o]]
              /\ snoozed' = snoozed \ S

(* _link, for the listings f places: any active match is superseded. *)
Link(f, who) ==
    /\ DOMAIN f \cap merging.moved = {}
    /\ placed' = Over(f, placed)
    /\ by' = [o \in Listing |-> IF o \in DOMAIN f THEN who ELSE by[o]]
    /\ Dequeue(DOMAIN f)

(* _queue: a row that is there keeps its snooze. *)
Requeue(o, S) == /\ queue' = Append(Without(queue, {o}), o)
                 /\ recent' = IF stage = "idle" THEN <<>> ELSE Append(Without(recent, {o}), o)
                 /\ among' = [among EXCEPT ![o] = S]
                 /\ UNCHANGED snoozed

-----------------------------------------------------------------------------
(* The settling: run, promote_queue, run, in one transaction. *)

(* What it sees: what has committed, and its own writes over that.  A row  *)
(* that it inserts is given the time at which the transaction began        *)
(* (last_attempt_at is now() by default), one that it or anybody else      *)
(* updates the time of the moment.                                         *)
Written     == DOMAIN linked \cup DOMAIN found
SeesPlaced(o) == o \in DOMAIN linked \/ placed[o] # None
Untouched   == Without(queue, Written \cup ToSet(recent))
SeesQueue   == Untouched \o ById(fresh) \o recent
SeesAmong(o) == IF o \in DOMAIN found THEN found[o] ELSE among[o]
SeesEntries == entries \cup made

(* Mutant of Pending, for MovesOnlyWhatWaits: placed ones are tried too. *)
PendingPlaced == ById(Listing \ ToSet(SeesQueue)) \o SeesQueue

(* Mutant of Pending, for TriedAgain and FirstComeFirst: by their ids. *)
PendingById == ById({o \in Listing : ~SeesPlaced(o)})

(* run: never tried first, by id, and then the least recently tried. *)
Pending == ById({o \in Listing : ~SeesPlaced(o) /\ o \notin ToSet(SeesQueue)})
           \o Without(SeesQueue, {o \in Listing : SeesPlaced(o)})

SeesSnoozed(o) == o \in snoozed

(* promote_queue: what nothing was found for and nobody set aside. *)
Sweepable == ById({o \in ToSet(SeesQueue) : SeesAmong(o) = {} /\ ~SeesSnoozed(o)})

(* _why_not_promotable: the bar a sweep asks of a listing. *)
Clears(o) == o \in Promotable

(* _variant_from: refused where the entry is there, by its identity key;   *)
(* a request that meets one which is being made waits, and is refused too. *)
CanMake(o) == Own[o] \notin SeesEntries

Proceed == /\ todo' = Tail(todo)
         /\ UNCHANGED <<matches, rows, catalogue, asked, stage, since, faults>>

(* A merge that moved a match has it locked until it ends. *)
Moving(o) == o \in merging.moved

SettleLink(o, e) == /\ ~Moving(o)
                    /\ linked' = With(linked, o, e)
                    /\ found' = [x \in DOMAIN found \ {o} |-> found[x]]
                    /\ fresh' = fresh \ {o} /\ recent' = Without(recent, {o})

SettleQueue(o, S) ==
    /\ found' = With(found, o, S) /\ UNCHANGED linked
    /\ IF o \in ToSet(SeesQueue)
       THEN fresh' = fresh \ {o} /\ recent' = Append(Without(recent, {o}), o)
       ELSE fresh' = fresh \cup {o} /\ UNCHANGED recent

Begin == /\ stage = "idle"
         /\ stage' = "first" /\ todo' = Top(Pending) /\ since' = {}
         /\ UNCHANGED <<matches, rows, catalogue, asked, overlay, made, faults>>

(* run: the list was read once, and a listing is not looked up again. *)
Try == /\ stage \in {"first", "again"} /\ todo # <<>>
       /\ Proceed /\ UNCHANGED made
       /\ LET o == Head(todo)  fit == Ladder(o, SeesEntries)
             IN IF o \in Unread THEN UNCHANGED overlay
                ELSE IF IsMatch(fit) THEN SettleLink(o, The(fit)) ELSE SettleQueue(o, fit)

BeginSweep == /\ stage = "first" /\ todo = <<>>
              /\ stage' = "sweep" /\ todo' = Top(Sweepable)
              /\ UNCHANGED <<matches, rows, catalogue, asked, overlay, made, since, faults>>

EndSettling == /\ stage' = "idle" /\ todo' = <<>> /\ linked' = NoLinks /\ found' = NoLinks
               /\ fresh' = {} /\ recent' = <<>> /\ made' = {}

(* The row was read with the sweep, and is gone: its update finds no row. *)
RowGone(o) == o \notin ToSet(SeesQueue)

SweepUnread == /\ stage = "sweep" /\ todo # <<>> /\ Head(todo) \in Unread
               /\ Proceed /\ UNCHANGED <<overlay, made>>

SweepPlaces ==
    /\ stage = "sweep" /\ todo # <<>> /\ Head(todo) \notin Unread
    /\ LET o == Head(todo)  fit == Ladder(o, SeesEntries)
       IN IsMatch(fit) /\ SettleLink(o, The(fit))
    /\ Proceed /\ UNCHANGED made

(* Not promotable, or its entry is there: the row is all that is written. *)
SweepLeaves ==
    /\ stage = "sweep" /\ todo # <<>> /\ Head(todo) \notin Unread
    /\ LET o == Head(todo)  fit == Ladder(o, SeesEntries)
       IN /\ ~IsMatch(fit) /\ ~RowGone(o)
          /\ ~(Clears(o) /\ CanMake(o))
          /\ SettleQueue(o, fit)
    /\ Proceed /\ UNCHANGED made

(* Mutant of SweepMakes, for TypeOK: an entry that is there is made again. *)
SweepMakesTwice ==
    /\ stage = "sweep" /\ todo # <<>> /\ Head(todo) \notin Unread
    /\ LET o == Head(todo)
           fit == Ladder(o, SeesEntries)
           now == fit \cup {Own[o]}
       IN /\ ~IsMatch(fit) /\ ~RowGone(o)
          /\ Clears(o)
          /\ made' = made \cup {Own[o]}
          /\ IF IsMatch(now) THEN SettleLink(o, Own[o]) ELSE SettleQueue(o, now)
    /\ Proceed

(* Its entry is made, and the ladder goes once more. *)
SweepMakes ==
    /\ stage = "sweep" /\ todo # <<>> /\ Head(todo) \notin Unread
    /\ LET o == Head(todo)
           fit == Ladder(o, SeesEntries)
           now == fit \cup {Own[o]}
       IN /\ ~IsMatch(fit) /\ ~RowGone(o)
          /\ Clears(o) /\ CanMake(o)
          /\ made' = made \cup {Own[o]}
          /\ IF IsMatch(now) THEN SettleLink(o, Own[o]) ELSE SettleQueue(o, now)
    /\ Proceed

SweepFails ==
    /\ stage = "sweep" /\ todo # <<>> /\ Head(todo) \notin Unread
    /\ RowGone(Head(todo)) /\ ~IsMatch(Ladder(Head(todo), SeesEntries))
    /\ EndSettling
    /\ UNCHANGED <<matches, rows, catalogue, asked, since, faults>>

BeginAgain == /\ stage = "sweep" /\ todo = <<>>
              /\ stage' = "again" /\ todo' = Top(Pending)
              /\ UNCHANGED <<matches, rows, catalogue, asked, overlay, made, since, faults>>

(* Mutant of Commit, for OneAnswer: the row of a listing that was placed   *)
(* stays.                                                                  *)
CommitRowsStay ==
    /\ stage = "again" /\ todo = <<>>
    /\ placed' = Over(linked, placed)
    /\ by' = [o \in Listing |-> IF o \in DOMAIN linked THEN "rule" ELSE by[o]]
    /\ queue' = Without(queue, DOMAIN found \cup ToSet(recent)) \o ById(fresh) \o recent
    /\ among' = [o \in Listing |-> SeesAmong(o)]
    /\ UNCHANGED snoozed
    /\ entries' = SeesEntries
    /\ EndSettling
    /\ UNCHANGED <<fits, merging, asked, since, faults>>

Commit ==
    /\ stage = "again" /\ todo = <<>>
    /\ placed' = Over(linked, placed)
    /\ by' = [o \in Listing |-> IF o \in DOMAIN linked THEN "rule" ELSE by[o]]
    /\ queue' = SeesQueue
    /\ among' = [o \in Listing |-> IF o \in DOMAIN linked THEN {} ELSE SeesAmong(o)]
    /\ snoozed' = snoozed \ DOMAIN linked
    /\ entries' = SeesEntries
    /\ EndSettling
    /\ UNCHANGED <<fits, merging, asked, since, faults>>

(* A statement fails or the scheduler goes away: nothing of it is kept.    *)
(* (One that fails is a link to an entry that a merge has deleted since    *)
(* the ladder found it, or that waits for a merge which waits for it.)     *)
Abort == /\ stage # "idle" /\ faults < MaxFaults
         /\ faults' = faults + 1
         /\ EndSettling
         /\ UNCHANGED <<matches, rows, catalogue, asked, since>>

-----------------------------------------------------------------------------
(* The requests of people. *)

(* The settling wrote the match or the row that is there. *)
Locked(o) == o \in DOMAIN linked \/ (o \in DOMAIN found /\ o \in Queued)

(* It inserted a row: another insert waits, a delete does not see it. *)
Inserted(o) == o \in DOMAIN found /\ o \notin Queued

Touch(S) == since' = IF stage = "idle" THEN {} ELSE since \cup S

Request(kind, o) == kind \in Requests /\ ~Locked(o) /\ Touch({o})
                    /\ UNCHANGED <<asked, settling, faults>>

(* set_manually *)
SetManually(o, e) == /\ Request("set_manually", o)
                     /\ e \in entries
                     /\ Link(Only(o, e), "human")
                     /\ UNCHANGED catalogue

(* keep_doubted: the same entry, now a person's. *)
Keep(o) == /\ Request("keep", o)
           /\ placed[o] # None /\ by[o] = "rule"
           /\ Link(Only(o, placed[o]), "human")
           /\ UNCHANGED catalogue

(* Mutant of Unlink, for NeverNowhere: no row is written back. *)
UnlinkUnqueued(o) == /\ Request("unlink", o)
                     /\ placed[o] # None /\ ~Inserted(o) /\ ~Moving(o)
                     /\ placed' = [placed EXCEPT ![o] = None]
                     /\ by' = [by EXCEPT ![o] = "rule"]
                     /\ UNCHANGED <<rows, recent, catalogue>>

(* unlink: back to the queue, as signals_unmatched. *)
Unlink(o) == /\ Request("unlink", o)
             /\ placed[o] # None /\ ~Inserted(o) /\ ~Moving(o)
             /\ placed' = [placed EXCEPT ![o] = None]
             /\ Requeue(o, {})
             /\ by' = [by EXCEPT ![o] = "rule"]
             /\ UNCHANGED catalogue

Snooze(o) == /\ Request("snooze", o)
             /\ o \in Queued
             /\ snoozed' = snoozed \cup {o}
             /\ UNCHANGED <<matches, queue, among, recent, catalogue>>

(* unsnooze *)
Unsnooze(o) == /\ Request("snooze", o)
               /\ o \in snoozed
               /\ snoozed' = snoozed \ {o}
               /\ UNCHANGED <<matches, queue, among, recent, catalogue>>

(* snoozed_until passes; a settling keeps the time at which it began. *)
Wakes(o) == /\ stage = "idle" /\ o \in snoozed
            /\ snoozed' = snoozed \ {o}
            /\ UNCHANGED <<matches, queue, among, recent, catalogue, asked, settling, since, faults>>

(* match_offer: the ladder on one listing, placed or not. *)
MatchOffer(o) ==
    /\ Request("match", o)
    /\ o \notin Unread
    /\ LET fit == Ladder(o, entries)
       IN \/ IsMatch(fit) /\ Link(Only(o, The(fit)), "rule")
          \/ ~IsMatch(fit) /\ ~Inserted(o) /\ Requeue(o, fit) /\ UNCHANGED matches
    /\ UNCHANGED catalogue

(* promote: its entry is made whatever else fits, and then the ladder. *)
Promote(o) ==
    /\ Request("promote", o)
    /\ o \notin Unread /\ CanMake(o)
    /\ entries' = entries \cup {Own[o]} /\ UNCHANGED <<fits, merging>>
    /\ LET fit == Ladder(o, entries')
       IN \/ IsMatch(fit) /\ Link(Only(o, The(fit)), "rule")
          \/ ~IsMatch(fit) /\ ~Inserted(o) /\ Requeue(o, fit) /\ UNCHANGED matches

(* merge_variants: the matches of an entry it sees go over to another. One *)
(* that the open settling has superseded it would wait for.                *)
BeginMerge(e, f) ==
    /\ merging = NoMerge /\ faults < MaxFaults
    /\ <<e, f>> \in Merged /\ {e, f} \subseteq entries
    /\ \A o \in DOMAIN linked : placed[o] # e
    /\ merging' = [from |-> e, into |-> f, moved |-> {o \in Listing : placed[o] = e}]
    /\ faults' = faults + 1
    /\ UNCHANGED <<matches, rows, entries, fits, asked, settling, recent, since>>

(* Mutant of AfterMerge, for PlacedStaysPlaced: nothing was moved.         *)
AfterDelete(o) == IF placed[o] = merging.from THEN None ELSE placed[o]

(* A match the entry was given since goes with it: on delete cascade.      *)
AfterMerge(o) == IF placed[o] # merging.from THEN placed[o]
                 ELSE IF Moving(o) THEN merging.into ELSE None

(* Then the entry is deleted, once no transaction holds on to it by a      *)
(* match it wrote. What found it finds the other, which has its            *)
(* identifiers.                                                            *)
EndMerge ==
    /\ merging # NoMerge
    /\ \A o \in DOMAIN linked : linked[o] # merging.from
    /\ placed' = [o \in Listing |-> AfterMerge(o)]
    /\ by' = [o \in Listing |-> IF placed'[o] = None THEN "rule" ELSE by[o]]
    /\ entries' = entries \ {merging.from}
    /\ fits' = [o \in Listing |-> IF merging.from \in fits[o]
                                  THEN fits[o] \cup {merging.into} ELSE fits[o]]
    /\ merging' = NoMerge
    /\ UNCHANGED <<rows, asked, settling, recent, since, faults>>

(* The request is cut off, or the database ends it to end a deadlock.      *)
MergeFails == /\ merging # NoMerge /\ merging' = NoMerge
              /\ UNCHANGED <<matches, rows, entries, fits, asked, settling, recent, since, faults>>

-----------------------------------------------------------------------------
(* The judge. *)

(* judge_ambiguous: the rows are read and their questions sent. *)
Ask == /\ "judge" \in Requests /\ asked = NoLinks
       /\ LET some == {o \in Queued \ Unread : Cardinality(among[o]) > 1}
          IN some # {} /\ asked' = [o \in some |-> among[o]]
       /\ UNCHANGED <<matches, rows, catalogue, settling, recent, since, faults>>

(* Each that was answered with enough confidence is placed, as it is now.  *)
(* (An answer that names an entry gone since fails them all.)              *)
Answer ==
    /\ asked # NoLinks
    /\ \E some \in SUBSET DOMAIN asked : \E f \in [some -> UNION {asked[o] : o \in DOMAIN asked}] :
          /\ \A o \in some : f[o] \in asked[o] \cap entries /\ ~Locked(o)
          /\ Link(f, "judge")
          /\ Touch(some)
    /\ asked' = NoLinks
    /\ UNCHANGED <<catalogue, settling, faults>>

-----------------------------------------------------------------------------
Settle == Begin \/ Try \/ BeginSweep \/ SweepUnread \/ SweepPlaces \/ SweepLeaves
          \/ SweepMakes \/ SweepFails \/ BeginAgain \/ Commit

ByHand(o) == \/ \E e \in Entry : SetManually(o, e)
             \/ Keep(o) \/ Unlink(o) \/ Snooze(o) \/ Unsnooze(o) \/ Wakes(o)
             \/ MatchOffer(o) \/ Promote(o)

Next == \/ Settle \/ Abort \/ Ask \/ Answer
        \/ \E o \in Handled : ByHand(o)
        \/ \E e, f \in Entry : BeginMerge(e, f)
        \/ EndMerge \/ MergeFails

Spec == Init /\ [][Next]_vars

(* Runs go on ending, and each is settled; a request ends.                 *)
FairSpec == Spec /\ WF_vars(Settle) /\ WF_vars(EndMerge \/ MergeFails)

-----------------------------------------------------------------------------
(* Types, and that the parts of a row come and go together. *)
TypeOK ==
    /\ placed \in [Listing -> Entry \cup {None}] /\ by \in [Listing -> Judges]
    /\ queue \in Seq(Listing) /\ Cardinality(Queued) = Len(queue)
    /\ among \in [Listing -> SUBSET Entry]
    /\ \A o \in Listing \ Queued : among[o] = {}
    /\ snoozed \subseteq Queued
    /\ entries \subseteq Entry /\ fits \in [Listing -> SUBSET Entry]
    /\ merging # NoMerge =>
          /\ merging.from \in entries /\ merging.into \in entries
          /\ \A o \in merging.moved : placed[o] = merging.from
    /\ \A o \in Listing : placed[o] # None => placed[o] \in entries
    /\ DOMAIN asked \subseteq Listing
    /\ stage \in Stage /\ todo \in Seq(Listing)
    /\ stage = "idle" => Written = {} /\ recent = <<>> /\ made = {} /\ todo = <<>>
    /\ DOMAIN linked \cap DOMAIN found = {} /\ fresh \cap (Queued \cup ToSet(recent)) = {}
    /\ recent \in Seq(Listing) /\ DOMAIN found \subseteq fresh \cup ToSet(recent)
    /\ fresh \cup ToSet(recent) \subseteq DOMAIN found \cup (Queued \ DOMAIN linked)
    /\ made \subseteq Entry \ entries
    /\ since \subseteq Listing /\ faults \in 0..MaxFaults

(* It was placed on an entry that was being merged away at the time. *)
GoesWithTheEntry(o) == EndMerge /\ placed[o] = merging.from /\ ~Moving(o)

Both(o) == placed[o] # None /\ o \in Queued

(* A settling leaves a listing that nobody decided on meanwhile with one   *)
(* answer: what it writes while others place and unlink adds no second one *)
(* to it.                                                                  *)
OneAnswer == [][stage = "again" /\ stage' = "idle" =>
                  \A o \in Listing \ since : ~Both(o) => ~Both(o)']_vars

(* What a person, the judge or an earlier pass placed stays where it is    *)
(* put: a settling moves, or takes over, only what still waits in the      *)
(* queue beside its match, and what was decided on while it went.  That    *)
(* its list was read once, minutes before, lets in nothing else.           *)
MovesOnlyWhatWaits ==
    [][stage = "again" /\ stage' = "idle" =>
        \A o \in Listing \ since :
            placed[o] # None /\ o \notin Queued => placed'[o] = placed[o] /\ by'[o] = by[o]]_vars

(* Only a person takes a listing out of the catalogue: no later miss of    *)
(* the ladder does, whatever was decided between its reading and writing.  *)
(* A merge takes out those alone that were put on the entry while it was   *)
(* being folded, be it by a settling that began before.                    *)
PlacedStaysPlaced ==
    [][\A o \in Listing : placed[o] # None =>
          placed'[o] # None \/ Unlink(o) \/ GoesWithTheEntry(o)]_vars

(* A listing that was tried once is placed or in the queue from then on:   *)
(* nobody has to find it by the lack of both, unless a merge took it along *)
(* with the entry it had just been put on.                                 *)
NeverNowhere ==
    [][\A o \in Listing : placed[o] # None \/ o \in Queued
          => placed'[o] # None \/ o \in Queued' \/ GoesWithTheEntry(o)]_vars

Before(s, o, p) == \E i, j \in DOMAIN s : i < j /\ s[i] = o /\ s[j] = p

PassBegins == stage' \in {"first", "again"} /\ stage' # stage

Tried(o) == \/ Commit /\ o \in DOMAIN found
            \/ MatchOffer(o) \/ Promote(o) \/ Unlink(o)

KeepsItsTurn(o, p) == Before(queue, o, p) /\ {o, p} \subseteq Queued'
                      => Before(queue', o, p) \/ Tried(o)

GoesFirst(o, p) == o \notin ToSet(SeesQueue) \/ Before(SeesQueue, o, p)

TakenInTurn(o, p) ==
    PassBegins /\ p \in ToSet(todo') \cap ToSet(SeesQueue) /\ ~SeesPlaced(o) /\ GoesFirst(o, p)
    => Before(todo', o, p)

(* "A pass takes the least recently tried first, the never tried before    *)
(* anything" (matching/README.md:267): of two rows the one that is behind  *)
(* gets ahead only as the other is tried, whatever a settling writes back  *)
(* over what people did meanwhile; and a pass that takes a row takes,      *)
(* before it, what is ahead of it and was never tried at all.              *)
FirstComeFirst ==
    [][\A o, p \in Listing : KeepsItsTurn(o, p) /\ TakenInTurn(o, p)]_vars

(* Every listing that can be read is tried again and again until it is     *)
(* placed, however many wait before it (matching/README.md:270): by        *)
(* settlings, or by the people who keep trying it and so set it back.      *)
TriedAgain ==
    \A o \in Listing \ Unread : \/ []<>(placed[o] # None \/ o \in Written)
                                \/ []<><<MatchOffer(o) \/ Promote(o)>>_vars

-----------------------------------------------------------------------------
(* What the documentation says and the code does not keep.                 *)

(* "It survives the next pass as every human decision does"                *)
(* (matching/README.md:281): a settling moves nothing that a person had    *)
(* placed before it began.                                                 *)
HumanSurvives ==
    [][stage = "again" /\ stage' = "idle" =>
        \A o \in Listing \ since :
            placed[o] # None /\ by[o] = "human" => placed'[o] = placed[o]]_vars

(* "A human override survives the next pass" (db/models.py:1312): a pass   *)
(* of the judge moves no listing that a person has placed, be it before    *)
(* the question was asked or while its answer was waited for.              *)
HumanOutlastsJudge ==
    [][\A o \in Listing : by[o] = "human" /\ by'[o] = "judge" => placed'[o] = placed[o]]_vars
=============================================================================
