----------------------------- MODULE Catalogue ------------------------------
(***************************************************************************)
(* The entries of the catalogue in one brand and category, what tells them *)
(* apart, and everything that changes it: a listing finding its entry or   *)
(* becoming one, people's edits, merges, the rebuild and the split.        *)
(*                                                                         *)
(* Every action is one request or one listing of a pass, alone; Placement  *)
(* has the transactions that overlap.  The catalogue is one value that the *)
(* operations map to another, as the code's savepoints take back what an   *)
(* inner operation did: an outcome with a twin is the code's               *)
(* ConflictError identity_taken, which names the entry that has the key.   *)
(***************************************************************************)
EXTENDS Naturals, FiniteSets, Sequences, SequencesExt

CONSTANTS Offer,       \* listings
          Model,       \* normalized model strings
          Axis,        \* enum attributes
          Value,       \* canonical values of each of them
          Shown,       \* the values a title shows (in_title)
          Gtin,        \* barcodes
          AtFirst,     \* readings listings may have at first
          Unknown,     \* nothing: no barcode, model, value, key or entry
          Bearing,     \* axes that bear identity at first
          MayBear,     \* axes whose bearing people change
          Strict,      \* category.model_match_needs_full_identity
          Limit,       \* how much a rebuild takes on
          MaxEntries,  \* bound: ids handed out
          MaxChanged   \* bound: edits by people and changes of a reading

Entry   == 1..MaxEntries
Reading == [gtin: Gtin \cup {Unknown}, model: Model \cup {Unknown},
            axes: [Axis -> Value \cup {Unknown}]]
Key     == [model: Model, axes: UNION {[B -> Value] : B \in SUBSET Axis}]

ASSUME CatalogueAssumption ==
    /\ Unknown \notin Model \cup Value \cup Gtin \cup Nat \cup {"rule", "stated"}
    /\ Unknown \notin {"unmatched", "unsure", "ambiguous"} /\ Unknown \notin Key
    /\ IsFiniteSet(Offer) /\ IsFiniteSet(Axis) /\ IsFiniteSet(Value)
    /\ Shown \subseteq Value /\ Bearing \subseteq Axis /\ MayBear \subseteq Axis
    /\ AtFirst \subseteq Reading /\ Strict \in BOOLEAN
    /\ Limit \in Nat \ {0} /\ MaxEntries \in Nat /\ MaxChanged \in Nat

VARIABLES
    readings,  \* the newest reading of a listing
    cat,       \* the catalogue, see Catalogue0
    bearing,   \* axes of category_attributes with identity_bearing
    changes    \* people's edits and changed readings so far

catVars == <<readings, cat, bearing, changes>>

(* Rows: which entries there are, the model, axes, key and barcodes with   *)
(* their origin of each, where each listing is placed, whether it is in    *)
(* match_queue and as what, and variant_merges.                            *)
Catalogue0 ==
    [made   |-> 0,
     live   |-> {},
     model  |-> [e \in Entry |-> Unknown],
     axes   |-> [e \in Entry |-> [a \in Axis |-> Unknown]],
     key    |-> [e \in Entry |-> Unknown],
     gtins  |-> [e \in Entry |-> [g \in Gtin |-> Unknown]],
     on     |-> [o \in Offer |-> Unknown],
     queued |-> [o \in Offer |-> Unknown],
     merges |-> {}]

Holds(c, g) == {e \in c.live : g # Unknown /\ c.gtins[e][g] # Unknown}
On(c, e)    == {o \in Offer : c.on[o] = e}

-----------------------------------------------------------------------------
(* catalog/service.py *)

(* compute_identity_key: none unless every identity-bearing axis is known. *)
KeyOf(c, e) == IF \E a \in bearing : c.axes[e][a] = Unknown THEN Unknown
               ELSE [model |-> c.model[e], axes |-> [a \in bearing |-> c.axes[e][a]]]

Twins(c, e) == IF KeyOf(c, e) = Unknown THEN {}
               ELSE {f \in c.live \ {e} : c.key[f] = KeyOf(c, e)}

Done(c)     == [cat |-> c, twin |-> Unknown]
Clash(c, f) == [cat |-> c, twin |-> f]

(* Mutant of Regenerate, for KeyIsRight: an entry that lost an axis keeps  *)
(* the key it had.                                                         *)
RegenerateGained(c, e) ==
    IF Twins(c, e) # {} THEN Clash(c, CHOOSE f \in Twins(c, e) : TRUE)
    ELSE Done(IF KeyOf(c, e) = Unknown THEN c ELSE [c EXCEPT !.key[e] = KeyOf(c, e)])

(* _regenerate: the key is asked for before it is written, so what was     *)
(* flushed before stays when it is taken.                                  *)
Regenerate(c, e) ==
    IF Twins(c, e) # {} THEN Clash(c, CHOOSE f \in Twins(c, e) : TRUE)
    ELSE Done([c EXCEPT !.key[e] = KeyOf(c, e)])

SetAxis(c, e, a, v) == Regenerate([c EXCEPT !.axes[e][a] = v], e)
SetModel(c, e, m)   == Regenerate([c EXCEPT !.model[e] = m], e)

(* One axis of e after another, until one makes it an entry that exists;   *)
(* what was set by then stays.                                             *)
SetAxes(start, e, order, said) ==
    LET upto[i \in 0..Len(order)] ==
            IF i = 0 THEN start
            ELSE LET done == upto[i - 1]
                 IN IF done.twin # Unknown THEN done
                    ELSE SetAxis(done.cat, e, order[i], said[order[i]])
    IN upto[Len(order)]

(* create_variant, of the next id.                                         *)
New(c, m) == Regenerate([c EXCEPT !.made = @ + 1, !.live = @ \cup {c.made + 1},
                                  !.model[c.made + 1] = m], c.made + 1)

(* A row and all that the foreign keys delete with it; the listings have   *)
(* been moved by then. A forwarding note that leads to it goes too.        *)
Delete(c, e) ==
    [c EXCEPT !.live = @ \ {e},
              !.model[e] = Unknown, !.key[e] = Unknown,
              !.axes[e] = [a \in Axis |-> Unknown],
              !.gtins[e] = [g \in Gtin |-> Unknown],
              !.merges = {m \in @ : m[2] # e}]

(* Mutant of Merge, for BarcodesStay: the loser's barcodes go with it. *)
MergeWithoutCodes(c, from, into) ==
    LET moved == [c EXCEPT
            !.on   = [o \in Offer |-> IF @[o] = from THEN into ELSE @[o]],
            !.axes[into]  = [a \in Axis |-> IF @[a] = Unknown THEN c.axes[from][a] ELSE @[a]]]
        folded == Delete(moved, from)
    IN Regenerate([folded EXCEPT !.merges = @ \cup {<<from, into>>}], into)

(* merge_variants: listings, identifiers and the axes the survivor lacks   *)
(* go over, the loser goes, a forwarding note stays.                       *)
Merge(c, from, into) ==
    LET moved == [c EXCEPT
            !.on   = [o \in Offer |-> IF @[o] = from THEN into ELSE @[o]],
            !.gtins[into] = [g \in Gtin |-> IF @[g] = Unknown THEN c.gtins[from][g] ELSE @[g]],
            !.axes[into]  = [a \in Axis |-> IF @[a] = Unknown THEN c.axes[from][a] ELSE @[a]]]
        folded == Delete(moved, from)
    IN Regenerate([folded EXCEPT !.merges = @ \cup {<<from, into>>}], into)

(* Inside a savepoint: all of it, or nothing.                              *)
Try(c, outcome) == IF outcome.twin = Unknown THEN outcome.cat ELSE c

-----------------------------------------------------------------------------
(* matching/service.py, the ladder *)

Says(r)        == {a \in Axis : r.axes[a] # Unknown}
Shared(c, e, r) == {a \in Says(r) : c.axes[e][a] # Unknown}

(* _identity_agrees. A listing that names no axis has nothing to check     *)
(* with, and every candidate agrees.                                       *)
Agrees(c, e, r) == \/ Says(r) = {}
                   \/ Shared(c, e, r) # {} /\ \A a \in Shared(c, e, r) : c.axes[e][a] = r.axes[a]
Unverifiable(c, e, r) == Says(r) # {} /\ Shared(c, e, r) = {}
Complete(c, e, r) == /\ Says(r) # {} /\ Agrees(c, e, r)
                     /\ (IF bearing = {} THEN Says(r) ELSE bearing) \subseteq Shared(c, e, r)

(* _by_gtin and _retire_learned: a learned barcode yields to axes that do  *)
(* not agree.                                                              *)
ByGtin(c, r) == {e \in Holds(c, r.gtin) :
                    c.gtins[e][r.gtin] = "stated" \/ Agrees(c, e, r)}
ByModel(c, r) == {e \in c.live : c.model[e] = r.model}

(* What the model rung is left with: those that agree, in a strict         *)
(* category completely; of several, the only complete one.                 *)
Candidates(c, r) ==
    LET agreed   == {e \in ByModel(c, r) : Agrees(c, e, r) /\ (Strict => Complete(c, e, r))}
        complete == {e \in agreed : Complete(c, e, r)}
    IN IF Cardinality(agreed) > 1 /\ Cardinality(complete) = 1 THEN complete ELSE agreed

(* _reconcile: the gaps are filled, until the last one makes it an entry   *)
(* that exists; what was filled by then stays.                             *)
Reconcile(c, e, r) ==
    LET gaps == SetToSeq({a \in Says(r) : c.axes[e][a] = Unknown})
    IN SetAxes(Done(c), e, gaps, r.axes).cat

(* _learn_gtin, of a match that weighed every axis.                        *)
Learn(c, e, r) == IF r.gtin = Unknown \/ ~Complete(c, e, r) THEN c
                  ELSE [c EXCEPT !.gtins[e][r.gtin] = "rule"]

(* _link and _queue. What a listing is queued as matters to the promotion  *)
(* alone, which takes the ones nothing was found for.                      *)
Linked(c, o, e)  == [c EXCEPT !.on[o] = e, !.queued[o] = Unknown]
Queued(c, o, as) == [c EXCEPT !.queued[o] = as]

(* _decide: the barcode, then the model. A listing that is queued stays    *)
(* where it is. The part number's rung is the model's with another key and *)
(* is not drawn a second time.                                             *)
Decide(c, o, r) ==
    LET found == ByGtin(c, r)
        named == IF r.model = Unknown THEN {} ELSE Candidates(c, r)
    IN CASE Cardinality(found) = 1 ->
              LET e == CHOOSE f \in found : TRUE IN Reconcile(Linked(c, o, e), e, r)
         [] found = {} /\ Cardinality(named) = 1 ->
              LET e == CHOOSE f \in named : TRUE
              IN Reconcile(Learn(Linked(c, o, e), e, r), e, r)
         [] found \cup named = {} ->
              Queued(c, o, IF ~Strict /\ \E e \in ByModel(c, r) : Unverifiable(c, e, r)
                           THEN "unsure" ELSE "unmatched")
         [] OTHER -> Queued(c, o, "ambiguous")

(* _why_not_promotable of a trusted channel, and what _variant_from needs. *)
Promotable(c, r) ==
    /\ r.model # Unknown /\ c.made < MaxEntries
    /\ r.gtin # Unknown \/ (bearing # {} /\ bearing \subseteq Says(r))

(* Mutant of MadeFrom, for NotMadeInVain: its barcode is not written.      *)
MadeWithoutCode(c, r) ==
    LET new == New(c, r.model)
        e   == c.made + 1
    IN IF new.twin # Unknown THEN new ELSE SetAxes(new, e, SetToSeq(Says(r)), r.axes)

(* _variant_from: an entry with all this listing knows. A barcode it was   *)
(* made with is stated; IdentifierCreate's origin is a person's by default. *)
MadeFrom(c, r) ==
    LET new  == New(c, r.model)
        e    == c.made + 1
        code == IF r.gtin = Unknown THEN new.cat ELSE [new.cat EXCEPT !.gtins[e][r.gtin] = "stated"]
    IN IF new.twin # Unknown THEN new ELSE SetAxes(Done(code), e, SetToSeq(Says(r)), r.axes)

(* One listing of _promote_rows: the ladder; an entry of its own if that   *)
(* found none and the listing clears the bar; and the ladder again.        *)
Promoted(c, o) ==
    LET tried == Decide(c, o, readings[o])
        made  == MadeFrom(tried, readings[o])
    IN IF tried.queued[o] = Unknown \/ ~Promotable(tried, readings[o]) \/ made.twin # Unknown
       THEN tried
       ELSE Decide(made.cat, o, readings[o])

-----------------------------------------------------------------------------
(* matching/service.py, merges, rebuild and split *)

(* _axes_differ *)
Differ(c, e, f) == {a \in bearing : /\ c.axes[e][a] # Unknown /\ c.axes[f][a] # Unknown
                                    /\ c.axes[e][a] # c.axes[f][a]}

(* merge_duplicates: of the two entries that listings with one barcode are *)
(* on, the one that holds the barcode survives, or the fuller one.         *)
Sits(c, g) == {c.on[o] : o \in {p \in Offer : readings[p].gtin = g}} \ {Unknown}
Survivors(c, g) ==
    LET two == Sits(c, g)
    IN IF two \cap Holds(c, g) # {} THEN two \cap Holds(c, g)
       ELSE {e \in two : \A f \in two : Cardinality(On(c, e)) > Cardinality(On(c, f))
                            \/ (Cardinality(On(c, e)) = Cardinality(On(c, f)) /\ e <= f)}
Folded(c, g, into) ==
    LET from == CHOOSE e \in Sits(c, g) : e # into
    IN IF Differ(c, from, into) # {} THEN c ELSE Try(c, Merge(c, from, into))

(* Where setting an axis or a model makes an entry one that exists, the    *)
(* two are merged; a merge that fails leaves both.                         *)
OrMerged(c, e, outcome) ==
    IF outcome.twin = Unknown THEN outcome.cat
    ELSE Try(c, Merge(c, e, outcome.twin))

AxesSaid(c, e, a) == {readings[o].axes[a] : o \in On(c, e)}

(* _stale_axes: an axis the entry holds and every listing that states it   *)
(* states another way, then one it lacks and every listing states one way. *)
IsStale(c, e, a) ==
    /\ On(c, e) # {}
    /\ IF c.axes[e][a] # Unknown
       THEN /\ Cardinality(AxesSaid(c, e, a) \ {Unknown}) = 1
            /\ c.axes[e][a] \notin AxesSaid(c, e, a)
       ELSE Cardinality(AxesSaid(c, e, a)) = 1 /\ Unknown \notin AxesSaid(c, e, a)
StaleAxes(c) == {at \in c.live \X bearing : IsStale(c, at[1], at[2])}
HeldFirst(c, order) == \A i \in DOMAIN order : \A j \in 1..i :
    c.axes[order[i][1]][order[i][2]] # Unknown => c.axes[order[j][1]][order[j][2]] # Unknown
NewValue(c, e, a) == CHOOSE v \in AxesSaid(c, e, a) \ {Unknown} : TRUE

(* _stale_names: nobody reads the name it has; the most read one is taken. *)
ModelsSaid(c, e) == {readings[o].model : o \in On(c, e)} \ {Unknown}
Votes(c, e, m)   == Cardinality({o \in On(c, e) : readings[o].model = m})
StaleNames(c)    == {e \in c.live : ModelsSaid(c, e) # {} /\ c.model[e] \notin ModelsSaid(c, e)}
NewName(c, e)    == CHOOSE m \in ModelsSaid(c, e) :
                        \A other \in ModelsSaid(c, e) : Votes(c, e, other) <= Votes(c, e, m)

First(s) == SubSeq(s, 1, IF Len(s) < Limit THEN Len(s) ELSE Limit)

Realigned(c, stale) ==
    LET Move(d, e, a) == IF e \notin d.live THEN d
                         ELSE OrMerged(d, e, SetAxis(d, e, a, NewValue(c, e, a)))
        upto[i \in 0..Len(stale)] ==
            IF i = 0 THEN c ELSE Move(upto[i - 1], stale[i][1], stale[i][2])
    IN upto[Len(stale)]
Renamed(c) ==
    LET due == {e \in StaleNames(c) : Cardinality({f \in StaleNames(c) : f < e}) < Limit}
        Call(d, e) == IF e \notin due \cap d.live THEN d
                      ELSE OrMerged(d, e, SetModel(d, e, NewName(c, e)))
        upto[e \in 0..MaxEntries] == IF e = 0 THEN c ELSE Call(upto[e - 1], e)
    IN upto[MaxEntries]

(* Mutant of Rebuilt, for RebuildKeepsApart: the names go first. *)
RebuiltNamesFirst(c, order) == Realigned(Renamed(c), First(order))

(* rebuild_named_from_a_stale_reading: the axes before the names, and no   *)
(* name while there may be axes left over. Families has what follows.       *)
Rebuilt(c, order) ==
    LET axes == First(order)
        done == Realigned(c, axes)
    IN IF Len(axes) < Limit THEN Renamed(done) ELSE done

(* _split_candidates: the entries whose listings all state an axis the     *)
(* entry lacks, and do not agree on it.                                    *)
Splittable(c, e, a) == /\ a \in bearing /\ c.axes[e][a] = Unknown
                       /\ Unknown \notin AxesSaid(c, e, a)
                       /\ Cardinality(AxesSaid(c, e, a)) > 1

(* On one barcode the value a title shows beats the one it does not; two   *)
(* shown ones leave the entry alone.                                       *)
Under(c, e, a, g) == {readings[o].axes[a] : o \in {p \in On(c, e) : readings[p].gtin = g}}
Torn(c, e, a)     == \E g \in Gtin : Cardinality(Under(c, e, a, g) \cap Shown) > 1
Carries(c, e, a, o) ==
    LET g == readings[o].gtin
    IN IF g = Unknown THEN readings[o].axes[a]
       ELSE IF Under(c, e, a, g) \cap Shown # {}
            THEN CHOOSE v \in Under(c, e, a, g) \cap Shown : TRUE
            ELSE CHOOSE v \in Under(c, e, a, g) : TRUE
Group(c, e, a, v) == {o \in On(c, e) : Carries(c, e, a, o) = v}

(* _twin_with: the entry this one would be with the axis at v, made unless *)
(* the axes of the one they make are those of an entry that exists.        *)
TwinWith(c, e, a, v) ==
    LET f    == c.made + 1
        new  == New(c, c.model[e]).cat
        axes == SetToSeq({b \in Axis : c.axes[e][b] # Unknown}) \o <<a>>
        made == SetAxes(Done(new), f, axes, [c.axes[e] EXCEPT ![a] = v])
    IN IF made.twin = Unknown THEN [cat |-> made.cat, into |-> f]
                           ELSE [cat |-> c, into |-> made.twin]

(* The listings of v go to that entry, and their barcodes as learned ones. *)
Moved(c, e, a, group, v) ==
    LET twin  == TwinWith(c, e, a, v)
        codes == {readings[o].gtin : o \in group} \ {Unknown}
    IN [twin.cat EXCEPT
            !.on = [o \in Offer |-> IF o \in group THEN twin.into ELSE @[o]],
            !.gtins = [f \in Entry |-> [g \in Gtin |->
                IF g \notin codes THEN @[f][g]
                ELSE CASE f = e -> Unknown
                       [] f = twin.into /\ @[f][g] = Unknown -> "rule"
                       [] OTHER -> @[f][g]]]]

(* _split: most listings keep the entry, a tie keeps a value no title      *)
(* shows; it is given that value, or merged into the entry that has it.    *)
Split(c, e, a) ==
    LET values == {Carries(c, e, a, o) : o \in On(c, e)}
        size(v) == Cardinality(Group(c, e, a, v))
        kept   == CHOOSE v \in values : \A w \in values :
                    size(v) > size(w) \/ (size(v) = size(w) /\ (v \notin Shown \/ w \in Shown))
        others == SetToSeq(values \ {kept})
        upto[i \in 0..Len(others)] ==
            IF i = 0 THEN c
            ELSE Moved(upto[i - 1], e, a, Group(c, e, a, others[i]), others[i])
        parted == upto[Len(others)]
        given  == SetAxis(parted, e, a, kept)
    IN IF given.twin = Unknown THEN given.cat
       ELSE LET merged == Merge(parted, e, given.twin)
            IN IF merged.twin = Unknown THEN merged.cat ELSE c

-----------------------------------------------------------------------------
CatInit ==
    /\ readings \in [Offer -> AtFirst]
    /\ cat = Catalogue0
    /\ bearing = Bearing
    /\ changes = 0

Changed == changes < MaxChanged /\ changes' = changes + 1
Becomes(c) == cat' = c /\ UNCHANGED <<readings, bearing>>

(* A request that meets a twin is refused whole. *)
Edit(outcome) == outcome.twin = Unknown /\ Becomes(outcome.cat)

(* The shop, or a rule, gives the listing another reading. *)
ReadAgain(o) == /\ Changed
             /\ \E r \in Reading : r # readings[o] /\ readings' = [readings EXCEPT ![o] = r]
             /\ UNCHANGED <<cat, bearing>>

(* A pass of the ladder, of a listing that has no entry; a person asks for *)
(* any one again. A pass of the promotion, of one that nothing was found   *)
(* for when it was queued.                                                 *)
Place(o)   == Becomes(Decide(cat, o, readings[o])) /\ UNCHANGED changes
Promote(o) == cat.queued[o] = "unmatched" /\ Becomes(Promoted(cat, o)) /\ UNCHANGED changes

Create == /\ cat.made < MaxEntries
          /\ \E m \in Model : Changed /\ Edit(New(cat, m))
Set(e) == \E a \in Axis, v \in Value \cup {Unknown} : /\ cat.axes[e][a] # v
                                                   /\ Changed /\ Edit(SetAxis(cat, e, a, v))
Rename(e) == \E m \in Model : m # cat.model[e] /\ Changed /\ Edit(SetModel(cat, e, m))
AddGtin(e) == \E g \in Gtin : /\ cat.gtins[e][g] = Unknown
                              /\ Changed /\ Becomes([cat EXCEPT !.gtins[e][g] = "stated"])

(* merge_pair by a person, who may insist though the axes differ. *)
MergePair(e, f) == e # f /\ Changed /\ Edit(Merge(cat, e, f))

(* attach, update_link, detach: no entry's key is looked at. *)
Bear(a) == /\ Changed
           /\ bearing' = IF a \in bearing THEN bearing \ {a} ELSE bearing \cup {a}
           /\ UNCHANGED <<readings, cat>>

MergeDuplicates(g) == /\ Cardinality(Sits(cat, g)) = 2
                      /\ \E into \in Survivors(cat, g) : Becomes(Folded(cat, g, into))
                      /\ UNCHANGED changes
Rebuild == /\ \E order \in SetToSeqs(StaleAxes(cat)) :
                HeldFirst(cat, order) /\ Becomes(Rebuilt(cat, order))
           /\ UNCHANGED changes
SplitByAxis(e, a) == /\ Splittable(cat, e, a) /\ ~Torn(cat, e, a)
                     /\ cat.made + Cardinality(Value) <= MaxEntries
                     /\ Becomes(Split(cat, e, a))
                     /\ UNCHANGED changes

CatNext ==
    \/ \E o \in Offer : ReadAgain(o) \/ Place(o) \/ Promote(o)
    \/ Create \/ Rebuild
    \/ \E e \in cat.live : \/ Set(e) \/ Rename(e) \/ AddGtin(e)
                           \/ \E f \in cat.live : MergePair(e, f)
                           \/ \E a \in Axis : SplitByAxis(e, a)
    \/ \E g \in Gtin : MergeDuplicates(g)
    \/ \E a \in MayBear : Bear(a)

CatSpec == CatInit /\ [][CatNext]_catVars

-----------------------------------------------------------------------------
(* Every variable has its type; listings, barcodes and forwarding notes    *)
(* are of entries that exist, and no two entries have one key.             *)
CatTypeOK ==
    /\ readings \in [Offer -> Reading]
    /\ cat.made \in 0..MaxEntries /\ cat.live \subseteq 1..cat.made
    /\ cat.model \in [Entry -> Model \cup {Unknown}]
    /\ cat.axes \in [Entry -> [Axis -> Value \cup {Unknown}]]
    /\ cat.gtins \in [Entry -> [Gtin -> {"rule", "stated", Unknown}]]
    /\ cat.on \in [Offer -> cat.live \cup {Unknown}]
    /\ cat.queued \in [Offer -> {"unmatched", "unsure", "ambiguous", Unknown}]
    /\ cat.merges \subseteq (1..cat.made \ cat.live) \X cat.live
    /\ \A e \in Entry \ cat.live : \A g \in Gtin : cat.gtins[e][g] = Unknown
    /\ \A e, f \in cat.live : e # f /\ cat.key[e] # Unknown => cat.key[e] # cat.key[f]
    /\ bearing \subseteq Axis /\ changes \in 0..MaxChanged

(* "Recomputing all three together is what keeps them from disagreeing"    *)
(* (_regenerate): through fills, merges, splits and rebuilds, some taken   *)
(* back half way, an entry with a key made of the axes that bear identity  *)
(* now has the key of what it is now.                                      *)
KeyIsRight ==
    \A e \in cat.live : cat.key[e] # Unknown /\ DOMAIN cat.key[e].axes = bearing
                          => cat.key[e] = KeyOf(cat, e)

(* A barcode the catalogue knows is never lost to it, whatever becomes of  *)
(* the entry that had it: "the identifiers go over" (merge_variants), a    *)
(* split moves them and a learned one that is contradicted stays.          *)
BarcodesStay ==
    [][\A g \in Gtin : Holds(cat, g) # {} => Holds(cat', g) # {}]_catVars

(* An entry the promotion makes is one its listing is then found under, by *)
(* the ladder that did not place it before: by its barcode, unless that    *)
(* was on several entries already, or else by its model and axes, unless   *)
(* two entries have one identity and neither its key, as after a change of *)
(* the axes that bear it.                                                  *)
Findable(r) ==
    IF r.gtin # Unknown THEN Cardinality(Holds(cat, r.gtin)) < 2
    ELSE \A e \in cat.live : KeyOf(cat, e) # Unknown
                               => \E f \in cat.live : cat.key[f] = KeyOf(cat, e)
NotMadeInVain ==
    [][\A o \in Offer : cat'.made > cat.made /\ Findable(readings[o]) /\ Promote(o)
                          => cat'.on[o] = cat'.made]_catVars

(* An entry all of whose listings agree on an axis is not folded by a      *)
(* rebuild into one that differs from them there.                          *)
Contradicts(e, f) ==
    \E a \in bearing : /\ Cardinality(AxesSaid(cat, e, a)) = 1
                       /\ Unknown \notin AxesSaid(cat, e, a)
                       /\ cat'.axes[f][a] \notin AxesSaid(cat, e, a) \cup {Unknown}
Behind(e)  == {a \in bearing : <<e, a>> \in StaleAxes(cat)}
Folds      == cat'.merges \ cat.merges

(* "Before the names: an entry renamed while an axis is still missing      *)
(* takes the key of the entry that differs from it only there": a fold of  *)
(* two entries with one axis between them behind their listings does not   *)
(* contradict those of the one that goes. (With two it may: one axis of    *)
(* each, and the survivor is set right after it took the other in.)        *)
RebuildKeepsApart ==
    [][Folds # {} /\ Rebuild
          => \A m \in Folds :
                Cardinality(Behind(m[1])) + Cardinality(Behind(m[2])) < 2
                => ~Contradicts(m[1], m[2])
      ]_catVars

(* "a merge that answered it quietly would be the confident wrong answer   *)
(* this project keeps refusing to give" (_carry_axes): nor does the fold   *)
(* of one that has several behind.                                         *)
RebuildNeverGuesses ==
    [][Folds # {} /\ Rebuild => \A m \in Folds : ~Contradicts(m[1], m[2])]_catVars
=============================================================================
