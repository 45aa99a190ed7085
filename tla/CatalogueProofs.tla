--------------------------- MODULE CatalogueProofs ---------------------------
(***************************************************************************)
(* What is proved of the entries of the catalogue (Catalogue): whatever    *)
(* was made, filled in, renamed, split, merged and rebuilt, the rows refer *)
(* to rows that are there, a key is of what its entry says, and a barcode  *)
(* is never lost.                                                          *)
(***************************************************************************)
EXTENDS Catalogue, Ranks

-----------------------------------------------------------------------------
(* The catalogue as a value. *)
Books == [made : 0 .. MaxEntries, live : SUBSET Entry,
          model : [Entry -> Model \cup {Unknown}],
          axes : [Entry -> [Axis -> Value \cup {Unknown}]],
          key : [Entry -> Key \cup {Unknown}],
          gtins : [Entry -> [Gtin -> {"rule", "stated", Unknown}]],
          on : [Offer -> Entry \cup {Unknown}],
          queued : [Offer -> {"unmatched", "unsure", "ambiguous", Unknown}],
          merges : SUBSET (Entry \X Entry)]

(* Listings and forwarding notes are of entries that are there, and an     *)
(* entry that is not there has nothing.                                    *)
RefersOK(c) ==
    /\ c.live \subseteq 1 .. c.made /\ \A e \in c.live : c.model[e] \in Model
    /\ \A o \in Offer : c.on[o] \in c.live \cup {Unknown}
    /\ c.merges \subseteq (1 .. c.made \ c.live) \X c.live
BlankOK(c) ==
    \A e \in Entry \ c.live :
        /\ c.key[e] = Unknown
        /\ \A a \in Axis : c.axes[e][a] = Unknown
        /\ \A g \in Gtin : c.gtins[e][g] = Unknown
OneKey(c) == \A e, f \in c.live : e # f /\ c.key[e] # Unknown => c.key[e] # c.key[f]

(* A key, made of whichever axes bore identity when it was, says what the  *)
(* entry still is.                                                         *)
KeyStands(c, e) ==
    c.key[e] # Unknown =>
        /\ c.key[e].model = c.model[e]
        /\ \A a \in DOMAIN c.key[e].axes : c.axes[e][a] = c.key[e].axes[a]

GoodBut(c, e) == /\ c \in Books /\ RefersOK(c) /\ BlankOK(c) /\ OneKey(c)
                 /\ \A f \in c.live \ {e} : KeyStands(c, f)
Good(c) == /\ c \in Books /\ RefersOK(c) /\ BlankOK(c) /\ OneKey(c)
           /\ \A f \in c.live : KeyStands(c, f)

LEMMA EntryIds == Entry \subseteq Nat /\ IsFiniteSet(Entry) /\ Unknown \notin Entry
<1>1. 1 \in Int /\ MaxEntries \in Int
  BY CatalogueAssumption
<1>. QED
  BY <1>1, FS_Interval, CatalogueAssumption DEF Entry

LEMMA SetOneAxis ==
    ASSUME NEW c \in Books, NEW e \in Entry, NEW a \in Axis, NEW v \in Value \cup {Unknown}
    PROVE  LET d == [c EXCEPT !.axes[e][a] = v]
           IN  /\ d \in Books
               /\ d.made = c.made /\ d.live = c.live /\ d.model = c.model /\ d.key = c.key
               /\ d.gtins = c.gtins /\ d.on = c.on /\ d.queued = c.queued /\ d.merges = c.merges
               /\ \A f \in Entry \ {e} : d.axes[f] = c.axes[f]
               /\ \A b \in Axis : d.axes[e][b] = IF b = a THEN v ELSE c.axes[e][b]
  BY DEF Books

LEMMA SetKey ==
    ASSUME NEW c \in Books, NEW e \in Entry, NEW k \in Key \cup {Unknown}
    PROVE  LET d == [c EXCEPT !.key[e] = k]
           IN  /\ d \in Books
               /\ d.made = c.made /\ d.live = c.live /\ d.model = c.model /\ d.axes = c.axes
               /\ d.gtins = c.gtins /\ d.on = c.on /\ d.queued = c.queued /\ d.merges = c.merges
               /\ \A f \in Entry : d.key[f] = IF f = e THEN k ELSE c.key[f]
  BY DEF Books

LEMMA KeyTyped ==
    ASSUME NEW c \in Books, NEW e \in Entry, c.model[e] \in Model, bearing \subseteq Axis
    PROVE  /\ KeyOf(c, e) \in Key \cup {Unknown}
           /\ KeyOf(c, e) # Unknown =>
                 /\ \A a \in bearing : c.axes[e][a] # Unknown
                 /\ KeyOf(c, e).model = c.model[e] /\ DOMAIN KeyOf(c, e).axes = bearing
                 /\ \A a \in bearing : KeyOf(c, e).axes[a] = c.axes[e][a]
           /\ (\A a \in bearing : c.axes[e][a] # Unknown) => KeyOf(c, e) # Unknown
<1>1. CASE \E a \in bearing : c.axes[e][a] = Unknown
  BY <1>1 DEF KeyOf
<1>2. CASE \A a \in bearing : c.axes[e][a] # Unknown
  <2>. DEFINE x == [a \in bearing |-> c.axes[e][a]]
  <2>1. x \in [bearing -> Value]
    BY <1>2 DEF Books
  <2>2. [bearing -> Value] \in {[B -> Value] : B \in SUBSET Axis}
    OBVIOUS
  <2>3. x \in UNION {[B -> Value] : B \in SUBSET Axis}
    BY <2>1, <2>2
  <2>. HIDE DEF x
  <2>4. [model |-> c.model[e], axes |-> x] \in Key
    BY <2>3 DEF Key
  <2>5. KeyOf(c, e) = [model |-> c.model[e], axes |-> x]
    BY <1>2 DEF KeyOf, x
  <2>6. Unknown \notin Key
    BY CatalogueAssumption
  <2>. QED
    BY <1>2, <2>4, <2>5, <2>6 DEF x
<1>. QED
  BY <1>1, <1>2

(* Rows that d has as c has them: all but the axes and the key of e.       *)
SameButAxes(c, d, e) ==
    /\ d.made = c.made /\ d.live = c.live /\ d.model = c.model
    /\ d.gtins = c.gtins /\ d.on = c.on /\ d.queued = c.queued /\ d.merges = c.merges
    /\ \A f \in Entry \ {e} : d.axes[f] = c.axes[f] /\ d.key[f] = c.key[f]

(* Where nothing is in the way, the key is what the entry is now; what is  *)
(* in the way has a key of the axes that bear identity now.                *)
Bears(c, f) == c.key[f] # Unknown /\ DOMAIN c.key[f].axes = bearing
Regenerated(c, e, x) ==
    \/ /\ x.twin = Unknown /\ Good(x.cat) /\ SameButAxes(c, x.cat, e)
       /\ x.cat.axes = c.axes /\ x.cat.key[e] = KeyOf(x.cat, e)
    \/ x.twin \in c.live \ {e} /\ x.cat = c /\ Bears(c, x.twin)

LEMMA RegenerateOut ==
    ASSUME NEW c, NEW e \in c.live, GoodBut(c, e), bearing \subseteq Axis
    PROVE  Regenerated(c, e, Regenerate(c, e))
<1>. DEFINE k == KeyOf(c, e)
            x == Regenerate(c, e)
            d == [c EXCEPT !.key[e] = k]
<1>1. c \in Books /\ e \in Entry /\ c.live \subseteq Entry /\ c.model[e] \in Model
  BY DEF GoodBut, RefersOK, Books
<1>2. CASE Twins(c, e) # {}
  <2>. DEFINE f == CHOOSE f \in Twins(c, e) : TRUE
  <2>1. f \in Twins(c, e)
    BY <1>2
  <2>2. f \in c.live \ {e} /\ c.key[f] = k /\ k # Unknown
    BY <1>2, <2>1 DEF Twins
  <2>5. k # Unknown => DOMAIN k.axes = bearing
    BY <1>1, KeyTyped
  <2>. HIDE DEF f
  <2>3. x = [cat |-> c, twin |-> CHOOSE g \in Twins(c, e) : TRUE]
    BY <1>2 DEF Regenerate, Clash
  <2>4. x.cat = c /\ x.twin = f
    BY <2>3 DEF f
  <2>6. Bears(c, f)
    BY <2>2, <2>5 DEF Bears
  <2>. QED
    BY <2>2, <2>4, <2>6 DEF Regenerated
<1>3. CASE Twins(c, e) = {}
  <2>1. x = [cat |-> d, twin |-> Unknown]
    BY <1>3 DEF Regenerate, Done
  <2>2. x.cat = d /\ x.twin = Unknown
    BY <2>1
  <2>3. /\ k \in Key \cup {Unknown}
        /\ k # Unknown => /\ k.model = c.model[e] /\ DOMAIN k.axes = bearing
                          /\ \A a \in bearing : k.axes[a] = c.axes[e][a]
    BY <1>1, KeyTyped
  <2>4. /\ d \in Books
        /\ d.made = c.made /\ d.live = c.live /\ d.model = c.model /\ d.axes = c.axes
        /\ d.gtins = c.gtins /\ d.on = c.on /\ d.queued = c.queued /\ d.merges = c.merges
        /\ \A f \in Entry : d.key[f] = IF f = e THEN k ELSE c.key[f]
    BY <1>1, <2>3, SetKey
  <2>5. KeyOf(d, e) = k
    BY <2>4 DEF KeyOf
  <2>6. k # Unknown => \A f \in c.live \ {e} : c.key[f] # k
    BY <1>3 DEF Twins
  <2>. HIDE DEF d, k, x
  <2>7. OneKey(d)
    <3>. SUFFICES ASSUME NEW f \in c.live, NEW g \in c.live, f # g, d.key[f] # Unknown
                  PROVE  d.key[f] # d.key[g]
      BY <2>4 DEF OneKey
    <3>1. OneKey(c) /\ f \in Entry /\ g \in Entry
      BY <1>1 DEF GoodBut
    <3>. QED
      BY <2>4, <2>6, <3>1 DEF OneKey
  <2>8. \A f \in d.live : KeyStands(d, f)
    <3>1. \A f \in c.live \ {e} : KeyStands(d, f)
      BY <1>1, <2>4 DEF GoodBut, KeyStands
    <3>2. KeyStands(d, e)
      BY <1>1, <2>3, <2>4 DEF KeyStands
    <3>. QED
      BY <2>4, <3>1, <3>2
  <2>9. RefersOK(d) /\ BlankOK(d)
    <3>1. RefersOK(d)
      BY <2>4 DEF GoodBut, RefersOK
    <3>2. BlankOK(d)
      BY <1>1, <2>4 DEF GoodBut, BlankOK
    <3>. QED
      BY <3>1, <3>2
  <2>10. Good(d)
    BY <2>4, <2>7, <2>8, <2>9 DEF Good
  <2>11. SameButAxes(c, d, e)
    BY <2>4 DEF SameButAxes
  <2>12. d.axes = c.axes /\ d.key[e] = KeyOf(d, e)
    BY <1>1, <2>4, <2>5
  <2>13. Regenerated(c, e, x)
    BY <2>2, <2>10, <2>11, <2>12 DEF Regenerated
  <2>. QED
    BY <2>13 DEF x
<1>. QED
  BY <1>2, <1>3

(* An axis of an entry that is there is set, or another entry has the key; *)
(* then it is set all the same in what the outcome carries, which is no    *)
(* harm if it was not known.                                               *)
AxisSet(c, e, a, v, x) ==
    /\ SameButAxes(c, x.cat, e) /\ x.twin \in (c.live \ {e}) \cup {Unknown}
    /\ x.cat \in Books /\ x.cat.axes[e][a] = v
    /\ \A b \in Axis \ {a} : x.cat.axes[e][b] = c.axes[e][b]
    /\ x.twin = Unknown \/ c.axes[e][a] = Unknown => Good(x.cat)
    /\ x.twin = Unknown => x.cat.key[e] = KeyOf(x.cat, e)
    /\ x.twin # Unknown => x.cat.key[e] = c.key[e] /\ Bears(c, x.twin)

LEMMA SetAxisOut ==
    ASSUME NEW c, NEW e \in c.live, Good(c), bearing \subseteq Axis,
           NEW a \in Axis, NEW v \in Value \cup {Unknown}
    PROVE  AxisSet(c, e, a, v, SetAxis(c, e, a, v))
<1>. DEFINE d == [c EXCEPT !.axes[e][a] = v]
            x == SetAxis(c, e, a, v)
<1>1. c \in Books /\ e \in Entry /\ c.live \subseteq Entry
  BY DEF Good, Books
<1>2. /\ d \in Books
      /\ d.made = c.made /\ d.live = c.live /\ d.model = c.model /\ d.key = c.key
      /\ d.gtins = c.gtins /\ d.on = c.on /\ d.queued = c.queued /\ d.merges = c.merges
      /\ \A f \in Entry \ {e} : d.axes[f] = c.axes[f]
      /\ \A b \in Axis : d.axes[e][b] = IF b = a THEN v ELSE c.axes[e][b]
  BY <1>1, SetOneAxis
<1>3. x = Regenerate(d, e)
  BY DEF SetAxis
<1>. HIDE DEF d, x
<1>4. GoodBut(d, e)
  <2>1. RefersOK(d)
    BY <1>2 DEF Good, RefersOK
  <2>2. BlankOK(d)
    <3>. SUFFICES ASSUME NEW f \in Entry \ c.live
                  PROVE  /\ d.key[f] = Unknown
                         /\ \A b \in Axis : d.axes[f][b] = Unknown
                         /\ \A g \in Gtin : d.gtins[f][g] = Unknown
      BY <1>2 DEF BlankOK
    <3>. QED
      BY <1>1, <1>2 DEF Good, BlankOK
  <2>3. OneKey(d)
    BY <1>2 DEF Good, OneKey
  <2>4. \A f \in d.live \ {e} : KeyStands(d, f)
    BY <1>1, <1>2 DEF Good, KeyStands
  <2>. QED
    BY <1>2, <2>1, <2>2, <2>3, <2>4 DEF GoodBut
<1>5. Regenerated(d, e, x)
  BY <1>2, <1>3, <1>4, RegenerateOut
<1>6. CASE x.twin = Unknown /\ Good(x.cat) /\ SameButAxes(d, x.cat, e)
           /\ x.cat.axes = d.axes /\ x.cat.key[e] = KeyOf(x.cat, e)
  <2>1. x.cat \in Books
    BY <1>6 DEF Good
  <2>2. SameButAxes(c, x.cat, e)
    BY <1>2, <1>6 DEF SameButAxes
  <2>. QED
    BY <1>2, <1>6, <2>1, <2>2 DEF AxisSet, x
<1>7. CASE x.twin \in c.live \ {e} /\ x.cat = d /\ Bears(d, x.twin)
  <2>1. SameButAxes(c, d, e)
    BY <1>2 DEF SameButAxes
  <2>2. ASSUME c.axes[e][a] = Unknown PROVE Good(d)
    <3>1. KeyStands(c, e) /\ c.key[e] \in Key \cup {Unknown}
      BY <1>1 DEF Good, Books
    <3>2. ASSUME c.key[e] # Unknown PROVE a \notin DOMAIN c.key[e].axes
      <4>1. c.key[e] \in Key
        BY <3>1, <3>2
      <4>2. PICK B \in SUBSET Axis : c.key[e].axes \in [B -> Value]
        BY <4>1 DEF Key
      <4>. QED
        BY <2>2, <3>1, <3>2, <4>2, CatalogueAssumption DEF KeyStands
    <3>3. ASSUME c.key[e] # Unknown PROVE DOMAIN c.key[e].axes \subseteq Axis
      <4>1. c.key[e] \in Key
        BY <3>1, <3>3
      <4>. QED
        BY <4>1 DEF Key
    <3>4. KeyStands(d, e)
      BY <1>2, <3>1, <3>2, <3>3 DEF KeyStands
    <3>. QED
      BY <1>2, <1>4, <3>4 DEF Good, GoodBut
  <2>. QED
    BY <1>1, <1>2, <1>7, <2>1, <2>2, EntryIds DEF AxisSet, Bears, x
<1>. QED
  BY <1>2, <1>5, <1>6, <1>7 DEF Regenerated, x

-----------------------------------------------------------------------------
(* What goes from one catalogue to the next: it is good, no barcode is     *)
(* lost to it, and no id is given out twice.                               *)
KeepsCodes(c, d) == \A g \in Gtin : Holds(c, g) # {} => Holds(d, g) # {}
Onward(c, d) == Good(d) /\ c.made <= d.made /\ KeepsCodes(c, d)

LEMMA OnwardOn ==
    ASSUME NEW c, NEW d, NEW f, Good(c), Onward(c, d), Onward(d, f)
    PROVE  Onward(c, f)
<1>1. c.made \in Nat /\ d.made \in Nat /\ f.made \in Nat
  BY CatalogueAssumption DEF Onward, Good, Books
<1>. QED
  BY <1>1 DEF Onward, KeepsCodes

LEMMA SameCodes ==
    ASSUME NEW c, NEW d, Good(c), Good(d), d.made = c.made, d.live = c.live, d.gtins = c.gtins
    PROVE  Onward(c, d)
<1>1. c.made \in Nat
  BY CatalogueAssumption DEF Good, Books
<1>. QED
  BY <1>1 DEF Onward, KeepsCodes, Holds

(* Setting an axis or the model of e: done, or in the way of another.      *)
Renewed(c, e, x) ==
    /\ x.twin \in (c.live \ {e}) \cup {Unknown}
    /\ x.twin = Unknown =>
          /\ Good(x.cat) /\ x.cat.made = c.made /\ x.cat.live = c.live
          /\ x.cat.gtins = c.gtins

LEMMA SetAxisRenews ==
    ASSUME NEW c, NEW e \in c.live, Good(c), bearing \subseteq Axis,
           NEW a \in Axis, NEW v \in Value \cup {Unknown}
    PROVE  Renewed(c, e, SetAxis(c, e, a, v))
  BY SetAxisOut DEF AxisSet, Renewed, SameButAxes

LEMMA SetModelRenews ==
    ASSUME NEW c, NEW e \in c.live, Good(c), bearing \subseteq Axis, NEW m \in Model
    PROVE  Renewed(c, e, SetModel(c, e, m))
<1>. DEFINE d == [c EXCEPT !.model[e] = m]
            x == SetModel(c, e, m)
<1>1. c \in Books /\ e \in Entry /\ c.live \subseteq Entry
  BY DEF Good, Books
<1>2. /\ d \in Books
      /\ d.made = c.made /\ d.live = c.live /\ d.axes = c.axes /\ d.key = c.key
      /\ d.gtins = c.gtins /\ d.on = c.on /\ d.queued = c.queued /\ d.merges = c.merges
      /\ \A f \in Entry : d.model[f] = IF f = e THEN m ELSE c.model[f]
  BY <1>1 DEF Books
<1>3. x = Regenerate(d, e)
  BY DEF SetModel
<1>. HIDE DEF d, x
<1>4. GoodBut(d, e)
  <2>1. RefersOK(d)
    BY <1>1, <1>2 DEF Good, RefersOK
  <2>2. BlankOK(d) /\ OneKey(d)
    BY <1>2 DEF Good, BlankOK, OneKey
  <2>3. \A f \in d.live \ {e} : KeyStands(d, f)
    BY <1>1, <1>2 DEF Good, KeyStands
  <2>. QED
    BY <1>2, <2>1, <2>2, <2>3 DEF GoodBut
<1>5. Regenerated(d, e, x)
  BY <1>2, <1>3, <1>4, RegenerateOut
<1>6. x.twin \in c.live => x.twin # Unknown
  BY <1>1, EntryIds
<1>. QED
  BY <1>2, <1>5, <1>6 DEF Regenerated, SameButAxes, Renewed, x

-----------------------------------------------------------------------------
(* Merges: the rows before the key of the survivor is computed again.      *)
MergedRows(c, from, into, d) ==
    /\ Merge(c, from, into) = Regenerate(d, into)
    /\ d.made = c.made /\ d.live = c.live \ {from} /\ d.queued = c.queued
    /\ \A o \in Offer : d.on[o] = IF c.on[o] = from THEN into ELSE c.on[o]
    /\ \A f \in Entry \ {from} : d.model[f] = c.model[f] /\ d.key[f] = c.key[f]
    /\ d.key[from] = Unknown
    /\ \A a \in Axis : d.axes[from][a] = Unknown
    /\ \A g \in Gtin : d.gtins[from][g] = Unknown
    /\ \A f \in Entry \ {from, into} : d.axes[f] = c.axes[f] /\ d.gtins[f] = c.gtins[f]
    /\ \A g \in Gtin : d.gtins[into][g] =
          IF c.gtins[into][g] = Unknown THEN c.gtins[from][g] ELSE c.gtins[into][g]
    /\ \A a \in Axis : d.axes[into][a] =
          IF c.axes[into][a] = Unknown THEN c.axes[from][a] ELSE c.axes[into][a]
    /\ d.merges = {m \in c.merges : m[2] # from} \cup {<<from, into>>}

LEMMA MergeRows ==
    ASSUME NEW c \in Books, NEW from \in Entry, NEW into \in Entry, from # into
    PROVE  \E d \in Books : MergedRows(c, from, into, d)
<1>. DEFINE moved == [c EXCEPT
                !.on   = [o \in Offer |-> IF @[o] = from THEN into ELSE @[o]],
                !.gtins[into] = [g \in Gtin |-> IF @[g] = Unknown THEN c.gtins[from][g] ELSE @[g]],
                !.axes[into]  = [a \in Axis |-> IF @[a] = Unknown THEN c.axes[from][a] ELSE @[a]]]
            folded == Delete(moved, from)
            d == [folded EXCEPT !.merges = @ \cup {<<from, into>>}]
<1>1. /\ moved \in Books
      /\ moved.made = c.made /\ moved.live = c.live /\ moved.model = c.model
      /\ moved.key = c.key /\ moved.queued = c.queued /\ moved.merges = c.merges
      /\ \A o \in Offer : moved.on[o] = IF c.on[o] = from THEN into ELSE c.on[o]
      /\ \A f \in Entry \ {into} : moved.axes[f] = c.axes[f] /\ moved.gtins[f] = c.gtins[f]
      /\ \A g \in Gtin : moved.gtins[into][g] =
            IF c.gtins[into][g] = Unknown THEN c.gtins[from][g] ELSE c.gtins[into][g]
      /\ \A a \in Axis : moved.axes[into][a] =
            IF c.axes[into][a] = Unknown THEN c.axes[from][a] ELSE c.axes[into][a]
  <2>. DEFINE on == [o \in Offer |-> IF c.on[o] = from THEN into ELSE c.on[o]]
              codes == [g \in Gtin |-> IF c.gtins[into][g] = Unknown THEN c.gtins[from][g]
                                       ELSE c.gtins[into][g]]
              said == [a \in Axis |-> IF c.axes[into][a] = Unknown THEN c.axes[from][a]
                                      ELSE c.axes[into][a]]
  <2>1. /\ on \in [Offer -> Entry \cup {Unknown}]
        /\ codes \in [Gtin -> {"rule", "stated", Unknown}]
        /\ said \in [Axis -> Value \cup {Unknown}]
    BY DEF Books
  <2>2. moved = [c EXCEPT !.on = on, !.gtins[into] = codes, !.axes[into] = said]
    OBVIOUS
  <2>3. /\ \A o \in Offer : on[o] = IF c.on[o] = from THEN into ELSE c.on[o]
        /\ \A g \in Gtin : codes[g] =
              IF c.gtins[into][g] = Unknown THEN c.gtins[from][g] ELSE c.gtins[into][g]
        /\ \A a \in Axis : said[a] =
              IF c.axes[into][a] = Unknown THEN c.axes[from][a] ELSE c.axes[into][a]
    OBVIOUS
  <2>. HIDE DEF moved, on, codes, said
  <2>4. /\ moved \in Books
        /\ moved.made = c.made /\ moved.live = c.live /\ moved.model = c.model
        /\ moved.key = c.key /\ moved.queued = c.queued /\ moved.merges = c.merges
        /\ moved.on = on /\ moved.gtins[into] = codes /\ moved.axes[into] = said
        /\ \A f \in Entry \ {into} : moved.axes[f] = c.axes[f] /\ moved.gtins[f] = c.gtins[f]
    BY <2>1, <2>2 DEF Books
  <2>. QED
    BY <2>3, <2>4
<1>. HIDE DEF moved
<1>4. /\ folded \in Books
      /\ folded.made = c.made /\ folded.live = c.live \ {from} /\ folded.queued = c.queued
      /\ folded.on = moved.on
      /\ \A f \in Entry \ {from} : folded.model[f] = c.model[f] /\ folded.key[f] = c.key[f]
      /\ folded.key[from] = Unknown
      /\ \A a \in Axis : folded.axes[from][a] = Unknown
      /\ \A g \in Gtin : folded.gtins[from][g] = Unknown
      /\ \A f \in Entry \ {from} : folded.axes[f] = moved.axes[f] /\ folded.gtins[f] = moved.gtins[f]
      /\ folded.merges = {m \in c.merges : m[2] # from}
  BY <1>1 DEF Books, Delete
<1>. HIDE DEF folded
<1>5. /\ d \in Books
      /\ d.made = folded.made /\ d.live = folded.live /\ d.queued = folded.queued
      /\ d.on = folded.on /\ d.model = folded.model /\ d.key = folded.key
      /\ d.axes = folded.axes /\ d.gtins = folded.gtins
      /\ d.merges = folded.merges \cup {<<from, into>>}
  <2>1. folded.merges \cup {<<from, into>>} \in SUBSET (Entry \X Entry)
    BY <1>4 DEF Books
  <2>. QED
    BY <1>4, <2>1 DEF Books
<1>6. Merge(c, from, into) = Regenerate(d, into)
  BY DEF Merge, moved, folded, d
<1>. HIDE DEF d
<1>. QED
  BY <1>1, <1>4, <1>5, <1>6 DEF MergedRows

Merged(c, from, x) ==
    x.twin = Unknown => /\ Onward(c, x.cat)
                        /\ x.cat.made = c.made /\ x.cat.live = c.live \ {from}

LEMMA MergeOut ==
    ASSUME NEW c, Good(c), bearing \subseteq Axis,
           NEW from \in c.live, NEW into \in c.live, from # into
    PROVE  Merged(c, from, Merge(c, from, into))
<1>1. c \in Books /\ from \in Entry /\ into \in Entry /\ c.live \subseteq Entry
  BY DEF Good, Books
<1>6. PICK d \in Books : MergedRows(c, from, into, d)
  BY <1>1, MergeRows
<1>2. /\ Merge(c, from, into) = Regenerate(d, into)
      /\ d.made = c.made /\ d.live = c.live \ {from} /\ d.queued = c.queued
      /\ \A o \in Offer : d.on[o] = IF c.on[o] = from THEN into ELSE c.on[o]
      /\ \A f \in Entry \ {from} : d.model[f] = c.model[f] /\ d.key[f] = c.key[f]
      /\ d.key[from] = Unknown
      /\ \A a \in Axis : d.axes[from][a] = Unknown
      /\ \A g \in Gtin : d.gtins[from][g] = Unknown
      /\ \A f \in Entry \ {from, into} : d.axes[f] = c.axes[f] /\ d.gtins[f] = c.gtins[f]
      /\ \A g \in Gtin : d.gtins[into][g] =
            IF c.gtins[into][g] = Unknown THEN c.gtins[from][g] ELSE c.gtins[into][g]
      /\ d.merges = {m \in c.merges : m[2] # from} \cup {<<from, into>>}
  BY <1>6 DEF MergedRows
<1>. DEFINE x == Merge(c, from, into)
<1>. HIDE DEF x
<1>3. GoodBut(d, into)
  <2>1. RefersOK(d)
    <3>1. RefersOK(c)
      BY DEF Good
    <3>2. \A m \in d.merges : m \in (1 .. d.made \ d.live) \X d.live
      <4>1. ASSUME NEW m \in c.merges, m[2] # from PROVE m \in (1 .. d.made \ d.live) \X d.live
        BY <1>2, <3>1, <4>1 DEF RefersOK
      <4>2. <<from, into>> \in (1 .. d.made \ d.live) \X d.live
        BY <1>2, <3>1 DEF RefersOK
      <4>. QED
        BY <1>2, <4>1, <4>2
    <3>. QED
      BY <1>1, <1>2, <3>1, <3>2 DEF RefersOK
  <2>2. BlankOK(d)
    <3>. SUFFICES ASSUME NEW f \in Entry \ d.live
                  PROVE  /\ d.key[f] = Unknown
                         /\ \A b \in Axis : d.axes[f][b] = Unknown
                         /\ \A g \in Gtin : d.gtins[f][g] = Unknown
      BY DEF BlankOK
    <3>1. CASE f = from
      BY <1>2, <3>1
    <3>2. CASE f # from
      BY <1>1, <1>2, <3>2 DEF Good, BlankOK
    <3>. QED
      BY <3>1, <3>2
  <2>3. OneKey(d)
    BY <1>1, <1>2 DEF Good, OneKey
  <2>4. \A f \in d.live \ {into} : KeyStands(d, f)
    BY <1>1, <1>2 DEF Good, KeyStands
  <2>. QED
    BY <2>1, <2>2, <2>3, <2>4 DEF GoodBut
<1>4. Regenerated(d, into, x)
  BY <1>2, <1>3, RegenerateOut DEF x
<1>5. CASE x.twin = Unknown
  <2>1. Good(x.cat) /\ SameButAxes(d, x.cat, into)
    <3>1. Unknown \notin d.live
      BY <1>1, <1>2, EntryIds
    <3>. QED
      BY <1>4, <1>5, <3>1 DEF Regenerated
  <2>2. KeepsCodes(c, x.cat)
    <3>. SUFFICES ASSUME NEW g \in Gtin, NEW e \in c.live, g # Unknown, c.gtins[e][g] # Unknown
                  PROVE  \E f \in x.cat.live : x.cat.gtins[f][g] # Unknown
      BY DEF KeepsCodes, Holds
    <3>1. x.cat.live = c.live \ {from} /\ x.cat.gtins = d.gtins
      BY <1>2, <2>1 DEF SameButAxes
    <3>2. CASE e \in {from, into}
      BY <1>1, <1>2, <3>1, <3>2
    <3>3. CASE e \notin {from, into}
      BY <1>1, <1>2, <3>1, <3>3
    <3>. QED
      BY <3>2, <3>3
  <2>3. c.made \in Nat /\ x.cat.made = c.made /\ x.cat.live = c.live \ {from}
    BY <1>1, <1>2, <2>1, CatalogueAssumption DEF SameButAxes, Books
  <2>. QED
    BY <2>1, <2>2, <2>3 DEF Merged, Onward, x
<1>. QED
  BY <1>5 DEF Merged, x

LEMMA OrMergedOut ==
    ASSUME NEW c, Good(c), bearing \subseteq Axis, NEW e \in c.live, NEW x, Renewed(c, e, x)
    PROVE  Onward(c, OrMerged(c, e, x))
<1>1. Onward(c, c)
  BY SameCodes
<1>2. CASE x.twin = Unknown
  BY <1>2, SameCodes DEF Renewed, OrMerged
<1>3. CASE x.twin # Unknown
  <2>1. x.twin \in c.live /\ x.twin # e
    BY <1>3 DEF Renewed
  <2>2. Merged(c, e, Merge(c, e, x.twin))
    BY <2>1, MergeOut
  <2>3. OrMerged(c, e, x) = Try(c, Merge(c, e, x.twin))
    BY <1>3 DEF OrMerged
  <2>. QED
    BY <1>1, <2>2, <2>3 DEF Merged, Try
<1>. QED
  BY <1>2, <1>3

LEMMA FoldedOut ==
    ASSUME NEW c, Good(c), bearing \subseteq Axis, NEW g \in Gtin,
           Cardinality(Sits(c, g)) = 2, NEW into \in Survivors(c, g)
    PROVE  Onward(c, Folded(c, g, into))
<1>. DEFINE from == CHOOSE e \in Sits(c, g) : e # into
<1>1. Onward(c, c)
  BY SameCodes
<1>2. Sits(c, g) \subseteq c.live
  BY DEF Sits, Good, RefersOK
<1>3. into \in Sits(c, g)
  BY DEF Survivors
<1>4. \E e \in Sits(c, g) : e # into
  <2>1. Sits(c, g) # {into}
    BY FS_Singleton
  <2>. QED
    BY <1>3, <2>1
<1>5. from \in Sits(c, g) /\ from # into
  BY <1>4
<1>6. Folded(c, g, into) = IF Differ(c, from, into) # {} THEN c ELSE Try(c, Merge(c, from, into))
  BY DEF Folded
<1>. HIDE DEF from
<1>7. Merged(c, from, Merge(c, from, into))
  BY <1>2, <1>3, <1>5, MergeOut
<1>. QED
  BY <1>1, <1>6, <1>7 DEF Merged, Try

-----------------------------------------------------------------------------
(* A new entry of model m, as yet without axes and barcodes.               *)
MadeNew(c, m, x) ==
    LET n == c.made + 1
    IN  /\ bearing # {} => x.twin = Unknown
        /\ x.twin = Unknown =>
              /\ Good(x.cat) /\ x.cat.made = n /\ x.cat.live = c.live \cup {n}
              /\ x.cat.gtins = c.gtins /\ x.cat.on = c.on /\ x.cat.queued = c.queued
              /\ x.cat.model[n] = m /\ \A a \in Axis : x.cat.axes[n][a] = Unknown
              /\ \A f \in Entry \ {n} : /\ x.cat.model[f] = c.model[f] /\ x.cat.key[f] = c.key[f]
                                        /\ x.cat.axes[f] = c.axes[f]
              /\ x.cat.key[n] = KeyOf(x.cat, n)

LEMMA NewOut ==
    ASSUME NEW c, Good(c), bearing \subseteq Axis, NEW m \in Model, c.made < MaxEntries
    PROVE  MadeNew(c, m, New(c, m))
<1>. DEFINE n == c.made + 1
            d == [c EXCEPT !.made = @ + 1, !.live = @ \cup {c.made + 1},
                           !.model[c.made + 1] = m]
            x == New(c, m)
<1>1. c \in Books /\ c.live \subseteq Entry /\ c.made \in Nat
  BY CatalogueAssumption DEF Good, Books
<1>2. n \in Entry /\ n \in 0 .. MaxEntries
  BY <1>1, CatalogueAssumption DEF Entry
<1>3. n \notin c.live /\ c.live \subseteq 1 .. c.made /\ \A y \in 1 .. c.made : y \in 1 .. n /\ y # n
  BY <1>1 DEF Good, RefersOK
<1>4. d = [c EXCEPT !.made = n, !.live = @ \cup {n}, !.model[n] = m]
  BY <1>1 DEF Books
<1>5. x = Regenerate(d, n)
  BY DEF New
<1>. HIDE DEF d, x, n
<1>6. /\ d \in Books
      /\ d.made = n /\ d.live = c.live \cup {n} /\ d.axes = c.axes /\ d.key = c.key
      /\ d.gtins = c.gtins /\ d.on = c.on /\ d.queued = c.queued /\ d.merges = c.merges
      /\ \A f \in Entry : d.model[f] = IF f = n THEN m ELSE c.model[f]
  BY <1>1, <1>2, <1>4 DEF Books
<1>7. c.key[n] = Unknown /\ \A a \in Axis : c.axes[n][a] = Unknown
  BY <1>2, <1>3 DEF Good, BlankOK
<1>8. GoodBut(d, n)
  <2>1. RefersOK(d)
    <3>1. RefersOK(c)
      BY DEF Good
    <3>2. d.live \subseteq 1 .. d.made
      BY <1>1, <1>3, <1>6 DEF n
    <3>3. d.merges \subseteq (1 .. d.made \ d.live) \X d.live
      <4>1. (1 .. c.made) \ c.live \subseteq (1 .. n) \ (c.live \cup {n})
        BY <1>3
      <4>. QED
        BY <1>6, <3>1, <4>1 DEF RefersOK
    <3>4. \A f \in d.live : d.model[f] \in Model
      <4>1. \A f \in c.live \cup {n} : f \in Entry /\ (f = n \/ c.model[f] \in Model)
        BY <1>1, <1>2, <3>1 DEF RefersOK
      <4>. QED
        BY <1>6, <4>1
    <3>5. \A o \in Offer : d.on[o] \in d.live \cup {Unknown}
      BY <1>6, <3>1 DEF RefersOK
    <3>. QED
      BY <3>2, <3>3, <3>4, <3>5 DEF RefersOK
  <2>2. BlankOK(d)
    BY <1>6 DEF Good, BlankOK
  <2>3. OneKey(d)
    <3>1. \A f \in c.live \cup {n} : f = n \/ f \in c.live
      OBVIOUS
    <3>. QED
      BY <1>6, <1>7, <3>1 DEF Good, OneKey
  <2>4. \A f \in d.live \ {n} : KeyStands(d, f)
    BY <1>1, <1>6 DEF Good, KeyStands
  <2>. QED
    BY <1>6, <2>1, <2>2, <2>3, <2>4 DEF GoodBut
<1>9. Regenerated(d, n, x)
  BY <1>5, <1>6, <1>8, RegenerateOut
<1>10. ASSUME bearing # {} PROVE x.twin = Unknown
  <2>1. KeyOf(d, n) = Unknown
    <3>1. \E a \in bearing : d.axes[n][a] = Unknown
      BY <1>6, <1>7, <1>10
    <3>. QED
      BY <3>1 DEF KeyOf
  <2>2. Twins(d, n) = {}
    BY <2>1 DEF Twins
  <2>. QED
    BY <1>5, <2>2 DEF Regenerate, Done
<1>11. ASSUME x.twin = Unknown
       PROVE  /\ Good(x.cat) /\ SameButAxes(d, x.cat, n) /\ x.cat.axes = d.axes
              /\ x.cat.key[n] = KeyOf(x.cat, n)
  <2>1. Unknown \notin d.live
    BY <1>6, EntryIds DEF Books
  <2>. QED
    BY <1>9, <1>11, <2>1 DEF Regenerated
<1>12. ASSUME x.twin = Unknown
       PROVE  /\ Good(x.cat) /\ x.cat.made = n /\ x.cat.live = c.live \cup {n}
              /\ x.cat.gtins = c.gtins /\ x.cat.on = c.on /\ x.cat.queued = c.queued
              /\ x.cat.model[n] = m /\ \A a \in Axis : x.cat.axes[n][a] = Unknown
              /\ \A f \in Entry \ {n} : /\ x.cat.model[f] = c.model[f] /\ x.cat.key[f] = c.key[f]
                                        /\ x.cat.axes[f] = c.axes[f]
              /\ x.cat.key[n] = KeyOf(x.cat, n)
  BY <1>2, <1>6, <1>7, <1>11, <1>12 DEF SameButAxes
<1>. QED
  BY <1>10, <1>12 DEF MadeNew, n, x

-----------------------------------------------------------------------------
(* Axes of e that nothing was known of are set one after another, up to    *)
(* the i-th, or until an entry is in the way.                              *)
Gaps(c, e, order, said) ==
    /\ order \in Seq(Axis) /\ Once(order) /\ \A i \in 1 .. Len(order) : c.axes[e][order[i]] = Unknown
    /\ \A a \in Axis : said[a] \in Value \cup {Unknown}
FilledTo(c, e, order, said, i, d) ==
    /\ \A j \in 1 .. i : d.axes[e][order[j]] = said[order[j]]
    /\ \A a \in Axis : (\A j \in 1 .. i : order[j] # a) => d.axes[e][a] = c.axes[e][a]
    /\ c.key[e] = KeyOf(c, e) => d.key[e] = KeyOf(d, e)
Filled(c, e, order, said, i, x) ==
    /\ x.twin \in (c.live \ {e}) \cup {Unknown}
    /\ x.twin # Unknown => Bears(c, x.twin)
    /\ Good(x.cat) /\ SameButAxes(c, x.cat, e)
    /\ x.twin = Unknown => FilledTo(c, e, order, said, i, x.cat)

LEMMA FillOne ==
    ASSUME NEW c, NEW e \in c.live, Good(c), bearing \subseteq Axis, NEW order, NEW said,
           Gaps(c, e, order, said), NEW i \in 1 .. Len(order),
           NEW x, Filled(c, e, order, said, i - 1, x), x.twin = Unknown
    PROVE  Filled(c, e, order, said, i, SetAxis(x.cat, e, order[i], said[order[i]]))
<1>. DEFINE a == order[i]
            y == SetAxis(x.cat, e, a, said[a])
<1>1. c \in Books /\ c.live \subseteq Entry /\ e \in Entry
  BY DEF Good, Books
<1>2. a \in Axis /\ said[a] \in Value \cup {Unknown}
  BY DEF Gaps
<1>3. Len(order) \in Nat /\ DOMAIN order = 1 .. Len(order)
  BY DEF Gaps
<1>4. Good(x.cat) /\ SameButAxes(c, x.cat, e) /\ FilledTo(c, e, order, said, i - 1, x.cat)
  BY DEF Filled
<1>5. \A j \in 1 .. i - 1 : j \in 1 .. Len(order) /\ order[j] # a
  BY <1>3 DEF Gaps, Once
<1>6. x.cat.axes[e][a] = Unknown
  <2>1. c.axes[e][a] = Unknown
    BY DEF Gaps
  <2>. QED
    BY <1>2, <1>4, <1>5, <2>1 DEF FilledTo
<1>7. e \in x.cat.live
  BY <1>4 DEF SameButAxes
<1>8. AxisSet(x.cat, e, a, said[a], y)
  BY <1>2, <1>4, <1>7, SetAxisOut
<1>. HIDE DEF y, a
<1>9. SameButAxes(c, y.cat, e)
  <2>1. SameButAxes(x.cat, y.cat, e)
    BY <1>8 DEF AxisSet
  <2>. QED
    BY <1>4, <2>1 DEF SameButAxes
<1>10. y.twin \in (c.live \ {e}) \cup {Unknown} /\ Good(y.cat)
  <2>1. x.cat.live = c.live
    BY <1>4 DEF SameButAxes
  <2>. QED
    BY <1>6, <1>8, <2>1 DEF AxisSet
<1>11. ASSUME y.twin # Unknown PROVE Bears(c, y.twin)
  <2>1. Bears(x.cat, y.twin) /\ y.twin \in Entry \ {e}
    BY <1>1, <1>8, <1>10, <1>11 DEF AxisSet
  <2>2. x.cat.key[y.twin] = c.key[y.twin]
    BY <1>4, <2>1 DEF SameButAxes
  <2>. QED
    BY <2>1, <2>2 DEF Bears
<1>12. ASSUME y.twin = Unknown PROVE FilledTo(c, e, order, said, i, y.cat)
  <2>1. \A j \in 1 .. i : j \in 1 .. i - 1 \/ j = i
    BY <1>3
  <2>2. \A j \in 1 .. i : y.cat.axes[e][order[j]] = said[order[j]]
    <3>1. ASSUME NEW j \in 1 .. i - 1 PROVE y.cat.axes[e][order[j]] = said[order[j]]
      <4>1. order[j] \in Axis \ {a}
        BY <1>5 DEF Gaps
      <4>2. x.cat.axes[e][order[j]] = said[order[j]]
        BY <1>4 DEF FilledTo
      <4>. QED
        BY <1>8, <4>1, <4>2 DEF AxisSet
    <3>2. y.cat.axes[e][a] = said[a]
      BY <1>8 DEF AxisSet
    <3>. QED
      BY <2>1, <3>1, <3>2 DEF a
  <2>3. ASSUME NEW b \in Axis, \A j \in 1 .. i : order[j] # b PROVE y.cat.axes[e][b] = c.axes[e][b]
    <3>1. i \in 1 .. i /\ \A j \in 1 .. i - 1 : j \in 1 .. i
      BY <1>3
    <3>2. b # a /\ \A j \in 1 .. i - 1 : order[j] # b
      BY <2>3, <3>1 DEF a
    <3>3. x.cat.axes[e][b] = c.axes[e][b]
      BY <1>4, <3>2 DEF FilledTo
    <3>. QED
      BY <1>8, <3>2, <3>3 DEF AxisSet
  <2>4. y.cat.key[e] = KeyOf(y.cat, e)
    BY <1>8, <1>12 DEF AxisSet
  <2>. QED
    BY <2>2, <2>3, <2>4 DEF FilledTo
<1>. QED
  BY <1>9, <1>10, <1>11, <1>12 DEF Filled, y, a

LEMMA SetAxesOut ==
    ASSUME NEW c, NEW e \in c.live, Good(c), bearing \subseteq Axis, NEW order, NEW said,
           Gaps(c, e, order, said)
    PROVE  Filled(c, e, order, said, Len(order), SetAxes(Done(c), e, order, said))
<1>. DEFINE n == Len(order)
            V == [cat : Books, twin : Entry \cup {Unknown}]
            Then(x, i) == IF x.twin # Unknown THEN x
                          ELSE SetAxis(x.cat, e, order[i], said[order[i]])
            F == [i \in 1 .. n |-> [x \in V |-> Then(x, i)]]
            Q == [i \in 0 .. n |-> {x \in V : Filled(c, e, order, said, i, x)}]
            Ruled(u) == u = [i \in 0 .. n |-> IF i = 0 THEN Done(c) ELSE Then(u[i - 1], i)]
            upto == CHOOSE u : Ruled(u)
<1>1. n \in Nat /\ DOMAIN order = 1 .. n
  BY DEF Gaps
<1>2. c \in Books /\ c.live \subseteq Entry /\ e \in Entry /\ Unknown \notin Entry
  BY EntryIds DEF Good, Books
<1>3. \A i \in 1 .. n : i \in 0 .. n /\ i - 1 \in 0 .. n /\ i # 0
  BY <1>1
<1>4. Done(c) \in V /\ Filled(c, e, order, said, 0, Done(c))
  <2>1. Done(c) = [cat |-> c, twin |-> Unknown]
    BY DEF Done
  <2>2. SameButAxes(c, c, e) /\ FilledTo(c, e, order, said, 0, c)
    BY DEF SameButAxes, FilledTo
  <2>3. Done(c).cat = c /\ Done(c).twin = Unknown /\ Done(c) \in V
    BY <1>2, <2>1
  <2>. QED
    BY <2>2, <2>3 DEF Filled
<1>5. ASSUME NEW i \in 1 .. n, NEW x \in V, Filled(c, e, order, said, i - 1, x)
      PROVE  Then(x, i) \in V /\ Filled(c, e, order, said, i, Then(x, i))
  <2>1. CASE x.twin # Unknown
    BY <1>5, <2>1 DEF Filled
  <2>2. CASE x.twin = Unknown
    <3>. DEFINE y == SetAxis(x.cat, e, order[i], said[order[i]])
    <3>1. Filled(c, e, order, said, i, y)
      BY <1>5, <2>2, FillOne
    <3>2. Then(x, i) = y
      BY <2>2
    <3>3. y = [cat |-> y.cat, twin |-> y.twin]
      BY DEF SetAxis, Regenerate, Done, Clash
    <3>. HIDE DEF y, Then
    <3>4. y.cat \in Books /\ y.twin \in Entry \cup {Unknown}
      BY <1>2, <3>1 DEF Filled, Good
    <3>5. y \in V
      BY <3>3, <3>4
    <3>. QED
      BY <3>1, <3>2, <3>5
  <2>. QED
    BY <2>1, <2>2
<1>6. SetAxes(Done(c), e, order, said) = upto[n]
  BY DEF SetAxes
<1>. HIDE DEF Then, V
<1>7. /\ Q \in [0 .. n -> SUBSET V] /\ Done(c) \in Q[0]
      /\ \A i \in 0 .. n : \A x : x \in Q[i] <=> x \in V /\ Filled(c, e, order, said, i, x)
  BY <1>1, <1>4
<1>8. \A i \in 1 .. n : \A x \in V : F[i][x] = Then(x, i)
  OBVIOUS
<1>. HIDE DEF Q, F
<1>9. LeadsOn(n, Q, F)
  <2>. SUFFICES ASSUME NEW i \in 1 .. n, NEW x \in Q[i - 1] PROVE F[i][x] \in Q[i]
    BY DEF LeadsOn
  <2>1. x \in V /\ Filled(c, e, order, said, i - 1, x)
    BY <1>3, <1>7
  <2>2. Then(x, i) \in V /\ Filled(c, e, order, said, i, Then(x, i))
    BY <1>5, <2>1
  <2>. QED
    BY <1>3, <1>7, <1>8, <2>1, <2>2
<1>10. Ruled(upto)
  <2>7. PICK f : Stepped(f, n, V, Done(c), F)
    BY <1>1, <1>7, <1>9, StepsWithin
  <2>1. /\ f = [i \in 0 .. n |-> IF i = 0 THEN Done(c) ELSE F[i][f[i - 1]]]
        /\ \A i \in 0 .. n : f[i] \in V
    BY <2>7, Zenon DEF Stepped
  <2>2. \A i \in 0 .. n : i = 0 \/ i \in 1 .. n
    BY <1>1
  <2>3. \A i \in 1 .. n : F[i][f[i - 1]] = Then(f[i - 1], i)
    BY <1>3, <1>8, <2>1
  <2>4. \A i \in 0 .. n : (IF i = 0 THEN Done(c) ELSE F[i][f[i - 1]])
                          = (IF i = 0 THEN Done(c) ELSE Then(f[i - 1], i))
    BY <2>2, <2>3
  <2>5. f = [i \in 0 .. n |-> IF i = 0 THEN Done(c) ELSE Then(f[i - 1], i)]
    BY <2>1, <2>4, Zenon
  <2>. HIDE DEF Ruled
  <2>6. Ruled(f)
    BY <2>5 DEF Ruled
  <2>. QED
    BY <2>6
<1>. HIDE DEF upto
<1>11. Follows(upto, n, V, Done(c), F)
  <2>1. 0 \in 0 .. n
    BY <1>1
  <2>2. upto[0] = Done(c)
    BY <1>10, <2>1
  <2>3. \A i \in 1 .. n : upto[i] = Then(upto[i - 1], i)
    BY <1>3, <1>10
  <2>. QED
    BY <1>8, <2>2, <2>3 DEF Follows
<1>12. upto[n] \in Q[n]
  <2>1. \A i \in 0 .. n : upto[i] \in Q[i]
    BY <1>1, <1>7, <1>9, <1>11, ThroughSteps
  <2>. QED
    BY <1>1, <2>1
<1>. QED
  BY <1>1, <1>6, <1>7, <1>12

-----------------------------------------------------------------------------
(* The ladder: what changes no entry's model, axes or key. *)
SameEntries(c, d) ==
    /\ d \in Books /\ d.made = c.made /\ d.live = c.live /\ d.model = c.model
    /\ d.axes = c.axes /\ d.key = c.key /\ d.merges = c.merges
MoreCodes(c, d) == \A e \in Entry, g \in Gtin :
    /\ c.gtins[e][g] # Unknown => d.gtins[e][g] # Unknown
    /\ e \notin c.live => d.gtins[e][g] = Unknown
Placing(c, d) ==
    /\ SameEntries(c, d) /\ MoreCodes(c, d) /\ \A o \in Offer : d.on[o] \in c.live \cup {Unknown}

LEMMA PlacingOut ==
    ASSUME NEW c, NEW d, Good(c), Placing(c, d)
    PROVE  Good(d) /\ Onward(c, d)
<1>1. c \in Books /\ c.live \subseteq Entry /\ c.made \in Nat
  BY CatalogueAssumption DEF Good, Books
<1>2. RefersOK(d)
  BY DEF Good, RefersOK, Placing, SameEntries
<1>3. BlankOK(d)
  BY DEF Good, BlankOK, Placing, SameEntries, MoreCodes
<1>4. OneKey(d) /\ \A f \in d.live : KeyStands(d, f)
  BY DEF Good, OneKey, KeyStands, Placing, SameEntries
<1>5. Good(d)
  BY <1>2, <1>3, <1>4 DEF Good, Placing, SameEntries
<1>6. KeepsCodes(c, d)
  BY <1>1 DEF KeepsCodes, Holds, Placing, SameEntries, MoreCodes
<1>7. c.made <= d.made
  BY <1>1 DEF Placing, SameEntries
<1>. QED
  BY <1>5, <1>6, <1>7 DEF Onward

LEMMA NoCodeOfNone ==
    ASSUME NEW c, Good(c), NEW e \in Entry, NEW g \in Gtin, c.gtins[e][g] # Unknown
    PROVE  e \in c.live
BY DEF Good, BlankOK

LEMMA LinkedOut ==
    ASSUME NEW c, Good(c), NEW o \in Offer, NEW e \in c.live
    PROVE  /\ Placing(c, Linked(c, o, e)) /\ Linked(c, o, e).gtins = c.gtins
           /\ Linked(c, o, e).on[o] = e /\ Linked(c, o, e).queued[o] = Unknown
<1>. DEFINE d == Linked(c, o, e)
<1>1. c \in Books /\ e \in Entry
  BY DEF Good, Books
<1>2. /\ SameEntries(c, d) /\ d.gtins = c.gtins /\ d.on[o] = e /\ d.queued[o] = Unknown
      /\ \A p \in Offer \ {o} : d.on[p] = c.on[p]
  BY <1>1 DEF Linked, SameEntries, Books
<1>. HIDE DEF d
<1>3. \A p \in Offer : d.on[p] \in c.live \cup {Unknown}
  BY <1>2 DEF Good, RefersOK
<1>4. MoreCodes(c, d)
  BY <1>2 DEF MoreCodes, Good, BlankOK
<1>. QED
  BY <1>2, <1>3, <1>4 DEF Placing, d

LEMMA QueuedOut ==
    ASSUME NEW c, Good(c), NEW o \in Offer, NEW as \in {"unmatched", "unsure", "ambiguous"}
    PROVE  /\ Placing(c, Queued(c, o, as)) /\ Queued(c, o, as).gtins = c.gtins
           /\ Queued(c, o, as).queued[o] # Unknown
<1>. DEFINE d == Queued(c, o, as)
<1>1. c \in Books /\ as # Unknown
  BY CatalogueAssumption DEF Good
<1>2. SameEntries(c, d) /\ d.gtins = c.gtins /\ d.on = c.on /\ d.queued[o] = as
  BY <1>1 DEF Queued, SameEntries, Books
<1>. HIDE DEF d
<1>3. \A p \in Offer : d.on[p] \in c.live \cup {Unknown}
  BY <1>2 DEF Good, RefersOK
<1>4. MoreCodes(c, d)
  BY <1>2 DEF MoreCodes, Good, BlankOK
<1>. QED
  BY <1>1, <1>2, <1>3, <1>4 DEF Placing, d

LEMMA LearnOut ==
    ASSUME NEW c, Good(c), NEW e \in c.live, NEW r \in Reading
    PROVE  /\ Placing(c, Learn(c, e, r))
           /\ Learn(c, e, r).on = c.on /\ Learn(c, e, r).queued = c.queued
<1>. DEFINE d == [c EXCEPT !.gtins[e][r.gtin] = "rule"]
<1>1. c \in Books /\ e \in Entry /\ Unknown # "rule"
  BY CatalogueAssumption DEF Good, Books
<1>2. Placing(c, c)
  <2>1. SameEntries(c, c) /\ MoreCodes(c, c)
    BY <1>1 DEF SameEntries, MoreCodes, Good, BlankOK
  <2>. QED
    BY <2>1 DEF Placing, Good, RefersOK
<1>3. CASE r.gtin = Unknown \/ ~Complete(c, e, r)
  BY <1>2, <1>3 DEF Learn
<1>4. CASE ~(r.gtin = Unknown \/ ~Complete(c, e, r))
  <2>1. r.gtin \in Gtin
    BY <1>4 DEF Reading
  <2>2. /\ SameEntries(c, d) /\ d.on = c.on /\ d.queued = c.queued
        /\ \A f \in Entry, g \in Gtin :
              d.gtins[f][g] = IF f = e /\ g = r.gtin THEN "rule" ELSE c.gtins[f][g]
    BY <1>1, <2>1 DEF SameEntries, Books
  <2>3. Learn(c, e, r) = d
    BY <1>4 DEF Learn
  <2>. HIDE DEF d
  <2>4. MoreCodes(c, d)
    BY <1>1, <2>2 DEF MoreCodes, Good, BlankOK
  <2>5. \A p \in Offer : d.on[p] \in c.live \cup {Unknown}
    BY <2>2 DEF Good, RefersOK
  <2>6. Placing(c, d)
    BY <2>2, <2>4, <2>5 DEF Placing
  <2>. QED
    BY <2>2, <2>3, <2>6
<1>. QED
  BY <1>3, <1>4

(* What is filled in of a listing's reading are axes nothing was known of. *)
LEMMA GapsOf ==
    ASSUME NEW c, NEW e, NEW S \in SUBSET Axis, \A a \in S : c.axes[e][a] = Unknown,
           NEW said, \A a \in Axis : said[a] \in Value \cup {Unknown}
    PROVE  Gaps(c, e, SetToSeq(S), said)
<1>1. IsFiniteSet(S)
  BY FS_Subset, CatalogueAssumption
<1>. DEFINE s == SetToSeq(S)
<1>2. s \in Seq(S) /\ Once(s) /\ S = {s[i] : i \in 1 .. Len(s)}
  BY <1>1, EachOnce
<1>. HIDE DEF s
<1>3. s \in Seq(Axis)
  BY <1>2
<1>. QED
  BY <1>2, <1>3 DEF Gaps, s

LEMMA ReconcileOut ==
    ASSUME NEW c, Good(c), bearing \subseteq Axis, NEW e \in c.live, NEW r \in Reading
    PROVE  /\ Onward(c, Reconcile(c, e, r)) /\ Reconcile(c, e, r).made = c.made
           /\ Reconcile(c, e, r).on = c.on /\ Reconcile(c, e, r).queued = c.queued
<1>. DEFINE S == {a \in Says(r) : c.axes[e][a] = Unknown}
            order == SetToSeq(S)
            x == SetAxes(Done(c), e, order, r.axes)
<1>1. \A a \in Axis : r.axes[a] \in Value \cup {Unknown}
  BY DEF Reading
<1>2. S \in SUBSET Axis /\ \A a \in S : c.axes[e][a] = Unknown
  BY DEF Says
<1>3. Reconcile(c, e, r) = x.cat
  BY DEF Reconcile
<1>. HIDE DEF S
<1>4. Gaps(c, e, order, r.axes)
  BY <1>1, <1>2, GapsOf
<1>5. Filled(c, e, order, r.axes, Len(order), x)
  BY <1>4, SetAxesOut
<1>. HIDE DEF x
<1>6. Good(x.cat) /\ SameButAxes(c, x.cat, e)
  BY <1>5 DEF Filled
<1>7. Onward(c, x.cat)
  BY <1>6, SameCodes DEF SameButAxes
<1>. QED
  BY <1>3, <1>6, <1>7 DEF SameButAxes

-----------------------------------------------------------------------------
(* What the ladder does with a listing: it queues it, or links it to the   *)
(* one entry its barcode or its model finds.                               *)
Found(c, r) == IF r.model = Unknown THEN {} ELSE Candidates(c, r)
AsQueued(c, o, r, d) ==
    /\ Cardinality(ByGtin(c, r)) # 1 /\ ~(ByGtin(c, r) = {} /\ Cardinality(Found(c, r)) = 1)
    /\ \E as \in {"unmatched", "unsure", "ambiguous"} : d = Queued(c, o, as)
AsByCode(c, o, r, d) == \E e : ByGtin(c, r) = {e} /\ d = Reconcile(Linked(c, o, e), e, r)
AsByModel(c, o, r, d) ==
    \E e : /\ ByGtin(c, r) = {} /\ Found(c, r) = {e}
           /\ d = Reconcile(Learn(Linked(c, o, e), e, r), e, r)

LEMMA CandidatesAre == \A c, r : Found(c, r) \subseteq c.live /\ ByGtin(c, r) \subseteq c.live
  BY DEF Found, Candidates, ByModel, ByGtin, Holds

LEMMA LiveFinite ==
    ASSUME NEW c, Good(c), NEW S \in SUBSET c.live
    PROVE  IsFiniteSet(S)
BY FS_Subset, EntryIds DEF Good, Books

LEMMA Decides ==
    ASSUME NEW c, Good(c), NEW o, NEW r
    PROVE  LET d == Decide(c, o, r)
           IN  AsQueued(c, o, r, d) \/ AsByCode(c, o, r, d) \/ AsByModel(c, o, r, d)
<1>. DEFINE found == ByGtin(c, r)
            named == Found(c, r)
            as == IF ~Strict /\ \E e \in ByModel(c, r) : Unverifiable(c, e, r)
                  THEN "unsure" ELSE "unmatched"
            d == Decide(c, o, r)
            f == CHOOSE g \in found : TRUE
            n == CHOOSE g \in named : TRUE
            byCode == Reconcile(Linked(c, o, f), f, r)
            byName == Reconcile(Learn(Linked(c, o, n), n, r), n, r)
            first == Cardinality(found) = 1
            second == found = {} /\ Cardinality(named) = 1
            third == found \cup named = {}
<1>1. d = CASE first -> byCode [] second -> byName [] third -> Queued(c, o, as)
            [] OTHER -> Queued(c, o, "ambiguous")
  BY DEF Decide, Found
<1>2. IsFiniteSet(found) /\ IsFiniteSet(named)
  BY CandidatesAre, LiveFinite
<1>3. Cardinality({}) = 0
  BY FS_EmptySet
<1>4. \A S : IsFiniteSet(S) /\ Cardinality(S) = 1 => S = {CHOOSE x \in S : TRUE}
  BY FS_Singleton
<1>5. as \in {"unmatched", "unsure", "ambiguous"}
  OBVIOUS
<1>. HIDE DEF d
<1>. SUFFICES AsQueued(c, o, r, d) \/ AsByCode(c, o, r, d) \/ AsByModel(c, o, r, d)
  BY Zenon DEF d
<1>. HIDE DEF found, named, as, f, n, byCode, byName
<1>10. (first => ~second /\ ~third) /\ (second => ~first /\ ~third)
  BY <1>3
<1>11. /\ first => d = byCode
       /\ second => d = byName
       /\ ~first /\ ~second => d = Queued(c, o, as) \/ d = Queued(c, o, "ambiguous")
  <2>. HIDE DEF first, second, third
  <2>. QED
    BY <1>1, <1>10
<1>6. CASE Cardinality(found) = 1
  <2>1. d = Reconcile(Linked(c, o, f), f, r)
    BY <1>6, <1>11 DEF byCode
  <2>2. found = {f}
    BY <1>2, <1>4, <1>6 DEF f
  <2>. QED
    BY <2>1, <2>2 DEF AsByCode, found
<1>7. CASE found = {} /\ Cardinality(named) = 1
  <2>1. d = Reconcile(Learn(Linked(c, o, n), n, r), n, r)
    BY <1>7, <1>11 DEF byName
  <2>2. named = {n}
    BY <1>2, <1>4, <1>7 DEF n
  <2>. QED
    BY <1>7, <2>1, <2>2 DEF AsByModel, found, named
<1>8. CASE Cardinality(found) # 1 /\ ~(found = {} /\ Cardinality(named) = 1)
  <2>1. d = Queued(c, o, as) \/ d = Queued(c, o, "ambiguous")
    BY <1>8, <1>11
  <2>2. \E to \in {"unmatched", "unsure", "ambiguous"} : d = Queued(c, o, to)
    BY <1>5, <2>1
  <2>. QED
    BY <1>8, <2>2 DEF AsQueued, found, named
<1>. QED
  BY <1>6, <1>7, <1>8

(* It loses nothing, and where it queues the listing it changes no entry.  *)
IsFound(c, r, e) == ByGtin(c, r) = {e} \/ (ByGtin(c, r) = {} /\ Found(c, r) = {e})
WhereFound(c, o, r, d) == \A e : IsFound(c, r, e) => d.on[o] = e
Decided(c, o, r, d) ==
    /\ Onward(c, d) /\ d.made = c.made
    /\ d.queued[o] # Unknown => AsQueued(c, o, r, d) /\ Placing(c, d) /\ d.gtins = c.gtins
    /\ WhereFound(c, o, r, d)

LEMMA DecideOut ==
    ASSUME NEW c, Good(c), bearing \subseteq Axis, NEW o \in Offer, NEW r \in Reading
    PROVE  Decided(c, o, r, Decide(c, o, r))
<1>. DEFINE d == Decide(c, o, r)
<1>1. AsQueued(c, o, r, d) \/ AsByCode(c, o, r, d) \/ AsByModel(c, o, r, d)
  BY Decides
<1>. HIDE DEF d
<1>. SUFFICES Decided(c, o, r, d)
  BY Zenon DEF d
<1>2. \A e, f : {e} = {f} => e = f
  OBVIOUS
<1>3. CASE AsQueued(c, o, r, d)
  <2>4. PICK as \in {"unmatched", "unsure", "ambiguous"} : d = Queued(c, o, as)
    BY <1>3 DEF AsQueued
  <2>1. Placing(c, d) /\ d.gtins = c.gtins
    BY <2>4, QueuedOut
  <2>2. Onward(c, d) /\ d.made = c.made
    BY <2>1, PlacingOut DEF Placing, SameEntries
  <2>3. WhereFound(c, o, r, d)
    <3>1. \A e : Cardinality({e}) = 1
      BY FS_Singleton
    <3>2. \A e : ~IsFound(c, r, e)
      BY <1>3, <3>1 DEF AsQueued, IsFound
    <3>. QED
      BY <3>2 DEF WhereFound
  <2>. QED
    BY <1>3, <2>1, <2>2, <2>3 DEF Decided
<1>4. CASE AsByCode(c, o, r, d)
  <2>1. PICK e : ByGtin(c, r) = {e} /\ d = Reconcile(Linked(c, o, e), e, r)
    BY <1>4 DEF AsByCode
  <2>2. e \in c.live
    BY <2>1, CandidatesAre
  <2>. DEFINE l == Linked(c, o, e)
  <2>3. Placing(c, l) /\ l.on[o] = e /\ l.queued[o] = Unknown
    BY <2>2, LinkedOut
  <2>. HIDE DEF l
  <2>4. Good(l) /\ Onward(c, l) /\ l.live = c.live /\ l.made = c.made
    BY <2>3, PlacingOut DEF Placing, SameEntries
  <2>5. Onward(l, d) /\ d.made = l.made /\ d.on = l.on /\ d.queued = l.queued
    BY <2>1, <2>2, <2>4, ReconcileOut DEF l
  <2>6. Onward(c, d)
    BY <2>4, <2>5, OnwardOn
  <2>7. WhereFound(c, o, r, d)
    <3>1. d.on[o] = e /\ \A f : IsFound(c, r, f) => f = e
      BY <1>2, <2>1, <2>3, <2>5 DEF IsFound
    <3>. QED
      BY <3>1 DEF WhereFound
  <2>. QED
    BY <2>3, <2>4, <2>5, <2>6, <2>7 DEF Decided
<1>5. CASE AsByModel(c, o, r, d)
  <2>1. PICK e : /\ ByGtin(c, r) = {} /\ Found(c, r) = {e}
                 /\ d = Reconcile(Learn(Linked(c, o, e), e, r), e, r)
    BY <1>5 DEF AsByModel
  <2>2. e \in c.live
    BY <2>1, CandidatesAre
  <2>. DEFINE l == Linked(c, o, e)
              k == Learn(l, e, r)
  <2>3. Placing(c, l) /\ l.on[o] = e /\ l.queued[o] = Unknown
    BY <2>2, LinkedOut
  <2>. HIDE DEF l
  <2>4. Good(l) /\ Onward(c, l) /\ l.live = c.live /\ l.made = c.made
    BY <2>3, PlacingOut DEF Placing, SameEntries
  <2>5. Placing(l, k) /\ k.on = l.on /\ k.queued = l.queued
    BY <2>2, <2>4, LearnOut
  <2>. HIDE DEF k
  <2>6. Good(k) /\ Onward(l, k) /\ k.live = l.live /\ k.made = l.made
    BY <2>4, <2>5, PlacingOut DEF Placing, SameEntries
  <2>7. Onward(k, d) /\ d.made = k.made /\ d.on = k.on /\ d.queued = k.queued
    BY <2>1, <2>2, <2>4, <2>6, ReconcileOut DEF l, k
  <2>8. Onward(c, d)
    <3>1. Onward(c, k)
      BY <2>4, <2>6, OnwardOn
    <3>. QED
      BY <2>7, <3>1, OnwardOn
  <2>9. WhereFound(c, o, r, d)
    <3>1. d.on[o] = e /\ \A f : IsFound(c, r, f) => f = e
      BY <1>2, <2>1, <2>3, <2>5, <2>7 DEF IsFound
    <3>. QED
      BY <3>1 DEF WhereFound
  <2>. QED
    BY <2>3, <2>4, <2>5, <2>6, <2>7, <2>8, <2>9 DEF Decided
<1>. QED
  BY <1>1, <1>3, <1>4, <1>5, Zenon

-----------------------------------------------------------------------------
(* An entry made of a reading has all it says. *)
Made(c, r, d) ==
    LET n == c.made + 1
    IN  /\ Onward(c, d) /\ d.made = n /\ d.live = c.live \cup {n} /\ n \in Entry \ c.live
        /\ d.model[n] = r.model /\ d.key[n] = KeyOf(d, n)
        /\ \A a \in Axis : d.axes[n][a] = r.axes[a]
        /\ \A f \in Entry \ {n} : /\ d.model[f] = c.model[f] /\ d.key[f] = c.key[f]
                                  /\ d.axes[f] = c.axes[f] /\ d.gtins[f] = c.gtins[f]
        /\ r.gtin # Unknown => d.gtins[n][r.gtin] = "stated"

LEMMA MadeFromOut ==
    ASSUME NEW c, Good(c), bearing \subseteq Axis, NEW r \in Reading,
           r.model # Unknown, c.made < MaxEntries, MadeFrom(c, r).twin = Unknown
    PROVE  Made(c, r, MadeFrom(c, r).cat)
<1>. DEFINE n == c.made + 1
            new == New(c, r.model)
            code == IF r.gtin = Unknown THEN new.cat
                    ELSE [new.cat EXCEPT !.gtins[n][r.gtin] = "stated"]
            order == SetToSeq(Says(r))
            x == SetAxes(Done(code), n, order, r.axes)
<1>1. /\ c \in Books /\ c.live \subseteq Entry /\ c.made \in Nat /\ c.live \subseteq 1 .. c.made
      /\ n \in Entry /\ n \notin c.live
  <2>1. c \in Books /\ c.live \subseteq Entry /\ c.made \in Nat /\ c.live \subseteq 1 .. c.made
    BY CatalogueAssumption DEF Good, Books, RefersOK
  <2>2. n \in Entry /\ n \notin 1 .. c.made
    BY <2>1, CatalogueAssumption DEF Entry
  <2>. QED
    BY <2>1, <2>2
<1>2. r.model \in Model /\ r.gtin \in Gtin \cup {Unknown}
      /\ \A a \in Axis : r.axes[a] \in Value \cup {Unknown}
  BY DEF Reading
<1>3. MadeFrom(c, r) = IF new.twin # Unknown THEN new ELSE x
  BY DEF MadeFrom
<1>4. MadeNew(c, r.model, new)
  BY <1>2, NewOut
<1>. HIDE DEF new
<1>5. new.twin = Unknown /\ MadeFrom(c, r) = x
  BY <1>3
<1>. DEFINE b == new.cat
<1>6. /\ Good(b) /\ b.made = n /\ b.live = c.live \cup {n}
      /\ b.gtins = c.gtins /\ b.on = c.on /\ b.queued = c.queued
      /\ b.model[n] = r.model /\ \A a \in Axis : b.axes[n][a] = Unknown
      /\ \A f \in Entry \ {n} : /\ b.model[f] = c.model[f] /\ b.key[f] = c.key[f]
                                /\ b.axes[f] = c.axes[f]
      /\ b.key[n] = KeyOf(b, n)
  BY <1>4, <1>5 DEF MadeNew
<1>7. code = IF r.gtin = Unknown THEN b ELSE [b EXCEPT !.gtins[n][r.gtin] = "stated"]
  OBVIOUS
<1>. HIDE DEF b, code, n
<1>8. /\ SameEntries(b, code) /\ code.on = b.on
      /\ \A f \in Entry \ {n} : code.gtins[f] = b.gtins[f]
      /\ \A g \in Gtin : code.gtins[n][g] = IF g = r.gtin THEN "stated" ELSE b.gtins[n][g]
  <2>1. b \in Books
    BY <1>6 DEF Good
  <2>2. CASE r.gtin = Unknown
    <3>1. r.gtin \notin Gtin
      BY <2>2, CatalogueAssumption
    <3>. QED
      BY <1>7, <2>1, <2>2, <3>1 DEF SameEntries
  <2>3. CASE r.gtin # Unknown
    <3>1. r.gtin \in Gtin
      BY <1>2, <2>3
    <3>2. code = [b EXCEPT !.gtins[n][r.gtin] = "stated"]
      BY <1>7, <2>3
    <3>3. code \in Books
      BY <1>1, <2>1, <3>1, <3>2 DEF Books
    <3>4. /\ code.made = b.made /\ code.live = b.live /\ code.model = b.model
          /\ code.axes = b.axes /\ code.key = b.key /\ code.merges = b.merges /\ code.on = b.on
          /\ code.gtins = [b.gtins EXCEPT ![n][r.gtin] = "stated"]
      BY <2>1, <3>2 DEF Books
    <3>5. b.gtins \in [Entry -> [Gtin -> {"rule", "stated", Unknown}]]
      BY <2>1 DEF Books
    <3>6. /\ \A f \in Entry \ {n} : code.gtins[f] = b.gtins[f]
          /\ \A g \in Gtin : code.gtins[n][g] = IF g = r.gtin THEN "stated" ELSE b.gtins[n][g]
      BY <1>1, <3>1, <3>4, <3>5
    <3>. QED
      BY <3>3, <3>4, <3>6 DEF SameEntries
  <2>. QED
    BY <2>2, <2>3
<1>9. Placing(b, code)
  <2>1. "stated" # Unknown
    BY CatalogueAssumption
  <2>2. MoreCodes(b, code)
    <3>. SUFFICES ASSUME NEW e \in Entry, NEW g \in Gtin
                  PROVE  /\ b.gtins[e][g] # Unknown => code.gtins[e][g] # Unknown
                         /\ e \notin b.live => code.gtins[e][g] = Unknown
      BY DEF MoreCodes
    <3>1. e \notin b.live => b.gtins[e][g] = Unknown /\ e # n
      BY <1>6 DEF Good, BlankOK
    <3>. QED
      BY <1>8, <2>1, <3>1
  <2>3. \A o \in Offer : code.on[o] \in b.live \cup {Unknown}
    BY <1>6, <1>8 DEF Good, RefersOK
  <2>. QED
    BY <1>8, <2>2, <2>3 DEF Placing
<1>10. Good(code) /\ Onward(b, code)
  BY <1>6, <1>9, PlacingOut
<1>11. /\ code.made = n /\ code.live = c.live \cup {n} /\ code.model = b.model
       /\ code.axes = b.axes /\ code.key = b.key
  BY <1>6, <1>8 DEF SameEntries
<1>12. Gaps(code, n, order, r.axes)
  <2>1. Says(r) \in SUBSET Axis /\ \A a \in Says(r) : code.axes[n][a] = Unknown
    BY <1>6, <1>11 DEF Says
  <2>. QED
    BY <1>2, <2>1, GapsOf
<1>13. Filled(code, n, order, r.axes, Len(order), x)
  BY <1>10, <1>11, <1>12, SetAxesOut
<1>. HIDE DEF x
<1>14. Good(x.cat) /\ SameButAxes(code, x.cat, n) /\ FilledTo(code, n, order, r.axes, Len(order), x.cat)
  BY <1>5, <1>13 DEF Filled
<1>15. Onward(c, x.cat)
  <2>1. KeepsCodes(c, b)
    BY <1>6 DEF KeepsCodes, Holds
  <2>2. Onward(c, b)
    BY <1>1, <1>6, <2>1 DEF Onward, n
  <2>3. Onward(code, x.cat)
    BY <1>10, <1>14, SameCodes DEF SameButAxes
  <2>4. Onward(c, code)
    BY <1>6, <1>10, <2>2, OnwardOn
  <2>. QED
    BY <2>3, <2>4, OnwardOn
<1>16. \A a \in Axis : x.cat.axes[n][a] = r.axes[a]
  <2>. SUFFICES ASSUME NEW a \in Axis PROVE x.cat.axes[n][a] = r.axes[a]
    OBVIOUS
  <2>1. IsFiniteSet(Says(r))
    BY FS_Subset, CatalogueAssumption DEF Says
  <2>2. Says(r) = {order[i] : i \in 1 .. Len(order)}
    BY <2>1, EachOnce
  <2>. HIDE DEF order
  <2>3. CASE a \in Says(r)
    <3>1. PICK i \in 1 .. Len(order) : order[i] = a
      BY <2>2, <2>3
    <3>. QED
      BY <1>14, <3>1 DEF FilledTo
  <2>4. CASE a \notin Says(r)
    <3>1. \A i \in 1 .. Len(order) : order[i] # a
      BY <2>2, <2>4
    <3>2. x.cat.axes[n][a] = code.axes[n][a]
      BY <1>14, <3>1 DEF FilledTo
    <3>. QED
      BY <1>6, <1>11, <2>4, <3>2 DEF Says
  <2>. QED
    BY <2>3, <2>4
<1>17. x.cat.key[n] = KeyOf(x.cat, n)
  <2>1. KeyOf(code, n) = KeyOf(b, n)
    BY <1>11 DEF KeyOf
  <2>2. code.key[n] = KeyOf(code, n)
    BY <1>6, <1>11, <2>1
  <2>. QED
    BY <1>14, <2>2 DEF FilledTo
<1>18. /\ x.cat.made = n /\ x.cat.live = c.live \cup {n} /\ x.cat.model[n] = r.model
       /\ x.cat.gtins = code.gtins
       /\ \A f \in Entry \ {n} : /\ x.cat.model[f] = c.model[f] /\ x.cat.key[f] = c.key[f]
                                 /\ x.cat.axes[f] = c.axes[f]
  BY <1>6, <1>11, <1>14 DEF SameButAxes
<1>19. /\ \A f \in Entry \ {n} : x.cat.gtins[f] = c.gtins[f]
       /\ r.gtin # Unknown => x.cat.gtins[n][r.gtin] = "stated"
  <2>1. r.gtin # Unknown => r.gtin \in Gtin
    BY <1>2
  <2>. QED
    BY <1>6, <1>8, <1>18, <2>1
<1>20. Made(c, r, x.cat)
  BY <1>1, <1>15, <1>16, <1>17, <1>18, <1>19 DEF Made, n
<1>. QED
  BY <1>5, <1>20

-----------------------------------------------------------------------------
(* The promotion. *)
LEMMA SameAxesAgree ==
    ASSUME NEW c, NEW d, NEW e, NEW r, c.axes[e] = d.axes[e]
    PROVE  /\ Shared(c, e, r) = Shared(d, e, r)
           /\ Agrees(c, e, r) <=> Agrees(d, e, r)
           /\ Complete(c, e, r) <=> Complete(d, e, r)
<1>1. Shared(c, e, r) = Shared(d, e, r)
  BY DEF Shared
<1>2. Agrees(c, e, r) <=> Agrees(d, e, r)
  BY <1>1 DEF Agrees
<1>. QED
  BY <1>1, <1>2 DEF Complete

(* An entry made of a reading that the ladder found nothing for is the one *)
(* it finds then.                                                          *)
FindableIn(c, r) ==
    IF r.gtin # Unknown THEN Cardinality(Holds(c, r.gtin)) < 2
    ELSE \A e \in c.live : KeyOf(c, e) # Unknown => \E f \in c.live : c.key[f] = KeyOf(c, e)

LEMMA FoundByCode ==
    ASSUME NEW c, Good(c), NEW r \in Reading, NEW d, Made(c, r, d),
           r.gtin # Unknown, Cardinality(ByGtin(c, r)) # 1, Cardinality(Holds(c, r.gtin)) < 2
    PROVE  ByGtin(d, r) = {c.made + 1}
<1>. DEFINE n == c.made + 1
            g == r.gtin
<1>1. /\ d.live = c.live \cup {n} /\ n \in Entry \ c.live /\ c.live \subseteq Entry
      /\ d.gtins[n][g] = "stated" /\ "stated" # Unknown
      /\ \A f \in Entry \ {n} : d.axes[f] = c.axes[f] /\ d.gtins[f] = c.gtins[f]
  BY CatalogueAssumption DEF Made, Good, Books
<1>2. IsFiniteSet(Holds(c, g)) /\ ByGtin(c, r) \subseteq Holds(c, g)
  BY LiveFinite DEF Holds, ByGtin
<1>3. ByGtin(c, r) = {}
  <2>1. IsFiniteSet(ByGtin(c, r)) /\ Cardinality(ByGtin(c, r)) <= Cardinality(Holds(c, g))
    BY <1>2, FS_Subset
  <2>2. Cardinality(ByGtin(c, r)) \in Nat /\ Cardinality(Holds(c, g)) \in Nat
    BY <1>2, <2>1, FS_CardinalityType
  <2>3. Cardinality(ByGtin(c, r)) = 0
    BY <2>1, <2>2
  <2>. QED
    BY <2>1, <2>3, FS_EmptySet
<1>. HIDE DEF n
<1>4. n \in ByGtin(d, r)
  BY <1>1 DEF ByGtin, Holds
<1>5. ASSUME NEW e \in ByGtin(d, r), e # n PROVE FALSE
  <2>1. e \in d.live /\ d.gtins[e][g] # Unknown /\ (d.gtins[e][g] = "stated" \/ Agrees(d, e, r))
    BY DEF ByGtin, Holds
  <2>2. e \in c.live /\ e \in Entry \ {n}
    BY <1>1, <1>5, <2>1
  <2>3. d.axes[e] = c.axes[e] /\ d.gtins[e] = c.gtins[e]
    BY <1>1, <2>2
  <2>4. Agrees(d, e, r) <=> Agrees(c, e, r)
    BY <2>3, SameAxesAgree
  <2>5. e \in ByGtin(c, r)
    BY <2>1, <2>2, <2>3, <2>4 DEF ByGtin, Holds
  <2>. QED
    BY <1>3, <2>5
<1>. QED
  BY <1>4, <1>5 DEF n

LEMMA FoundByModel ==
    ASSUME NEW c, Good(c), bearing \subseteq Axis, NEW r \in Reading, NEW d, Made(c, r, d),
           r.gtin = Unknown, r.model # Unknown, bearing # {}, bearing \subseteq Says(r),
           \A e \in c.live : KeyOf(c, e) # Unknown => \E f \in c.live : c.key[f] = KeyOf(c, e)
    PROVE  ByGtin(d, r) = {} /\ Found(d, r) = {c.made + 1}
<1>. DEFINE n == c.made + 1
<1>1. /\ d.live = c.live \cup {n} /\ n \in Entry \ c.live /\ c.live \subseteq Entry /\ Good(d)
      /\ d.model[n] = r.model /\ d.key[n] = KeyOf(d, n)
      /\ \A a \in Axis : d.axes[n][a] = r.axes[a]
      /\ \A f \in Entry \ {n} : /\ d.model[f] = c.model[f] /\ d.key[f] = c.key[f]
                                /\ d.axes[f] = c.axes[f]
  BY DEF Made, Good, Books, Onward
<1>. HIDE DEF n
<1>2. ByGtin(d, r) = {}
  BY DEF ByGtin, Holds
<1>3. /\ Says(r) # {} /\ Says(r) \subseteq Axis /\ Shared(d, n, r) = Says(r)
      /\ Agrees(d, n, r) /\ Complete(d, n, r)
  <2>1. Says(r) # {} /\ Says(r) \subseteq Axis
    BY DEF Says
  <2>2. Shared(d, n, r) = Says(r)
    BY <1>1, <2>1 DEF Shared, Says
  <2>3. Agrees(d, n, r)
    BY <1>1, <2>1, <2>2 DEF Agrees
  <2>. QED
    BY <2>1, <2>2, <2>3 DEF Complete
<1>4. KeyOf(d, n) # Unknown
  <2>1. \A a \in bearing : d.axes[n][a] # Unknown
    BY <1>1 DEF Says
  <2>2. d \in Books /\ n \in Entry /\ d.model[n] \in Model
    BY <1>1 DEF Good, RefersOK
  <2>. QED
    BY <2>1, <2>2, KeyTyped
<1>5. ASSUME NEW e \in d.live, e # n, d.model[e] = r.model, Complete(d, e, r) PROVE FALSE
  <2>1. e \in c.live /\ e \in Entry \ {n}
    BY <1>1, <1>5
  <2>2. \A a \in bearing : d.axes[e][a] = r.axes[a] /\ d.axes[e][a] # Unknown
    <3>1. Agrees(d, e, r) /\ bearing \subseteq Shared(d, e, r) /\ Says(r) # {}
      BY <1>5 DEF Complete
    <3>2. \A a \in Shared(d, e, r) : d.axes[e][a] = r.axes[a] /\ d.axes[e][a] # Unknown
      BY <3>1 DEF Agrees, Shared
    <3>. QED
      BY <3>1, <3>2
  <2>3. \A a \in bearing : d.axes[e][a] = d.axes[n][a] /\ d.axes[n][a] # Unknown
    BY <1>1, <2>2
  <2>4. KeyOf(d, e) = KeyOf(d, n)
    <3>1. [a \in bearing |-> d.axes[e][a]] = [a \in bearing |-> d.axes[n][a]]
      BY <2>3
    <3>2. d.model[e] = d.model[n]
      BY <1>1, <1>5
    <3>3. /\ KeyOf(d, e) = [model |-> d.model[e], axes |-> [a \in bearing |-> d.axes[e][a]]]
          /\ KeyOf(d, n) = [model |-> d.model[n], axes |-> [a \in bearing |-> d.axes[n][a]]]
      BY <2>2, <2>3 DEF KeyOf
    <3>. QED
      BY <3>1, <3>2, <3>3
  <2>5. KeyOf(c, e) = KeyOf(d, e)
    <3>1. d.model[e] = c.model[e] /\ d.axes[e] = c.axes[e]
      BY <1>1, <2>1
    <3>. QED
      BY <3>1 DEF KeyOf
  <2>6. PICK f \in c.live : c.key[f] = KeyOf(d, n)
    BY <1>4, <2>1, <2>4, <2>5
  <2>7. f \in d.live /\ f # n /\ n \in d.live /\ d.key[f] = d.key[n] /\ d.key[f] # Unknown
    BY <1>1, <1>4, <2>6
  <2>. QED
    BY <1>1, <2>7 DEF Good, OneKey
<1>. DEFINE agreed == {e \in ByModel(d, r) : Agrees(d, e, r) /\ (Strict => Complete(d, e, r))}
            complete == {e \in agreed : Complete(d, e, r)}
<1>6. n \in agreed /\ complete = {n}
  <2>1. n \in ByModel(d, r)
    BY <1>1 DEF ByModel
  <2>2. n \in agreed /\ n \in complete
    BY <1>3, <2>1
  <2>3. \A e \in complete : e = n
    BY <1>5 DEF ByModel
  <2>. QED
    BY <2>2, <2>3
<1>7. IsFiniteSet(agreed)
  BY <1>1, LiveFinite DEF ByModel
<1>8. Candidates(d, r) = IF Cardinality(agreed) > 1 /\ Cardinality(complete) = 1
                         THEN complete ELSE agreed
  BY DEF Candidates
<1>. HIDE DEF agreed, complete
<1>9. Candidates(d, r) = {n}
  <2>1. Cardinality(complete) = 1
    BY <1>6, FS_Singleton
  <2>2. CASE Cardinality(agreed) > 1
    BY <1>6, <1>8, <2>1, <2>2
  <2>3. CASE ~(Cardinality(agreed) > 1)
    <3>1. Cardinality(agreed) \in Nat /\ Cardinality(agreed) # 0
      BY <1>6, <1>7, FS_CardinalityType, FS_EmptySet
    <3>2. Cardinality(agreed) = 1
      BY <2>3, <3>1
    <3>3. \E x : agreed = {x}
      BY <1>7, <3>2, FS_Singleton
    <3>4. agreed = {n}
      BY <1>6, <3>3
    <3>. QED
      BY <1>8, <2>3, <3>4
  <2>. QED
    BY <2>2, <2>3
<1>. QED
  BY <1>2, <1>9 DEF Found, n

PromotedAs(c, o, r, d) ==
    /\ Onward(c, d)
    /\ d.made > c.made /\ FindableIn(c, r) => d.on[o] = d.made

LEMMA PromotedOut ==
    ASSUME NEW c, Good(c), bearing \subseteq Axis, NEW o \in Offer, readings[o] \in Reading
    PROVE  PromotedAs(c, o, readings[o], Promoted(c, o))
<1>. DEFINE r == readings[o]
            t == Decide(c, o, r)
            m == MadeFrom(t, r)
            d == Promoted(c, o)
<1>1. d = IF t.queued[o] = Unknown \/ ~Promotable(t, r) \/ m.twin # Unknown
          THEN t ELSE Decide(m.cat, o, r)
  BY DEF Promoted
<1>2. Decided(c, o, r, t)
  BY DecideOut
<1>3. c.made \in Nat
  BY CatalogueAssumption DEF Good, Books
<1>. HIDE DEF d, t, m, r
<1>. SUFFICES PromotedAs(c, o, r, d)
  BY Zenon DEF d, r
<1>4. Onward(c, t) /\ t.made = c.made /\ Good(t)
  BY <1>2 DEF Decided, Onward
<1>5. CASE t.queued[o] = Unknown \/ ~Promotable(t, r) \/ m.twin # Unknown
  <2>1. d = t
    BY <1>1, <1>5
  <2>. QED
    BY <1>3, <1>4, <2>1 DEF PromotedAs
<1>6. CASE ~(t.queued[o] = Unknown \/ ~Promotable(t, r) \/ m.twin # Unknown)
  <2>1. d = Decide(m.cat, o, r)
    BY <1>1, <1>6
  <2>2. AsQueued(c, o, r, t) /\ Placing(c, t) /\ t.gtins = c.gtins
    BY <1>2, <1>6 DEF Decided
  <2>3. Promotable(t, r) /\ m.twin = Unknown /\ r \in Reading
    BY <1>6 DEF r
  <2>4. Made(t, r, m.cat)
    BY <1>4, <2>3, MadeFromOut DEF Promotable, m
  <2>5. Onward(t, m.cat) /\ Good(m.cat) /\ m.cat.made = c.made + 1
    BY <1>4, <2>4 DEF Made, Onward
  <2>6. Decided(m.cat, o, r, d)
    BY <2>1, <2>3, <2>5, DecideOut
  <2>7. Onward(c, d) /\ d.made = c.made + 1
    <3>1. Onward(c, m.cat)
      BY <1>4, <2>5, OnwardOn
    <3>. QED
      BY <2>5, <2>6, <3>1, OnwardOn DEF Decided
  <2>8. t.live = c.live /\ t.model = c.model /\ t.axes = c.axes /\ t.key = c.key
    BY <2>2 DEF Placing, SameEntries
  <2>9. ASSUME FindableIn(c, r) PROVE d.on[o] = d.made
    <3>1. CASE r.gtin # Unknown
      <4>1. Holds(t, r.gtin) = Holds(c, r.gtin)
        BY <2>2, <2>8 DEF Holds
      <4>2. \A e : Agrees(t, e, r) <=> Agrees(c, e, r)
        BY <2>8, SameAxesAgree
      <4>3. ByGtin(t, r) = ByGtin(c, r)
        BY <2>2, <4>1, <4>2 DEF ByGtin
      <4>4. Cardinality(ByGtin(t, r)) # 1 /\ Cardinality(Holds(t, r.gtin)) < 2
        BY <2>2, <2>9, <3>1, <4>1, <4>3 DEF AsQueued, FindableIn
      <4>5. ByGtin(m.cat, r) = {t.made + 1}
        BY <1>4, <2>3, <2>4, <3>1, <4>4, FoundByCode
      <4>6. IsFound(m.cat, r, c.made + 1)
        BY <1>4, <4>5 DEF IsFound
      <4>. QED
        BY <2>6, <2>7, <4>6 DEF Decided, WhereFound
    <3>2. CASE r.gtin = Unknown
      <4>1. \A e : KeyOf(t, e) = KeyOf(c, e)
        BY <2>8 DEF KeyOf
      <4>2. \A e \in t.live : KeyOf(t, e) # Unknown => \E f \in t.live : t.key[f] = KeyOf(t, e)
        BY <2>8, <2>9, <3>2, <4>1 DEF FindableIn
      <4>3. r.model # Unknown /\ bearing # {} /\ bearing \subseteq Says(r)
        BY <2>3, <3>2 DEF Promotable
      <4>4. ByGtin(m.cat, r) = {} /\ Found(m.cat, r) = {t.made + 1}
        BY <1>4, <2>3, <2>4, <3>2, <4>2, <4>3, FoundByModel
      <4>5. IsFound(m.cat, r, c.made + 1)
        BY <1>4, <4>4 DEF IsFound
      <4>. QED
        BY <2>6, <2>7, <4>5 DEF Decided, WhereFound
    <3>. QED
      BY <3>1, <3>2
  <2>. QED
    BY <2>7, <2>9 DEF PromotedAs
<1>. QED
  BY <1>5, <1>6

-----------------------------------------------------------------------------
(* What the listings of an entry say: its new value, its new name. *)
LEMMA OnFinite == \A c, e : IsFiniteSet(On(c, e)) /\ On(c, e) \subseteq Offer
<1>. SUFFICES ASSUME NEW c, NEW e PROVE IsFiniteSet(On(c, e)) /\ On(c, e) \subseteq Offer
  OBVIOUS
<1>1. On(c, e) \subseteq Offer
  BY DEF On
<1>. QED
  BY <1>1, FS_Subset, CatalogueAssumption

LEMMA SaidOnes ==
    ASSUME readings \in [Offer -> Reading], NEW c, NEW e, NEW a \in Axis
    PROVE  AxesSaid(c, e, a) \subseteq Value \cup {Unknown}
BY OnFinite DEF AxesSaid, Reading

LEMMA NewValueOut ==
    ASSUME readings \in [Offer -> Reading], NEW c, NEW e, NEW a \in Axis, IsStale(c, e, a)
    PROVE  NewValue(c, e, a) \in Value
<1>. DEFINE S == AxesSaid(c, e, a)
<1>1. S \subseteq Value \cup {Unknown}
  BY SaidOnes
<1>2. S \ {Unknown} # {}
  <2>1. Cardinality({}) # 1
    BY FS_EmptySet
  <2>2. CASE c.axes[e][a] # Unknown
    BY <2>1, <2>2 DEF IsStale
  <2>3. CASE c.axes[e][a] = Unknown
    <3>1. Cardinality(S) = 1 /\ Unknown \notin S
      BY <2>3 DEF IsStale
    <3>. QED
      BY <2>1, <3>1
  <2>. QED
    BY <2>2, <2>3
<1>. HIDE DEF S
<1>3. NewValue(c, e, a) = CHOOSE v \in S \ {Unknown} : TRUE
  BY DEF NewValue, S
<1>. QED
  BY <1>1, <1>2, <1>3

LEMMA NewNameOut ==
    ASSUME readings \in [Offer -> Reading], NEW c, NEW e \in StaleNames(c)
    PROVE  NewName(c, e) \in Model
<1>. DEFINE S == ModelsSaid(c, e)
            said == [o \in On(c, e) |-> readings[o].model]
            f == [m \in S |-> Votes(c, e, m)]
<1>1. S # {} /\ S \subseteq Model
  BY OnFinite DEF StaleNames, ModelsSaid, Reading
<1>2. IsFiniteSet(S)
  <2>. DEFINE T == {readings[o].model : o \in On(c, e)}
  <2>1. T = {said[o] : o \in On(c, e)} /\ DOMAIN said = On(c, e)
    OBVIOUS
  <2>2. S \subseteq T
    BY DEF ModelsSaid
  <2>. HIDE DEF said, T, S
  <2>3. IsFiniteSet(T)
    BY <2>1, OnFinite, ImageOf
  <2>. QED
    BY <2>2, <2>3, FS_Subset
<1>3. \A m : Votes(c, e, m) \in Nat
  <2>. SUFFICES ASSUME NEW m PROVE Votes(c, e, m) \in Nat
    OBVIOUS
  <2>1. {o \in On(c, e) : readings[o].model = m} \subseteq On(c, e)
    OBVIOUS
  <2>. QED
    BY <2>1, OnFinite, FS_Subset, FS_CardinalityType DEF Votes
<1>. HIDE DEF S
<1>4. f \in [S -> Nat]
  BY <1>3
<1>5. \E m \in S : \A k \in S : f[k] <= f[m]
  <2>. HIDE DEF f
  <2>. QED
    BY <1>1, <1>2, <1>4, MostOf
<1>6. \E m \in S : \A other \in S : Votes(c, e, other) <= Votes(c, e, m)
  BY <1>5
<1>7. NewName(c, e) = CHOOSE m \in S : \A other \in S : Votes(c, e, other) <= Votes(c, e, m)
  BY DEF NewName, S
<1>8. NewName(c, e) \in S
  BY <1>6, <1>7
<1>. QED
  BY <1>1, <1>8

-----------------------------------------------------------------------------
(* The rebuild: what each step of it leads on to, the whole comes to.      *)
Aligning(c, d, e, a) == IF e \notin d.live THEN d
                        ELSE OrMerged(d, e, SetAxis(d, e, a, NewValue(c, e, a)))
DueNames(c)     == {e \in StaleNames(c) : Cardinality({f \in StaleNames(c) : f < e}) < Limit}
Naming(c, d, e) == IF e \notin DueNames(c) \cap d.live THEN d
                   ELSE OrMerged(d, e, SetModel(d, e, NewName(c, e)))

LEMMA RealignedThrough ==
    ASSUME NEW c, NEW stale, Len(stale) \in Nat,
           NEW Q \in [0 .. Len(stale) -> SUBSET Books], c \in Q[0],
           \A i \in 1 .. Len(stale) : \A d \in Q[i - 1] :
               Aligning(c, d, stale[i][1], stale[i][2]) \in Q[i]
    PROVE  Realigned(c, stale) \in Q[Len(stale)]
<1>. DEFINE n == Len(stale)
            Then(d, i) == IF stale[i][1] \notin d.live THEN d
                          ELSE OrMerged(d, stale[i][1],
                                   SetAxis(d, stale[i][1], stale[i][2],
                                           NewValue(c, stale[i][1], stale[i][2])))
            F == [i \in 1 .. n |-> [d \in Books |-> Then(d, i)]]
            Ruled(u) == u = [i \in 0 .. n |-> IF i = 0 THEN c ELSE Then(u[i - 1], i)]
            upto == CHOOSE u : Ruled(u)
<1>1. n \in Nat /\ c \in Books
  BY 0 \in 0 .. n
<1>2. \A i \in 1 .. n : i \in 0 .. n /\ i - 1 \in 0 .. n /\ i # 0
  BY <1>1
<1>3. \A i \in 1 .. n : \A d \in Q[i - 1] : Then(d, i) \in Q[i]
  BY DEF Aligning
<1>5. Realigned(c, stale) = upto[n]
  BY DEF Realigned
<1>. HIDE DEF Then
<1>7. \A i \in 1 .. n : \A d \in Books : F[i][d] = Then(d, i)
  OBVIOUS
<1>. HIDE DEF F, n
<1>6. Q \in [0 .. n -> SUBSET Books] /\ c \in Q[0]
  BY DEF n
<1>8. LeadsOn(n, Q, F)
  BY <1>2, <1>3, <1>6, <1>7 DEF LeadsOn
<1>9. Ruled(upto)
  <2>7. PICK f : Stepped(f, n, Books, c, F)
    BY <1>1, <1>6, <1>8, StepsWithin
  <2>1. /\ f = [i \in 0 .. n |-> IF i = 0 THEN c ELSE F[i][f[i - 1]]]
        /\ \A i \in 0 .. n : f[i] \in Books
    BY <2>7, Zenon DEF Stepped
  <2>2. \A i \in 0 .. n : i = 0 \/ i \in 1 .. n
    BY <1>1
  <2>3. \A i \in 1 .. n : F[i][f[i - 1]] = Then(f[i - 1], i)
    BY <1>2, <1>7, <2>1
  <2>4. \A i \in 0 .. n : (IF i = 0 THEN c ELSE F[i][f[i - 1]])
                          = (IF i = 0 THEN c ELSE Then(f[i - 1], i))
    BY <2>2, <2>3
  <2>5. f = [i \in 0 .. n |-> IF i = 0 THEN c ELSE Then(f[i - 1], i)]
    BY <2>1, <2>4, Zenon
  <2>. HIDE DEF Ruled
  <2>6. Ruled(f)
    BY <2>5 DEF Ruled
  <2>. QED
    BY <2>6
<1>. HIDE DEF upto
<1>10. Follows(upto, n, Books, c, F)
  <2>1. 0 \in 0 .. n
    BY <1>1
  <2>2. upto[0] = c
    BY <1>9, <2>1
  <2>3. \A i \in 1 .. n : upto[i] = Then(upto[i - 1], i)
    BY <1>2, <1>9
  <2>. QED
    BY <1>7, <2>2, <2>3 DEF Follows
<1>11. \A i \in 0 .. n : upto[i] \in Q[i]
  BY <1>1, <1>6, <1>8, <1>10, ThroughSteps
<1>12. upto[n] \in Q[n]
  BY <1>1, <1>11
<1>. QED
  BY <1>5, <1>12 DEF n

LEMMA RenamedThrough ==
    ASSUME NEW c, NEW Q \in SUBSET Books, c \in Q,
           \A e \in Entry : \A d \in Q : Naming(c, d, e) \in Q
    PROVE  Renamed(c) \in Q
<1>. DEFINE n == MaxEntries
            due == {e \in StaleNames(c) : Cardinality({f \in StaleNames(c) : f < e}) < Limit}
            Then(d, e) == IF e \notin due \cap d.live THEN d
                          ELSE OrMerged(d, e, SetModel(d, e, NewName(c, e)))
            F == [i \in 1 .. n |-> [d \in Books |-> Then(d, i)]]
            R == [i \in 0 .. n |-> Q]
            Ruled(u) == u = [e \in 0 .. n |-> IF e = 0 THEN c ELSE Then(u[e - 1], e)]
            upto == CHOOSE u : Ruled(u)
<1>1. n \in Nat /\ c \in Books
  BY CatalogueAssumption
<1>2. \A i \in 1 .. n : i \in 0 .. n /\ i - 1 \in 0 .. n /\ i # 0
  BY <1>1
<1>3. \A i \in 1 .. n : \A d \in Q : Then(d, i) \in Q
  BY DEF Naming, DueNames, Entry
<1>5. Renamed(c) = upto[n]
  BY DEF Renamed
<1>. HIDE DEF Then
<1>7. \A i \in 1 .. n : \A d \in Books : F[i][d] = Then(d, i)
  OBVIOUS
<1>6. R \in [0 .. n -> SUBSET Books] /\ c \in R[0] /\ \A i \in 0 .. n : R[i] = Q
  BY <1>1
<1>. HIDE DEF F, R, n
<1>8. LeadsOn(n, R, F)
  BY <1>2, <1>3, <1>6, <1>7 DEF LeadsOn
<1>9. Ruled(upto)
  <2>1. PICK f : Stepped(f, n, Books, c, F)
    BY <1>1, <1>6, <1>8, StepsWithin
  <2>2. /\ f = [i \in 0 .. n |-> IF i = 0 THEN c ELSE F[i][f[i - 1]]]
        /\ \A i \in 0 .. n : f[i] \in Books
    BY <2>1, Zenon DEF Stepped
  <2>3. \A i \in 0 .. n : i = 0 \/ i \in 1 .. n
    BY <1>1
  <2>4. \A i \in 1 .. n : F[i][f[i - 1]] = Then(f[i - 1], i)
    BY <1>2, <1>7, <2>2
  <2>5. \A i \in 0 .. n : (IF i = 0 THEN c ELSE F[i][f[i - 1]])
                          = (IF i = 0 THEN c ELSE Then(f[i - 1], i))
    BY <2>3, <2>4
  <2>6. f = [i \in 0 .. n |-> IF i = 0 THEN c ELSE Then(f[i - 1], i)]
    BY <2>2, <2>5, Zenon
  <2>. HIDE DEF Ruled
  <2>7. Ruled(f)
    BY <2>6 DEF Ruled
  <2>. QED
    BY <2>7
<1>. HIDE DEF upto
<1>10. Follows(upto, n, Books, c, F)
  <2>1. 0 \in 0 .. n
    BY <1>1
  <2>2. upto[0] = c
    BY <1>9, <2>1
  <2>3. \A i \in 1 .. n : upto[i] = Then(upto[i - 1], i)
    BY <1>2, <1>9
  <2>. QED
    BY <1>7, <2>2, <2>3 DEF Follows
<1>11. \A i \in 0 .. n : upto[i] \in R[i]
  BY <1>1, <1>6, <1>8, <1>10, ThroughSteps
<1>. QED
  BY <1>1, <1>5, <1>6, <1>11

LEMMA AligningOut ==
    ASSUME NEW c, NEW d, Good(c), Onward(c, d), bearing \subseteq Axis,
           readings \in [Offer -> Reading], NEW e, NEW a, <<e, a>> \in StaleAxes(c)
    PROVE  Onward(c, Aligning(c, d, e, a))
<1>. DEFINE x == SetAxis(d, e, a, NewValue(c, e, a))
<1>1. a \in Axis /\ IsStale(c, e, a)
  BY DEF StaleAxes
<1>2. NewValue(c, e, a) \in Value
  BY <1>1, NewValueOut
<1>3. Good(d)
  BY DEF Onward
<1>4. CASE e \notin d.live
  BY <1>4 DEF Aligning
<1>5. CASE e \in d.live
  <2>1. Renewed(d, e, x)
    BY <1>1, <1>2, <1>3, <1>5, SetAxisRenews
  <2>2. Onward(d, OrMerged(d, e, x))
    BY <1>3, <1>5, <2>1, OrMergedOut
  <2>. QED
    BY <1>5, <2>2, OnwardOn DEF Aligning
<1>. QED
  BY <1>4, <1>5

LEMMA NamingOut ==
    ASSUME NEW c, NEW d, Good(c), Onward(c, d), bearing \subseteq Axis,
           readings \in [Offer -> Reading], NEW e
    PROVE  Onward(c, Naming(c, d, e))
<1>. DEFINE x == SetModel(d, e, NewName(c, e))
<1>1. Good(d)
  BY DEF Onward
<1>2. CASE e \notin DueNames(c) \cap d.live
  BY <1>2 DEF Naming
<1>3. CASE e \in DueNames(c) \cap d.live
  <2>1. e \in d.live /\ e \in StaleNames(c)
    BY <1>3 DEF DueNames
  <2>2. NewName(c, e) \in Model
    BY <2>1, NewNameOut
  <2>3. Renewed(d, e, x)
    BY <1>1, <2>1, <2>2, SetModelRenews
  <2>4. Onward(d, OrMerged(d, e, x))
    BY <1>1, <2>1, <2>3, OrMergedOut
  <2>. QED
    BY <1>3, <2>4, OnwardOn DEF Naming
<1>. QED
  BY <1>2, <1>3

LEMMA RealignedOut ==
    ASSUME NEW c, Good(c), bearing \subseteq Axis, readings \in [Offer -> Reading],
           NEW stale, stale \in Seq(StaleAxes(c))
    PROVE  Onward(c, Realigned(c, stale))
<1>. DEFINE n == Len(stale)
            R == {d \in Books : Onward(c, d)}
            Q == [i \in 0 .. n |-> R]
<1>1. n \in Nat /\ DOMAIN stale = 1 .. n
  OBVIOUS
<1>2. c \in R
  BY SameCodes DEF Good
<1>3. ASSUME NEW i \in 1 .. n, NEW d \in R PROVE Aligning(c, d, stale[i][1], stale[i][2]) \in R
  <2>1. stale[i] \in StaleAxes(c)
    BY <1>1
  <2>2. stale[i] = <<stale[i][1], stale[i][2]>>
    BY <2>1 DEF StaleAxes
  <2>. QED
    BY <2>1, <2>2, AligningOut DEF Onward, Good
<1>4. /\ Q \in [0 .. n -> SUBSET Books] /\ \A i \in 0 .. n : Q[i] = R
      /\ 0 \in 0 .. n /\ \A i \in 1 .. n : i \in 0 .. n /\ i - 1 \in 0 .. n
  BY <1>1
<1>. HIDE DEF Q, R
<1>5. Realigned(c, stale) \in Q[n]
  BY <1>1, <1>2, <1>3, <1>4, RealignedThrough
<1>. QED
  BY <1>1, <1>4, <1>5 DEF R

LEMMA RenamedOut ==
    ASSUME NEW c, Good(c), bearing \subseteq Axis, readings \in [Offer -> Reading]
    PROVE  Onward(c, Renamed(c))
<1>. DEFINE Q == {d \in Books : Onward(c, d)}
<1>1. c \in Q
  BY SameCodes DEF Good
<1>2. \A e \in Entry : \A d \in Q : Naming(c, d, e) \in Q
  BY NamingOut DEF Onward, Good
<1>3. Q \in SUBSET Books
  OBVIOUS
<1>. HIDE DEF Q
<1>4. Renamed(c) \in Q
  BY <1>1, <1>2, <1>3, RenamedThrough
<1>. QED
  BY <1>4 DEF Q

(* What a rebuild takes on is stale, and is all that is where that is less *)
(* than it takes on.                                                       *)
LEMMA FirstStale ==
    ASSUME NEW c, Good(c), bearing \subseteq Axis, NEW order \in SetToSeqs(StaleAxes(c))
    PROVE  LET axes == First(order)
           IN  /\ axes \in Seq(StaleAxes(c))
               /\ Len(axes) < Limit => StaleAxes(c) = {axes[i] : i \in 1 .. Len(axes)}
<1>. DEFINE S == StaleAxes(c)
            n == Cardinality(S)
            k == IF Len(order) < Limit THEN Len(order) ELSE Limit
<1>1. IsFiniteSet(S)
  <2>1. IsFiniteSet(c.live) /\ IsFiniteSet(Axis)
    BY LiveFinite, CatalogueAssumption
  <2>2. IsFiniteSet(c.live \X Axis)
    BY <2>1, FS_Product
  <2>3. S \subseteq c.live \X Axis
    BY DEF StaleAxes
  <2>. QED
    BY <2>2, <2>3, FS_Subset
<1>2. order \in [1 .. n -> S] /\ \A i, j \in 1 .. n : i # j => order[i] # order[j]
  BY DEF SetToSeqs
<1>. HIDE DEF S
<1>3. n \in Nat
  BY <1>1, FS_CardinalityType
<1>. HIDE DEF n
<1>4. order \in Seq(S) /\ Len(order) = n
  BY <1>2, <1>3
<1>5. Limit \in Nat \ {0}
  BY CatalogueAssumption
<1>6. k \in 0 .. Len(order) /\ (k < Limit => k = n)
  BY <1>3, <1>4, <1>5
<1>7. First(order) = SubSeq(order, 1, k)
  BY DEF First
<1>. HIDE DEF k
<1>8. /\ First(order) \in Seq(S) /\ Len(First(order)) = k
      /\ \A i \in 1 .. k : First(order)[i] = order[i]
  BY <1>3, <1>4, <1>6, <1>7
<1>9. S = {order[i] : i \in 1 .. n}
  <2>1. order \in Injection(1 .. n, S)
    BY <1>2 DEF Injection, IsInjective
  <2>2. IsFiniteSet(1 .. n) /\ Cardinality(1 .. n) = Cardinality(S)
    BY <1>3, FS_Interval, 1 \in Int DEF n
  <2>3. order \in Surjection(1 .. n, S)
    BY <1>1, <2>1, <2>2, FS_Injection
  <2>. QED
    BY <1>2, <2>3 DEF Surjection
<1>10. Len(First(order)) < Limit => S = {First(order)[i] : i \in 1 .. Len(First(order))}
  BY <1>6, <1>8, <1>9
<1>. QED
  BY <1>8, <1>10 DEF S

LEMMA RebuiltOut ==
    ASSUME NEW c, Good(c), bearing \subseteq Axis, readings \in [Offer -> Reading],
           NEW order \in SetToSeqs(StaleAxes(c))
    PROVE  Onward(c, Rebuilt(c, order))
<1>. DEFINE axes == First(order)
            done == Realigned(c, axes)
<1>1. axes \in Seq(StaleAxes(c))
  BY FirstStale
<1>2. Onward(c, done)
  BY <1>1, RealignedOut
<1>3. Onward(done, Renamed(done))
  BY <1>2, RenamedOut DEF Onward
<1>4. Onward(c, Renamed(done))
  BY <1>2, <1>3, OnwardOn DEF Onward
<1>5. Rebuilt(c, order) = IF Len(axes) < Limit THEN Renamed(done) ELSE done
  BY DEF Rebuilt
<1>. QED
  BY <1>2, <1>4, <1>5

-----------------------------------------------------------------------------
(* The split: an entry with the axis at v is there or is made, and it is   *)
(* not the one that is split.                                              *)
LEMMA KeyValues ==
    ASSUME NEW c \in Books, NEW f \in Entry, c.key[f] # Unknown
    PROVE  \A b \in DOMAIN c.key[f].axes : c.key[f].axes[b] # Unknown
<1>1. c.key[f] \in Key
  BY DEF Books
<1>2. PICK B \in SUBSET Axis : c.key[f].axes \in [B -> Value]
  BY <1>1 DEF Key
<1>. QED
  BY <1>2, CatalogueAssumption

LEMMA KeyNow ==
    ASSUME NEW c \in Books, NEW e \in Entry, KeyStands(c, e), Bears(c, e)
    PROVE  c.key[e] = KeyOf(c, e) /\ \A a \in bearing : c.axes[e][a] # Unknown
<1>. DEFINE k == c.key[e]
<1>1. c.key[e] \in Key
  BY DEF Books, Bears
<1>2. k = [model |-> k.model, axes |-> k.axes]
  BY <1>1 DEF Key
<1>3. PICK B \in SUBSET Axis : k.axes \in [B -> Value]
  BY <1>1 DEF Key
<1>4. k.model = c.model[e] /\ \A a \in bearing : c.axes[e][a] = k.axes[a]
  BY DEF KeyStands, Bears
<1>5. \A a \in bearing : c.axes[e][a] # Unknown
  BY <1>4, KeyValues DEF Bears
<1>6. DOMAIN k.axes = bearing
  BY DEF Bears
<1>. HIDE DEF k
<1>7. k.axes = [a \in bearing |-> c.axes[e][a]]
  <2>1. k.axes = [a \in B |-> k.axes[a]] /\ B = bearing
    BY <1>3, <1>6
  <2>. QED
    BY <1>4, <2>1
<1>8. KeyOf(c, e) = [model |-> c.model[e], axes |-> [a \in bearing |-> c.axes[e][a]]]
  BY <1>5 DEF KeyOf
<1>9. k = KeyOf(c, e)
  BY <1>2, <1>4, <1>7, <1>8
<1>. QED
  BY <1>5, <1>9 DEF k

ToTwin(c, e, x) ==
    /\ Onward(c, x.cat) /\ x.cat.made <= c.made + 1
    /\ x.into \in x.cat.live \ {e} /\ e \in x.cat.live
    /\ x.cat.axes[e] = c.axes[e]

LEMMA TwinWithOut ==
    ASSUME NEW c, Good(c), bearing \subseteq Axis, NEW e \in c.live, NEW a \in bearing,
           c.axes[e][a] = Unknown, NEW v \in Value, c.made < MaxEntries
    PROVE  ToTwin(c, e, TwinWith(c, e, a, v))
<1>. DEFINE f == c.made + 1
            made0 == New(c, c.model[e])
            new == made0.cat
            S == {b \in Axis : c.axes[e][b] # Unknown}
            axes == SetToSeq(S) \o <<a>>
            said == [c.axes[e] EXCEPT ![a] = v]
            made == SetAxes(Done(new), f, axes, said)
            x == TwinWith(c, e, a, v)
<1>1. /\ c \in Books /\ c.live \subseteq Entry /\ e \in Entry /\ a \in Axis /\ c.made \in Nat
      /\ c.model[e] \in Model /\ c.live \subseteq 1 .. c.made
      /\ c.axes[e] \in [Axis -> Value \cup {Unknown}]
  BY CatalogueAssumption DEF Good, Books, RefersOK
<1>2. f \in Entry /\ f \notin c.live /\ f # e
  BY <1>1, CatalogueAssumption DEF Entry
<1>3. MadeNew(c, c.model[e], made0)
  BY <1>1, NewOut
<1>4. x = IF made.twin = Unknown THEN [cat |-> made.cat, into |-> f]
                                 ELSE [cat |-> c, into |-> made.twin]
  BY DEF TwinWith
<1>. HIDE DEF made0, x
<1>. SUFFICES ToTwin(c, e, x)
  BY Zenon DEF x
<1>5. made0.twin = Unknown
  BY <1>3 DEF MadeNew
<1>6. /\ Good(new) /\ new.made = f /\ new.live = c.live \cup {f} /\ new.gtins = c.gtins
      /\ \A b \in Axis : new.axes[f][b] = Unknown
      /\ \A g \in Entry \ {f} : new.key[g] = c.key[g] /\ new.axes[g] = c.axes[g]
  BY <1>3, <1>5 DEF MadeNew
<1>. HIDE DEF new, f, S
<1>7. Gaps(new, f, axes, said)
  <2>1. IsFiniteSet(S) /\ S \subseteq Axis /\ a \notin S
    BY FS_Subset, CatalogueAssumption DEF S
  <2>. DEFINE s == SetToSeq(S)
  <2>2. s \in Seq(S) /\ Once(s) /\ S = {s[i] : i \in 1 .. Len(s)} /\ DOMAIN s = 1 .. Len(s)
    BY <2>1, EachOnce
  <2>. HIDE DEF s
  <2>3. s \in Seq(Axis) /\ ToSet(s) = S
    BY <2>1, <2>2 DEF ToSet
  <2>4. <<a>> \in Seq(Axis) /\ ToSet(<<a>>) = {a} /\ Once(<<a>>)
    BY <1>1 DEF ToSet, Once
  <2>5. s \o <<a>> \in Seq(Axis) /\ Once(s \o <<a>>)
    BY <2>1, <2>2, <2>3, <2>4, JoinRows
  <2>6. \A b \in Axis : said[b] \in Value \cup {Unknown}
    BY <1>1
  <2>7. axes \in Seq(Axis) /\ Once(axes)
    BY <2>5 DEF s
  <2>. HIDE DEF axes, said
  <2>8. \A i \in 1 .. Len(axes) : new.axes[f][axes[i]] = Unknown
    BY <1>6, <2>7
  <2>. QED
    BY <2>6, <2>7, <2>8 DEF Gaps
<1>8. Filled(new, f, axes, said, Len(axes), made)
  BY <1>6, <1>7, SetAxesOut
<1>. HIDE DEF made, axes, said
<1>9. CASE made.twin = Unknown
  <2>1. x.cat = made.cat /\ x.into = f
    BY <1>4, <1>9
  <2>2. Good(made.cat) /\ SameButAxes(new, made.cat, f)
    BY <1>8 DEF Filled
  <2>3. /\ made.cat.made = f /\ made.cat.live = c.live \cup {f} /\ made.cat.gtins = c.gtins
        /\ made.cat.axes[e] = c.axes[e]
    BY <1>1, <1>2, <1>6, <2>2 DEF SameButAxes
  <2>4. KeepsCodes(c, made.cat)
    BY <2>3 DEF KeepsCodes, Holds
  <2>5. c.made <= f /\ f <= c.made + 1
    BY <1>1 DEF f
  <2>6. Onward(c, x.cat)
    BY <2>1, <2>2, <2>3, <2>4, <2>5 DEF Onward
  <2>. QED
    BY <1>2, <2>1, <2>3, <2>5, <2>6 DEF ToTwin
<1>10. CASE made.twin # Unknown
  <2>1. x.cat = c /\ x.into = made.twin
    BY <1>4, <1>10
  <2>2. made.twin \in c.live /\ Bears(new, made.twin) /\ made.twin # f
    BY <1>6, <1>8, <1>10 DEF Filled
  <2>3. c.key[made.twin] # Unknown /\ DOMAIN c.key[made.twin].axes = bearing
    BY <1>1, <1>6, <2>2 DEF Bears
  <2>4. c.axes[made.twin][a] # Unknown
    <3>1. c.axes[made.twin][a] = c.key[made.twin].axes[a]
      BY <2>2, <2>3 DEF Good, KeyStands
    <3>2. c.key[made.twin].axes[a] # Unknown
      BY <1>1, <2>2, <2>3, KeyValues
    <3>. QED
      BY <3>1, <3>2
  <2>5. Onward(c, c) /\ c.made <= c.made + 1
    BY <1>1, SameCodes
  <2>. QED
    BY <2>1, <2>2, <2>4, <2>5 DEF ToTwin
<1>. QED
  BY <1>9, <1>10

MovedTo(c, e, d) ==
    /\ Onward(c, d) /\ d.made <= c.made + 1 /\ e \in d.live /\ d.axes[e] = c.axes[e]

LEMMA MovedOut ==
    ASSUME NEW c, Good(c), bearing \subseteq Axis, NEW e \in c.live, NEW a \in bearing,
           c.axes[e][a] = Unknown, NEW v \in Value, c.made < MaxEntries, NEW group
    PROVE  MovedTo(c, e, Moved(c, e, a, group, v))
<1>. DEFINE t == TwinWith(c, e, a, v)
            b == t.cat
            n == t.into
            codes == {readings[o].gtin : o \in group} \ {Unknown}
            Code(f, g) == IF g \notin codes THEN b.gtins[f][g]
                          ELSE IF f = e THEN Unknown
                          ELSE IF f = n /\ b.gtins[f][g] = Unknown THEN "rule" ELSE b.gtins[f][g]
            on == [o \in Offer |-> IF o \in group THEN n ELSE b.on[o]]
            gtins == [f \in Entry |-> [g \in Gtin |-> Code(f, g)]]
            d == [b EXCEPT !.on = on, !.gtins = gtins]
            moved == Moved(c, e, a, group, v)
<1>1. ToTwin(c, e, t)
  BY TwinWithOut
<1>2. moved = [b EXCEPT
            !.on = [o \in Offer |-> IF o \in group THEN n ELSE @[o]],
            !.gtins = [f \in Entry |-> [g \in Gtin |->
                IF g \notin codes THEN @[f][g]
                ELSE CASE f = e -> Unknown
                       [] f = n /\ @[f][g] = Unknown -> "rule"
                       [] OTHER -> @[f][g]]]]
  BY DEF Moved
<1>. HIDE DEF t, codes, moved
<1>3. Onward(c, b) /\ Good(b) /\ b.made <= c.made + 1 /\ n \in b.live \ {e} /\ e \in b.live
      /\ b.axes[e] = c.axes[e]
  BY <1>1 DEF ToTwin, Onward
<1>. HIDE DEF b, n
<1>4. moved = d
  <2>1. gtins = [f \in Entry |-> [g \in Gtin |->
                IF g \notin codes THEN b.gtins[f][g]
                ELSE CASE f = e -> Unknown
                       [] f = n /\ b.gtins[f][g] = Unknown -> "rule"
                       [] OTHER -> b.gtins[f][g]]]
    <3>1. \A f, g : Code(f, g) = IF g \notin codes THEN b.gtins[f][g]
                ELSE CASE f = e -> Unknown
                       [] f = n /\ b.gtins[f][g] = Unknown -> "rule"
                       [] OTHER -> b.gtins[f][g]
      BY <1>3
    <3>. HIDE DEF Code
    <3>. QED
      BY <3>1
  <2>2. moved = [b EXCEPT !.on = on,
                  !.gtins = [f \in Entry |-> [g \in Gtin |->
                IF g \notin codes THEN b.gtins[f][g]
                ELSE CASE f = e -> Unknown
                       [] f = n /\ b.gtins[f][g] = Unknown -> "rule"
                       [] OTHER -> b.gtins[f][g]]]]
    BY <1>2
  <2>. HIDE DEF gtins
  <2>. QED
    BY <2>1, <2>2
<1>5. /\ b \in Books /\ b.live \subseteq Entry /\ n \in Entry /\ e \in Entry
      /\ b.gtins \in [Entry -> [Gtin -> {"rule", "stated", Unknown}]]
      /\ b.on \in [Offer -> Entry \cup {Unknown}]
  BY <1>3 DEF Good, Books
<1>6. \A f \in Entry, g \in Gtin : Code(f, g) \in {"rule", "stated", Unknown}
  BY <1>5
<1>7. gtins \in [Entry -> [Gtin -> {"rule", "stated", Unknown}]]
  <2>. HIDE DEF Code
  <2>. QED
    BY <1>6
<1>8. on \in [Offer -> Entry \cup {Unknown}]
  BY <1>5
<1>9. /\ \A f \in Entry, g \in Gtin : gtins[f][g] = Code(f, g)
      /\ \A o \in Offer : on[o] = IF o \in group THEN n ELSE b.on[o]
  OBVIOUS
<1>. HIDE DEF on, gtins, Code
<1>10. /\ d \in Books /\ d.made = b.made /\ d.live = b.live /\ d.model = b.model
       /\ d.axes = b.axes /\ d.key = b.key /\ d.queued = b.queued /\ d.merges = b.merges
       /\ d.on = on /\ d.gtins = gtins
  BY <1>5, <1>7, <1>8 DEF Books
<1>. HIDE DEF d
<1>11. RefersOK(d)
  <2>1. \A o \in Offer : on[o] \in b.live \cup {Unknown}
    BY <1>3, <1>9 DEF Good, RefersOK
  <2>. QED
    BY <1>3, <1>10, <2>1 DEF Good, RefersOK
<1>12. BlankOK(d)
  <2>. SUFFICES ASSUME NEW f \in Entry \ b.live
                PROVE  /\ d.key[f] = Unknown
                       /\ \A x \in Axis : d.axes[f][x] = Unknown
                       /\ \A g \in Gtin : d.gtins[f][g] = Unknown
    BY <1>10 DEF BlankOK
  <2>1. f # n /\ f # e
    BY <1>3
  <2>2. /\ b.key[f] = Unknown
        /\ \A x \in Axis : b.axes[f][x] = Unknown
        /\ \A g \in Gtin : b.gtins[f][g] = Unknown
    BY <1>3 DEF Good, BlankOK
  <2>3. \A g \in Gtin : Code(f, g) = Unknown
    BY <2>1, <2>2 DEF Code
  <2>. QED
    BY <1>9, <1>10, <2>2, <2>3
<1>13. OneKey(d) /\ \A f \in d.live : KeyStands(d, f)
  BY <1>3, <1>10 DEF Good, OneKey, KeyStands
<1>14. Good(d)
  BY <1>10, <1>11, <1>12, <1>13 DEF Good
<1>15. KeepsCodes(b, d)
  <2>. SUFFICES ASSUME NEW g \in Gtin, NEW f \in b.live, g # Unknown, b.gtins[f][g] # Unknown
                PROVE  \E h \in d.live : d.gtins[h][g] # Unknown
    BY DEF KeepsCodes, Holds
  <2>1. CASE g \in codes
    <3>1. Code(n, g) # Unknown
      BY <1>3, <2>1, CatalogueAssumption DEF Code
    <3>. QED
      BY <1>3, <1>5, <1>9, <1>10, <3>1
  <2>2. CASE g \notin codes
    <3>1. Code(f, g) # Unknown
      BY <2>2 DEF Code
    <3>. QED
      BY <1>5, <1>9, <1>10, <3>1
  <2>. QED
    BY <2>1, <2>2
<1>16. Onward(c, d)
  <2>1. b.made <= d.made
    BY <1>5, <1>10, CatalogueAssumption DEF Books
  <2>2. Onward(b, d)
    BY <1>14, <1>15, <2>1 DEF Onward
  <2>. QED
    BY <1>3, <2>2, OnwardOn
<1>17. MovedTo(c, e, d)
  BY <1>3, <1>10, <1>16 DEF MovedTo
<1>. QED
  BY <1>4, <1>17 DEF moved

(* What a listing carries is one of the values its entry's listings state. *)
LEMMA CarriesOut ==
    ASSUME readings \in [Offer -> Reading], NEW c, NEW e, NEW a, Splittable(c, e, a),
           bearing \subseteq Axis, NEW o \in On(c, e)
    PROVE  Carries(c, e, a, o) \in Value
<1>. DEFINE g == readings[o].gtin
            S == Under(c, e, a, g)
<1>1. a \in Axis /\ o \in Offer /\ Unknown \notin AxesSaid(c, e, a)
  BY OnFinite DEF Splittable
<1>2. AxesSaid(c, e, a) \subseteq Value
  BY <1>1, SaidOnes
<1>3. readings[o].axes[a] \in S /\ readings[o].axes[a] \in AxesSaid(c, e, a)
  BY DEF Under, AxesSaid
<1>4. S \subseteq AxesSaid(c, e, a)
  BY DEF Under, AxesSaid
<1>. HIDE DEF S
<1>5. Carries(c, e, a, o) = IF g = Unknown THEN readings[o].axes[a]
                            ELSE IF S \cap Shown # {} THEN CHOOSE v \in S \cap Shown : TRUE
                            ELSE CHOOSE v \in S : TRUE
  BY DEF Carries, S
<1>6. (CHOOSE v \in S : TRUE) \in S
  BY <1>3
<1>7. S \cap Shown # {} => (CHOOSE v \in S \cap Shown : TRUE) \in S
  OBVIOUS
<1>8. Carries(c, e, a, o) \in AxesSaid(c, e, a)
  BY <1>3, <1>4, <1>5, <1>6, <1>7
<1>. QED
  BY <1>2, <1>8

(* The value that most listings carry, of as many one that no title shows. *)
LEMMA KeptOf ==
    ASSUME NEW S, IsFiniteSet(S), S # {}, NEW size \in [S -> Nat]
    PROVE  \E v \in S : \A w \in S :
              size[v] > size[w] \/ (size[v] = size[w] /\ (v \notin Shown \/ w \in Shown))
<1>. DEFINE f == [v \in S |-> IF v \in Shown THEN 2 * size[v] ELSE 2 * size[v] + 1]
<1>1. f \in [S -> Nat]
  OBVIOUS
<1>2. PICK v \in S : \A w \in S : f[w] <= f[v]
  <2>. HIDE DEF f
  <2>. QED
    BY <1>1, MostOf
<1>3. ASSUME NEW w \in S
      PROVE  size[v] > size[w] \/ (size[v] = size[w] /\ (v \notin Shown \/ w \in Shown))
  <2>1. size[v] \in Nat /\ size[w] \in Nat /\ f[w] <= f[v]
    BY <1>2
  <2>2. f[w] = (IF w \in Shown THEN 2 * size[w] ELSE 2 * size[w] + 1)
        /\ f[v] = (IF v \in Shown THEN 2 * size[v] ELSE 2 * size[v] + 1)
    OBVIOUS
  <2>. HIDE DEF f
  <2>3. CASE v \in Shown /\ w \in Shown
    BY <2>1, <2>2, <2>3
  <2>4. CASE v \in Shown /\ w \notin Shown
    BY <2>1, <2>2, <2>4
  <2>5. CASE v \notin Shown /\ w \in Shown
    BY <2>1, <2>2, <2>5
  <2>6. CASE v \notin Shown /\ w \notin Shown
    BY <2>1, <2>2, <2>6
  <2>. QED
    BY <2>3, <2>4, <2>5, <2>6
<1>. QED
  BY <1>3

Parting(c, e, i, d) ==
    /\ Onward(c, d) /\ e \in d.live /\ d.axes[e] = c.axes[e] /\ d.made <= c.made + i

LEMMA SplitOut ==
    ASSUME NEW c, Good(c), bearing \subseteq Axis, readings \in [Offer -> Reading],
           NEW e \in c.live, NEW a, Splittable(c, e, a), c.made + Cardinality(Value) <= MaxEntries
    PROVE  Onward(c, Split(c, e, a))
<1>. DEFINE values == {Carries(c, e, a, o) : o \in On(c, e)}
            size(v) == Cardinality(Group(c, e, a, v))
            kept == CHOOSE v \in values : \A w \in values :
                    size(v) > size(w) \/ (size(v) = size(w) /\ (v \notin Shown \/ w \in Shown))
            others == SetToSeq(values \ {kept})
            n == Len(others)
            Then(d, i) == Moved(d, e, a, Group(c, e, a, others[i]), others[i])
            F == [i \in 1 .. n |-> [d \in Books |-> Then(d, i)]]
            Q == [i \in 0 .. n |-> {d \in Books : Parting(c, e, i, d)}]
            Ruled(u) == u = [i \in 0 .. n |-> IF i = 0 THEN c ELSE Then(u[i - 1], i)]
            upto == CHOOSE u : Ruled(u)
            parted == upto[n]
            given == SetAxis(parted, e, a, kept)
<1>1. a \in bearing /\ a \in Axis /\ c.axes[e][a] = Unknown
  BY DEF Splittable
<1>2. c \in Books /\ Onward(c, c) /\ c.made \in Nat
  <2>1. c \in Books
    BY DEF Good
  <2>2. Onward(c, c)
    BY SameCodes
  <2>. QED
    BY <2>1, <2>2, CatalogueAssumption DEF Books
<1>3. values \subseteq Value /\ values # {} /\ IsFiniteSet(values)
  <2>1. \A o \in On(c, e) : Carries(c, e, a, o) \in Value
    BY CarriesOut
  <2>2. On(c, e) # {}
    <3>1. AxesSaid(c, e, a) # {}
      BY FS_EmptySet DEF Splittable
    <3>. QED
      BY <3>1 DEF AxesSaid
  <2>3. values \subseteq Value /\ values # {}
    BY <2>1, <2>2
  <2>. HIDE DEF values
  <2>. QED
    BY <2>3, FS_Subset, CatalogueAssumption
<1>4. kept \in values
  <2>. DEFINE f == [v \in values |-> size(v)]
  <2>1. \A v : size(v) \in Nat
    <3>. SUFFICES ASSUME NEW v PROVE size(v) \in Nat
      OBVIOUS
    <3>1. Group(c, e, a, v) \subseteq On(c, e)
      BY DEF Group
    <3>. QED
      BY <3>1, OnFinite, FS_Subset, FS_CardinalityType
  <2>. HIDE DEF values, size
  <2>2. f \in [values -> Nat]
    BY <2>1
  <2>3. \E v \in values : \A w \in values :
            f[v] > f[w] \/ (f[v] = f[w] /\ (v \notin Shown \/ w \in Shown))
    <3>. HIDE DEF f
    <3>. QED
      BY <1>3, <2>2, KeptOf
  <2>4. \E v \in values : \A w \in values :
            size(v) > size(w) \/ (size(v) = size(w) /\ (v \notin Shown \/ w \in Shown))
    BY <2>3
  <2>. QED
    BY <2>4
<1>5. Split(c, e, a) = IF given.twin = Unknown THEN given.cat
                       ELSE IF Merge(parted, e, given.twin).twin = Unknown
                            THEN Merge(parted, e, given.twin).cat ELSE c
  BY DEF Split
<1>. HIDE DEF kept, values
<1>6. /\ n \in Nat /\ DOMAIN others = 1 .. n /\ \A i \in 1 .. n : others[i] \in Value
      /\ n < Cardinality(Value)
  <2>. DEFINE S == values \ {kept}
  <2>1. IsFiniteSet(S) /\ Cardinality(S) = Cardinality(values) - 1 /\ S \subseteq Value
    BY <1>3, <1>4, FS_RemoveElement
  <2>2. Cardinality(values) \in Nat /\ Cardinality(Value) \in Nat
        /\ Cardinality(values) <= Cardinality(Value)
    BY <1>3, FS_Subset, FS_CardinalityType, CatalogueAssumption
  <2>. HIDE DEF S
  <2>3. /\ others \in Seq(S) /\ Len(others) = Cardinality(S) /\ Len(others) \in Nat
        /\ DOMAIN others = 1 .. Len(others)
    BY <2>1, EachOnce DEF S
  <2>. HIDE DEF others
  <2>4. \A i \in 1 .. n : others[i] \in Value
    BY <2>1, <2>3
  <2>. QED
    BY <2>1, <2>2, <2>3, <2>4
<1>. HIDE DEF others, n, size
<1>7. \A i \in 1 .. n : i \in 0 .. n /\ i - 1 \in 0 .. n /\ i # 0
  BY <1>6
<1>8. Parting(c, e, 0, c)
  BY <1>2 DEF Parting
<1>9. ASSUME NEW i \in 1 .. n, NEW d \in Books, Parting(c, e, i - 1, d)
      PROVE  Then(d, i) \in Books /\ Parting(c, e, i, Then(d, i))
  <2>1. Onward(c, d) /\ Good(d) /\ e \in d.live /\ d.axes[e] = c.axes[e]
        /\ d.made <= c.made + (i - 1)
    BY <1>9 DEF Parting, Onward
  <2>2. d.made \in Nat
    BY CatalogueAssumption DEF Books
  <2>3. d.made < MaxEntries
    <3>1. Cardinality(Value) \in Nat /\ MaxEntries \in Nat
      BY FS_CardinalityType, CatalogueAssumption
    <3>. QED
      BY <1>2, <1>6, <2>1, <2>2, <3>1
  <2>4. others[i] \in Value
    BY <1>6
  <2>5. MovedTo(d, e, Then(d, i))
    BY <1>1, <2>1, <2>3, <2>4, MovedOut
  <2>. HIDE DEF Then
  <2>6. Then(d, i) \in Books /\ Onward(c, Then(d, i))
    BY <2>1, <2>5, OnwardOn DEF MovedTo, Onward, Good
  <2>7. Then(d, i).made <= c.made + i
    <3>1. Then(d, i).made \in Nat /\ Then(d, i).made <= d.made + 1
      BY <2>5, <2>6, CatalogueAssumption DEF MovedTo, Books
    <3>. QED
      BY <1>2, <1>6, <2>1, <2>2, <3>1
  <2>. QED
    BY <2>1, <2>5, <2>6, <2>7 DEF MovedTo, Parting
<1>. HIDE DEF Then
<1>10. /\ Q \in [0 .. n -> SUBSET Books] /\ c \in Q[0]
       /\ \A i \in 0 .. n : \A d : d \in Q[i] <=> d \in Books /\ Parting(c, e, i, d)
  BY <1>2, <1>6, <1>8
<1>11. \A i \in 1 .. n : \A d \in Books : F[i][d] = Then(d, i)
  OBVIOUS
<1>. HIDE DEF Q, F
<1>12. LeadsOn(n, Q, F)
  BY <1>7, <1>9, <1>10, <1>11 DEF LeadsOn
<1>13. Ruled(upto)
  <2>1. PICK f : Stepped(f, n, Books, c, F)
    BY <1>6, <1>10, <1>12, StepsWithin
  <2>2. /\ f = [i \in 0 .. n |-> IF i = 0 THEN c ELSE F[i][f[i - 1]]]
        /\ \A i \in 0 .. n : f[i] \in Books
    BY <2>1, Zenon DEF Stepped
  <2>3. \A i \in 0 .. n : i = 0 \/ i \in 1 .. n
    BY <1>6
  <2>4. \A i \in 1 .. n : F[i][f[i - 1]] = Then(f[i - 1], i)
    BY <1>7, <1>11, <2>2
  <2>5. \A i \in 0 .. n : (IF i = 0 THEN c ELSE F[i][f[i - 1]])
                          = (IF i = 0 THEN c ELSE Then(f[i - 1], i))
    BY <2>3, <2>4
  <2>6. f = [i \in 0 .. n |-> IF i = 0 THEN c ELSE Then(f[i - 1], i)]
    BY <2>2, <2>5, Zenon
  <2>. HIDE DEF Ruled
  <2>7. Ruled(f)
    BY <2>6 DEF Ruled
  <2>. QED
    BY <2>7
<1>. HIDE DEF upto
<1>14. Follows(upto, n, Books, c, F)
  <2>1. 0 \in 0 .. n
    BY <1>6
  <2>2. upto[0] = c
    BY <1>13, <2>1
  <2>3. \A i \in 1 .. n : upto[i] = Then(upto[i - 1], i)
    BY <1>7, <1>13
  <2>. QED
    BY <1>11, <2>2, <2>3 DEF Follows
<1>15. Parting(c, e, n, parted)
  <2>1. \A i \in 0 .. n : upto[i] \in Q[i]
    BY <1>6, <1>10, <1>12, <1>14, ThroughSteps
  <2>. QED
    BY <1>6, <1>10, <2>1
<1>. HIDE DEF parted
<1>16. Onward(c, parted) /\ Good(parted) /\ e \in parted.live
  BY <1>15 DEF Parting, Onward
<1>17. Renewed(parted, e, given)
  BY <1>1, <1>3, <1>4, <1>16, SetAxisRenews
<1>. HIDE DEF given
<1>18. CASE given.twin = Unknown
  <2>1. Onward(parted, given.cat)
    BY <1>16, <1>17, <1>18, SameCodes DEF Renewed
  <2>. QED
    BY <1>5, <1>16, <1>18, <2>1, OnwardOn
<1>19. CASE given.twin # Unknown
  <2>. DEFINE m == Merge(parted, e, given.twin)
  <2>1. given.twin \in parted.live /\ given.twin # e
    BY <1>17, <1>19 DEF Renewed
  <2>2. Merged(parted, e, m)
    BY <1>16, <2>1, MergeOut
  <2>3. Split(c, e, a) = IF m.twin = Unknown THEN m.cat ELSE c
    BY <1>5, <1>19
  <2>. HIDE DEF m
  <2>4. m.twin = Unknown => Onward(c, m.cat)
    BY <1>16, <2>2, OnwardOn DEF Merged
  <2>. QED
    BY <1>2, <2>3, <2>4
<1>. QED
  BY <1>18, <1>19

-----------------------------------------------------------------------------
CatInv == /\ readings \in [Offer -> Reading] /\ Good(cat)
          /\ bearing \subseteq Axis /\ changes \in 0 .. MaxChanged

LEMMA CatInitially == CatInit => CatInv
<1>. SUFFICES ASSUME CatInit PROVE CatInv
  OBVIOUS
<1>1. readings \in [Offer -> Reading] /\ bearing \subseteq Axis /\ changes \in 0 .. MaxChanged
  BY CatalogueAssumption DEF CatInit
<1>2. cat \in Books
  BY CatalogueAssumption DEF CatInit, Catalogue0, Books
<1>3. /\ cat.made = 0 /\ cat.live = {} /\ cat.merges = {}
      /\ \A e \in Entry : /\ cat.key[e] = Unknown
                          /\ \A a \in Axis : cat.axes[e][a] = Unknown
                          /\ \A g \in Gtin : cat.gtins[e][g] = Unknown
      /\ \A o \in Offer : cat.on[o] = Unknown
  BY DEF CatInit, Catalogue0
<1>4. RefersOK(cat) /\ BlankOK(cat) /\ OneKey(cat) /\ \A f \in cat.live : KeyStands(cat, f)
  BY <1>3 DEF RefersOK, BlankOK, OneKey
<1>. QED
  BY <1>1, <1>2, <1>4 DEF CatInv, Good

(* What an action may do to the catalogue. *)
CatStep == Onward(cat, cat') /\ readings' \in [Offer -> Reading] /\ bearing' \subseteq Axis
           /\ changes' \in 0 .. MaxChanged

LEMMA ChangesCounted ==
    ASSUME changes \in 0 .. MaxChanged, Changed
    PROVE  changes' \in 0 .. MaxChanged
BY CatalogueAssumption DEF Changed

LEMMA PeoplesSteps ==
    ASSUME CatInv
    PROVE  /\ \A o \in Offer : ReadAgain(o) => CatStep
           /\ \A a \in MayBear : Bear(a) => CatStep
           /\ Create => CatStep
           /\ \A e \in cat.live : Set(e) \/ Rename(e) \/ AddGtin(e) => CatStep
           /\ \A e, f \in cat.live : MergePair(e, f) => CatStep
<1>1. /\ Good(cat) /\ Onward(cat, cat) /\ readings \in [Offer -> Reading] /\ bearing \subseteq Axis
      /\ changes \in 0 .. MaxChanged
  BY SameCodes DEF CatInv
<1>2. cat \in Books /\ cat.live \subseteq Entry /\ cat.made \in Nat
  BY <1>1, CatalogueAssumption DEF Good, Books
<1>3. ASSUME NEW o \in Offer, ReadAgain(o) PROVE CatStep
  BY <1>1, <1>3, ChangesCounted DEF ReadAgain, CatStep
<1>4. ASSUME NEW a \in MayBear, Bear(a) PROVE CatStep
  <2>1. a \in Axis
    BY CatalogueAssumption
  <2>. QED
    BY <1>1, <1>4, <2>1, ChangesCounted DEF Bear, CatStep
<1>5. ASSUME Create PROVE CatStep
  <2>1. PICK m \in Model : Changed /\ Edit(New(cat, m))
    BY <1>5 DEF Create
  <2>. DEFINE x == New(cat, m)
  <2>2. MadeNew(cat, m, x)
    BY <1>1, <1>5, NewOut DEF Create
  <2>. HIDE DEF x
  <2>3. x.twin = Unknown /\ cat' = x.cat /\ UNCHANGED <<readings, bearing>>
    BY <2>1 DEF Edit, Becomes, x
  <2>4. /\ Good(x.cat) /\ x.cat.made = cat.made + 1 /\ x.cat.live = cat.live \cup {cat.made + 1}
        /\ x.cat.gtins = cat.gtins
    BY <2>2, <2>3 DEF MadeNew
  <2>5. Onward(cat, x.cat)
    BY <1>2, <2>4 DEF Onward, KeepsCodes, Holds
  <2>. QED
    BY <1>1, <2>1, <2>3, <2>5, ChangesCounted DEF CatStep
<1>6. ASSUME NEW e \in cat.live, Set(e) PROVE CatStep
  <2>1. PICK a \in Axis, v \in Value \cup {Unknown} : Changed /\ Edit(SetAxis(cat, e, a, v))
    BY <1>6 DEF Set
  <2>. DEFINE x == SetAxis(cat, e, a, v)
  <2>2. Renewed(cat, e, x)
    BY <1>1, SetAxisRenews
  <2>. HIDE DEF x
  <2>3. x.twin = Unknown /\ cat' = x.cat /\ UNCHANGED <<readings, bearing>>
    BY <2>1 DEF Edit, Becomes, x
  <2>4. Onward(cat, x.cat)
    BY <1>1, <2>2, <2>3, SameCodes DEF Renewed
  <2>. QED
    BY <1>1, <2>1, <2>3, <2>4, ChangesCounted DEF CatStep
<1>7. ASSUME NEW e \in cat.live, Rename(e) PROVE CatStep
  <2>1. PICK m \in Model : Changed /\ Edit(SetModel(cat, e, m))
    BY <1>7 DEF Rename
  <2>. DEFINE x == SetModel(cat, e, m)
  <2>2. Renewed(cat, e, x)
    BY <1>1, SetModelRenews
  <2>. HIDE DEF x
  <2>3. x.twin = Unknown /\ cat' = x.cat /\ UNCHANGED <<readings, bearing>>
    BY <2>1 DEF Edit, Becomes, x
  <2>4. Onward(cat, x.cat)
    BY <1>1, <2>2, <2>3, SameCodes DEF Renewed
  <2>. QED
    BY <1>1, <2>1, <2>3, <2>4, ChangesCounted DEF CatStep
<1>8. ASSUME NEW e \in cat.live, AddGtin(e) PROVE CatStep
  <2>1. PICK g \in Gtin : Changed /\ Becomes([cat EXCEPT !.gtins[e][g] = "stated"])
    BY <1>8 DEF AddGtin
  <2>. DEFINE d == [cat EXCEPT !.gtins[e][g] = "stated"]
  <2>2. e \in Entry /\ "stated" # Unknown
    BY <1>2, CatalogueAssumption
  <2>3. /\ SameEntries(cat, d) /\ d.on = cat.on
        /\ \A f \in Entry, h \in Gtin :
              d.gtins[f][h] = IF f = e /\ h = g THEN "stated" ELSE cat.gtins[f][h]
    BY <1>2, <2>2 DEF SameEntries, Books
  <2>4. cat' = d /\ UNCHANGED <<readings, bearing>>
    BY <2>1 DEF Becomes
  <2>. HIDE DEF d
  <2>5. MoreCodes(cat, d)
    BY <1>1, <2>2, <2>3 DEF MoreCodes, Good, BlankOK
  <2>6. \A o \in Offer : d.on[o] \in cat.live \cup {Unknown}
    BY <1>1, <2>3 DEF Good, RefersOK
  <2>7. Onward(cat, d)
    BY <1>1, <2>3, <2>5, <2>6, PlacingOut DEF Placing
  <2>. QED
    BY <1>1, <2>1, <2>4, <2>7, ChangesCounted DEF CatStep
<1>9. ASSUME NEW e \in cat.live, NEW f \in cat.live, MergePair(e, f) PROVE CatStep
  <2>. DEFINE x == Merge(cat, e, f)
  <2>1. e # f /\ Changed /\ Edit(x)
    BY <1>9 DEF MergePair
  <2>2. Merged(cat, e, x)
    BY <1>1, <2>1, MergeOut
  <2>. HIDE DEF x
  <2>3. x.twin = Unknown /\ cat' = x.cat /\ UNCHANGED <<readings, bearing>>
    BY <2>1 DEF Edit, Becomes
  <2>4. Onward(cat, x.cat)
    BY <2>2, <2>3 DEF Merged
  <2>. QED
    BY <1>1, <2>1, <2>3, <2>4, ChangesCounted DEF CatStep
<1>. QED
  BY <1>3, <1>4, <1>5, <1>6, <1>7, <1>8, <1>9

LEMMA PassesSteps ==
    ASSUME CatInv
    PROVE  /\ \A o \in Offer : Place(o) \/ Promote(o) => CatStep
           /\ \A g \in Gtin : MergeDuplicates(g) => CatStep
           /\ Rebuild => CatStep
           /\ \A e \in cat.live, a \in Axis : SplitByAxis(e, a) => CatStep
<1>1. /\ Good(cat) /\ readings \in [Offer -> Reading] /\ bearing \subseteq Axis
      /\ changes \in 0 .. MaxChanged
  BY DEF CatInv
<1>2. ASSUME NEW d, Onward(cat, d), Becomes(d), UNCHANGED changes PROVE CatStep
  BY <1>1, <1>2 DEF Becomes, CatStep
<1>3. ASSUME NEW o \in Offer, Place(o) PROVE CatStep
  <2>1. Onward(cat, Decide(cat, o, readings[o]))
    BY <1>1, DecideOut DEF Decided
  <2>. QED
    BY <1>2, <1>3, <2>1 DEF Place
<1>4. ASSUME NEW o \in Offer, Promote(o) PROVE CatStep
  <2>1. Onward(cat, Promoted(cat, o))
    BY <1>1, PromotedOut DEF PromotedAs
  <2>. QED
    BY <1>2, <1>4, <2>1 DEF Promote
<1>5. ASSUME NEW g \in Gtin, MergeDuplicates(g) PROVE CatStep
  <2>1. PICK into \in Survivors(cat, g) : Becomes(Folded(cat, g, into))
    BY <1>5 DEF MergeDuplicates
  <2>2. Onward(cat, Folded(cat, g, into))
    BY <1>1, <1>5, FoldedOut DEF MergeDuplicates
  <2>. QED
    BY <1>2, <1>5, <2>1, <2>2 DEF MergeDuplicates
<1>6. ASSUME Rebuild PROVE CatStep
  <2>1. PICK order \in SetToSeqs(StaleAxes(cat)) : Becomes(Rebuilt(cat, order))
    BY <1>6 DEF Rebuild
  <2>2. Onward(cat, Rebuilt(cat, order))
    BY <1>1, RebuiltOut
  <2>. QED
    BY <1>2, <1>6, <2>1, <2>2 DEF Rebuild
<1>7. ASSUME NEW e \in cat.live, NEW a \in Axis, SplitByAxis(e, a) PROVE CatStep
  <2>1. Onward(cat, Split(cat, e, a))
    BY <1>1, <1>7, SplitOut DEF SplitByAxis
  <2>. QED
    BY <1>2, <1>7, <2>1 DEF SplitByAxis
<1>. QED
  BY <1>3, <1>4, <1>5, <1>6, <1>7

LEMMA CatKept == CatInv /\ [CatNext]_catVars => CatInv' /\ KeepsCodes(cat, cat')
<1>. SUFFICES ASSUME CatInv, [CatNext]_catVars PROVE CatInv' /\ KeepsCodes(cat, cat')
  OBVIOUS
<1>1. ASSUME CatStep PROVE CatInv' /\ KeepsCodes(cat, cat')
  BY <1>1 DEF CatStep, CatInv, Onward
<1>2. CASE UNCHANGED catVars
  <2>1. Good(cat) /\ KeepsCodes(cat, cat)
    BY DEF CatInv, KeepsCodes
  <2>. QED
    BY <1>2, <2>1 DEF CatInv, catVars
<1>3. CASE CatNext
  BY <1>1, <1>3, PeoplesSteps, PassesSteps DEF CatNext
<1>. QED
  BY <1>2, <1>3

LEMMA CatHolds == CatSpec => []CatInv
<1>1. CatInv /\ [CatNext]_catVars => CatInv'
  BY CatKept
<1>. QED
  BY <1>1, CatInitially, PTL DEF CatSpec

(* The rows are as their columns and foreign keys say, whatever became of  *)
(* the entries: nothing leads to one that went, and no two have one key.   *)
THEOREM CatTyped == CatSpec => []CatTypeOK
<1>1. CatInv => CatTypeOK
  <2>. SUFFICES ASSUME CatInv PROVE CatTypeOK
    OBVIOUS
  <2>1. /\ readings \in [Offer -> Reading] /\ bearing \subseteq Axis /\ changes \in 0 .. MaxChanged
        /\ cat \in Books /\ RefersOK(cat) /\ BlankOK(cat) /\ OneKey(cat)
    BY DEF CatInv, Good
  <2>2. cat.on \in [Offer -> cat.live \cup {Unknown}]
    <3>1. cat.on \in [Offer -> Entry \cup {Unknown}]
      BY <2>1 DEF Books
    <3>. QED
      BY <2>1, <3>1 DEF RefersOK
  <2>3. /\ cat.made \in 0 .. MaxEntries /\ cat.model \in [Entry -> Model \cup {Unknown}]
        /\ cat.axes \in [Entry -> [Axis -> Value \cup {Unknown}]]
        /\ cat.gtins \in [Entry -> [Gtin -> {"rule", "stated", Unknown}]]
        /\ cat.queued \in [Offer -> {"unmatched", "unsure", "ambiguous", Unknown}]
    BY <2>1 DEF Books
  <2>4. /\ cat.live \subseteq 1 .. cat.made
        /\ cat.merges \subseteq (1 .. cat.made \ cat.live) \X cat.live
    BY <2>1 DEF RefersOK
  <2>5. \A e \in Entry \ cat.live : \A g \in Gtin : cat.gtins[e][g] = Unknown
    BY <2>1 DEF BlankOK
  <2>. QED
    BY <2>1, <2>2, <2>3, <2>4, <2>5 DEF CatTypeOK, OneKey
<1>. QED
  BY <1>1, CatHolds, PTL

(* A key of the axes that bear identity now is the one the entry would be  *)
(* given now.                                                              *)
THEOREM KeyRight == CatSpec => []KeyIsRight
<1>1. CatInv => KeyIsRight
  <2>. SUFFICES ASSUME CatInv, NEW e \in cat.live, cat.key[e] # Unknown,
                       DOMAIN cat.key[e].axes = bearing
                PROVE  cat.key[e] = KeyOf(cat, e)
    BY DEF KeyIsRight
  <2>1. cat \in Books /\ e \in Entry /\ KeyStands(cat, e) /\ Bears(cat, e)
    BY DEF CatInv, Good, Books, Bears
  <2>. QED
    BY <2>1, KeyNow
<1>. QED
  BY <1>1, CatHolds, PTL

(* No merge, split, rebuild, fill or edit loses a barcode.                 *)
THEOREM BarcodesKept == CatSpec => BarcodesStay
<1>1. CatInv /\ [CatNext]_catVars
      => [\A g \in Gtin : Holds(cat, g) # {} => Holds(cat', g) # {}]_catVars
  BY CatKept DEF KeepsCodes
<1>. QED
  BY <1>1, CatHolds, PTL DEF CatSpec, BarcodesStay

(* A listing that the promotion makes an entry for is found under it.      *)
THEOREM FoundWhenMade == CatSpec => NotMadeInVain
<1>1. CatInv /\ [CatNext]_catVars
      => [\A o \in Offer : cat'.made > cat.made /\ Findable(readings[o]) /\ Promote(o)
                             => cat'.on[o] = cat'.made]_catVars
  <2>. SUFFICES ASSUME CatInv, NEW o \in Offer, cat'.made > cat.made,
                       Findable(readings[o]), Promote(o)
                PROVE  cat'.on[o] = cat'.made
    OBVIOUS
  <2>1. cat' = Promoted(cat, o)
    BY DEF Promote, Becomes
  <2>2. PromotedAs(cat, o, readings[o], Promoted(cat, o))
    BY PromotedOut DEF CatInv
  <2>3. FindableIn(cat, readings[o])
    BY DEF Findable, FindableIn
  <2>. QED
    BY <2>1, <2>2, <2>3 DEF PromotedAs
<1>. QED
  BY <1>1, CatHolds, PTL DEF CatSpec, NotMadeInVain
-----------------------------------------------------------------------------
(* What a rebuild folds. An entry that is in the way has the key that was  *)
(* to be written, and takes the other in whatever the two hold.            *)
LEMMA InTheWay ==
    ASSUME NEW c, NEW e \in c.live, c \in Books, Regenerate(c, e).twin # Unknown
    PROVE  LET f == Regenerate(c, e).twin
           IN  /\ f \in c.live \ {e} /\ c.key[f] = KeyOf(c, e) /\ KeyOf(c, e) # Unknown
               /\ Regenerate(c, e).cat = c
<1>. DEFINE f == CHOOSE f \in Twins(c, e) : TRUE
<1>1. Twins(c, e) # {}
  BY DEF Regenerate, Done
<1>2. f \in Twins(c, e)
  BY <1>1
<1>. HIDE DEF f
<1>3. Regenerate(c, e) = [cat |-> c, twin |-> f]
  BY <1>1 DEF Regenerate, Clash, f
<1>4. f \in c.live \ {e} /\ c.key[f] = KeyOf(c, e) /\ KeyOf(c, e) # Unknown
  BY <1>2 DEF Twins
<1>. QED
  BY <1>3, <1>4

(* The outcome of setting what e is: said are its axes then, if it is done *)
(* or if it is in the way of another, which says the same.                 *)
ComesTo(c, e, said, x) ==
    /\ x.twin = Unknown => /\ x.cat.live = c.live /\ x.cat.merges = c.merges
                           /\ \A f \in c.live \ {e} : x.cat.axes[f] = c.axes[f]
                           /\ \A b \in Axis : x.cat.axes[e][b] = said[b]
    /\ x.twin # Unknown => /\ x.twin \in c.live \ {e} /\ Bears(c, x.twin)
                           /\ \A b \in bearing : c.axes[x.twin][b] = said[b]

LEMMA TwinSays ==
    ASSUME NEW c, Good(c), bearing \subseteq Axis, NEW e \in c.live, NEW d \in Books,
           d.live = c.live, d.key = c.key, d.model[e] \in Model,
           Regenerate(d, e).twin # Unknown
    PROVE  LET f == Regenerate(d, e).twin
           IN  f \in c.live \ {e} /\ Bears(c, f) /\ \A b \in bearing : c.axes[f][b] = d.axes[e][b]
<1>. DEFINE f == Regenerate(d, e).twin
<1>1. f \in c.live \ {e} /\ c.key[f] = KeyOf(d, e) /\ KeyOf(d, e) # Unknown
  BY InTheWay
<1>2. e \in Entry /\ c \in Books
  BY DEF Good, Books
<1>3. /\ DOMAIN KeyOf(d, e).axes = bearing
      /\ \A b \in bearing : KeyOf(d, e).axes[b] = d.axes[e][b]
  BY <1>1, <1>2, KeyTyped
<1>. HIDE DEF f
<1>4. KeyStands(c, f)
  BY <1>1 DEF Good
<1>5. Bears(c, f) /\ \A b \in bearing : c.axes[f][b] = d.axes[e][b]
  BY <1>1, <1>3, <1>4 DEF KeyStands, Bears
<1>. QED
  BY <1>1, <1>5 DEF f

LEMMA SetAxisComes ==
    ASSUME NEW c, NEW e \in c.live, Good(c), bearing \subseteq Axis,
           NEW a \in Axis, NEW v \in Value
    PROVE  ComesTo(c, e, [c.axes[e] EXCEPT ![a] = v], SetAxis(c, e, a, v))
<1>. DEFINE d == [c EXCEPT !.axes[e][a] = v]
            x == SetAxis(c, e, a, v)
            said == [c.axes[e] EXCEPT ![a] = v]
<1>1. c \in Books /\ e \in Entry /\ c.live \subseteq Entry /\ c.model[e] \in Model
  BY DEF Good, Books, RefersOK
<1>2. /\ d \in Books /\ d.live = c.live /\ d.model = c.model /\ d.key = c.key
      /\ \A b \in Axis : d.axes[e][b] = IF b = a THEN v ELSE c.axes[e][b]
  BY <1>1, SetOneAxis
<1>3. \A b \in Axis : said[b] = IF b = a THEN v ELSE c.axes[e][b]
  BY <1>1 DEF Books
<1>4. AxisSet(c, e, a, v, x)
  BY SetAxisOut
<1>5. x = Regenerate(d, e)
  BY DEF SetAxis
<1>. HIDE DEF d, x, said
<1>6. CASE x.twin = Unknown
  <2>1. \A b \in Axis : x.cat.axes[e][b] = said[b]
    BY <1>3, <1>4 DEF AxisSet
  <2>2. \A f \in c.live \ {e} : x.cat.axes[f] = c.axes[f]
    BY <1>1, <1>4 DEF AxisSet, SameButAxes
  <2>3. x.cat.live = c.live /\ x.cat.merges = c.merges
    BY <1>4 DEF AxisSet, SameButAxes
  <2>. QED
    BY <1>6, <2>1, <2>2, <2>3 DEF ComesTo, x, said
<1>7. CASE x.twin # Unknown
  <2>1. x.twin \in c.live \ {e} /\ Bears(c, x.twin)
        /\ \A b \in bearing : c.axes[x.twin][b] = d.axes[e][b]
    BY <1>1, <1>2, <1>5, <1>7, TwinSays
  <2>2. \A b \in bearing : c.axes[x.twin][b] = said[b]
    BY <1>2, <1>3, <2>1
  <2>. QED
    BY <1>7, <2>1, <2>2 DEF ComesTo, x, said
<1>. QED
  BY <1>6, <1>7

LEMMA SetModelComes ==
    ASSUME NEW c, NEW e \in c.live, Good(c), bearing \subseteq Axis, NEW m \in Model
    PROVE  ComesTo(c, e, c.axes[e], SetModel(c, e, m))
<1>. DEFINE d == [c EXCEPT !.model[e] = m]
            x == SetModel(c, e, m)
<1>1. c \in Books /\ e \in Entry
  BY DEF Good, Books
<1>2. /\ d \in Books /\ d.live = c.live /\ d.axes = c.axes /\ d.key = c.key
      /\ d.merges = c.merges /\ d.model[e] = m
  BY <1>1 DEF Books
<1>3. x = Regenerate(d, e)
  BY DEF SetModel
<1>. HIDE DEF d, x
<1>4. CASE x.twin = Unknown
  <2>1. x.cat.live = d.live /\ x.cat.merges = d.merges /\ x.cat.axes = d.axes
    <3>1. Twins(d, e) = {} \/ x.twin \in d.live
      <4>1. x = Clash(d, CHOOSE f \in Twins(d, e) : TRUE) \/ Twins(d, e) = {}
        BY <1>3 DEF Regenerate
      <4>. QED
        BY <4>1 DEF Clash, Twins
    <3>2. Unknown \notin d.live
      BY <1>1, <1>2, EntryIds DEF Books
    <3>3. x = Done([d EXCEPT !.key[e] = KeyOf(d, e)])
      BY <1>3, <1>4, <3>1, <3>2 DEF Regenerate
    <3>. QED
      BY <1>2, <3>3 DEF Done, Books
  <2>. QED
    BY <1>2, <1>4, <2>1 DEF ComesTo, x
<1>5. CASE x.twin # Unknown
  <2>1. x.twin \in c.live \ {e} /\ Bears(c, x.twin)
        /\ \A b \in bearing : c.axes[x.twin][b] = d.axes[e][b]
    BY <1>1, <1>2, <1>3, <1>5, TwinSays
  <2>. QED
    BY <1>2, <1>5, <2>1 DEF ComesTo, x
<1>. QED
  BY <1>4, <1>5

LEMMA TwinTakesIn ==
    ASSUME NEW c, Good(c), bearing \subseteq Axis,
           NEW from \in c.live, NEW into \in c.live, from # into, Bears(c, into)
    PROVE  LET x == Merge(c, from, into)
           IN  /\ x.twin = Unknown /\ x.cat.live = c.live \ {from}
               /\ x.cat.merges = {m \in c.merges : m[2] # from} \cup {<<from, into>>}
               /\ \A f \in c.live \ {from} : \A b \in bearing : x.cat.axes[f][b] = c.axes[f][b]
<1>1. c \in Books /\ from \in Entry /\ into \in Entry /\ c.live \subseteq Entry /\ OneKey(c)
      /\ KeyStands(c, into)
  BY DEF Good, Books
<1>2. PICK d \in Books : MergedRows(c, from, into, d)
  BY <1>1, MergeRows
<1>3. c.key[into] = KeyOf(c, into) /\ \A b \in bearing : c.axes[into][b] # Unknown
  BY <1>1, KeyNow
<1>4. \A f \in c.live \ {from} : \A b \in bearing : d.axes[f][b] = c.axes[f][b]
  BY <1>1, <1>2, <1>3 DEF MergedRows
<1>5. d.model[into] = c.model[into] /\ d.live = c.live \ {from}
      /\ \A f \in d.live : d.key[f] = c.key[f]
  BY <1>1, <1>2 DEF MergedRows
<1>6. KeyOf(d, into) = KeyOf(c, into)
  <2>1. \A b \in bearing : d.axes[into][b] = c.axes[into][b]
    BY <1>4
  <2>. QED
    BY <1>5, <2>1 DEF KeyOf
<1>7. Twins(d, into) = {}
  BY <1>1, <1>3, <1>5, <1>6 DEF Twins, OneKey, Bears
<1>. DEFINE x == Merge(c, from, into)
<1>8. x = [cat |-> [d EXCEPT !.key[into] = KeyOf(d, into)], twin |-> Unknown]
  BY <1>2, <1>7 DEF MergedRows, Regenerate, Done
<1>. HIDE DEF x
<1>9. x.cat.live = d.live /\ x.cat.merges = d.merges /\ x.cat.axes = d.axes /\ x.twin = Unknown
  BY <1>8 DEF Books
<1>10. d.merges = {m \in c.merges : m[2] # from} \cup {<<from, into>>}
  BY <1>2 DEF MergedRows
<1>11. /\ x.twin = Unknown /\ x.cat.live = c.live \ {from}
       /\ x.cat.merges = {m \in c.merges : m[2] # from} \cup {<<from, into>>}
       /\ \A f \in c.live \ {from} : \A b \in bearing : x.cat.axes[f][b] = c.axes[f][b]
  BY <1>4, <1>5, <1>9, <1>10
<1>. QED
  BY <1>11 DEF x

(* One step of a rebuild: of e, which says so and so after it, or has been *)
(* folded into an entry that says the same.                                *)
OneStep(c, d, e, said) ==
    /\ d.live \subseteq c.live
    /\ \A f \in d.live : \A b \in bearing : d.axes[f][b] = IF f = e THEN said[b] ELSE c.axes[f][b]
    /\ \A m \in d.merges \ c.merges : m[1] = e /\ \A b \in bearing : d.axes[m[2]][b] = said[b]

LEMMA OrMergedStep ==
    ASSUME NEW c, Good(c), bearing \subseteq Axis, NEW e \in c.live, NEW said, NEW x,
           ComesTo(c, e, said, x)
    PROVE  OneStep(c, OrMerged(c, e, x), e, said)
<1>1. CASE x.twin = Unknown
  <2>1. /\ x.cat.live = c.live /\ x.cat.merges = c.merges
        /\ \A f \in c.live \ {e} : x.cat.axes[f] = c.axes[f]
        /\ \A b \in bearing : x.cat.axes[e][b] = said[b]
    BY <1>1 DEF ComesTo
  <2>2. OrMerged(c, e, x) = x.cat
    BY <1>1 DEF OrMerged
  <2>. QED
    BY <2>1, <2>2 DEF OneStep
<1>2. CASE x.twin # Unknown
  <2>. DEFINE y == Merge(c, e, x.twin)
              f == x.twin
  <2>1. f \in c.live \ {e} /\ Bears(c, f) /\ \A b \in bearing : c.axes[f][b] = said[b]
    BY <1>2 DEF ComesTo
  <2>2. /\ y.twin = Unknown /\ y.cat.live = c.live \ {e}
        /\ y.cat.merges = {m \in c.merges : m[2] # e} \cup {<<e, f>>}
        /\ \A g \in c.live \ {e} : \A b \in bearing : y.cat.axes[g][b] = c.axes[g][b]
    BY <2>1, TwinTakesIn
  <2>3. OrMerged(c, e, x) = y.cat
    BY <1>2, <2>2 DEF OrMerged, Try
  <2>. HIDE DEF y, f
  <2>4. \A m \in y.cat.merges \ c.merges : m = <<e, f>>
    BY <2>2
  <2>5. \A b \in bearing : y.cat.axes[f][b] = said[b]
    BY <2>1, <2>2
  <2>6. OneStep(c, y.cat, e, said)
    BY <2>2, <2>4, <2>5 DEF OneStep
  <2>. QED
    BY <2>3, <2>6
<1>. QED
  BY <1>1, <1>2

(* Behind of Catalogue, in any catalogue; of two entries that have one     *)
(* axis behind between them, one has none.                                 *)
BehindIn(c, e)   == {a \in bearing : <<e, a>> \in StaleAxes(c)}
Few(c, e, f)     == Cardinality(BehindIn(c, e)) + Cardinality(BehindIn(c, f)) < 2
SaidNow(c, e, a) == IF IsStale(c, e, a) THEN NewValue(c, e, a) ELSE c.axes[e][a]

LEMMA FewBehind ==
    ASSUME bearing \subseteq Axis, NEW c, NEW e, NEW f, Few(c, e, f)
    PROVE  /\ \A a, b \in BehindIn(c, e) : a = b
           /\ BehindIn(c, e) = {} \/ BehindIn(c, f) = {}
<1>1. IsFiniteSet(BehindIn(c, e)) /\ IsFiniteSet(BehindIn(c, f))
  <2>1. IsFiniteSet(Axis) /\ BehindIn(c, e) \subseteq Axis /\ BehindIn(c, f) \subseteq Axis
    BY CatalogueAssumption DEF BehindIn
  <2>. QED
    BY <2>1, FS_Subset
<1>. DEFINE S == BehindIn(c, e)
            T == BehindIn(c, f)
<1>2. IsFiniteSet(S) /\ IsFiniteSet(T) /\ Cardinality(S) + Cardinality(T) < 2
  BY <1>1 DEF Few
<1>. HIDE DEF S, T
<1>3. /\ Cardinality(S) \in Nat /\ Cardinality(T) \in Nat
      /\ Cardinality(S) = 0 => S = {}
      /\ Cardinality(T) = 0 => T = {}
  BY <1>2, FS_CardinalityType, FS_EmptySet
<1>4. S = {} \/ (Cardinality(S) = 1 /\ T = {})
  BY <1>2, <1>3
<1>5. Cardinality(S) = 1 => \E x : S = {x}
  BY <1>2, FS_Singleton
<1>6. (\A a, b \in S : a = b) /\ (S = {} \/ T = {})
  BY <1>4, <1>5
<1>. QED
  BY <1>6 DEF S, T

(* How far the axes are: those in done say what the listings do, and who   *)
(* was folded had an axis behind and agrees with where it went.            *)
AlignedTo(c, d, done) ==
    /\ Onward(c, d) /\ d.live \subseteq c.live
    /\ \A e \in d.live : \A a \in bearing :
          d.axes[e][a] = IF <<e, a>> \in done THEN NewValue(c, e, a) ELSE c.axes[e][a]
    /\ \A m \in d.merges \ c.merges :
          /\ m[1] \in c.live /\ m[2] \in d.live /\ BehindIn(c, m[1]) # {}
          /\ Few(c, m[1], m[2]) => \A a \in bearing : d.axes[m[2]][a] = SaidNow(c, m[1], a)

LEMMA AligningStep ==
    ASSUME NEW c, NEW d, NEW done, Good(c), AlignedTo(c, d, done), done \subseteq StaleAxes(c),
           bearing \subseteq Axis, readings \in [Offer -> Reading],
           NEW e, NEW a, <<e, a>> \in StaleAxes(c)
    PROVE  AlignedTo(c, Aligning(c, d, e, a), done \cup {<<e, a>>})
<1>. DEFINE new == Aligning(c, d, e, a)
            v == NewValue(c, e, a)
            said == [d.axes[e] EXCEPT ![a] = v]
<1>1. e \in c.live /\ a \in bearing /\ a \in Axis /\ IsStale(c, e, a)
  BY DEF StaleAxes
<1>2. Onward(c, d) /\ Onward(c, new) /\ Good(d) /\ Good(new)
  BY AligningOut DEF AlignedTo, Onward
<1>3. \A m \in new.merges : m[2] \in new.live
  BY <1>2 DEF Good, RefersOK
<1>4. a \in BehindIn(c, e)
  BY <1>1 DEF BehindIn
<1>5. CASE e \notin d.live
  <2>1. new = d
    BY <1>5 DEF Aligning
  <2>2. \A f \in d.live : \A b \in bearing :
            <<f, b>> \in done \cup {<<e, a>>} <=> <<f, b>> \in done
    BY <1>5
  <2>. HIDE DEF new
  <2>3. AlignedTo(c, new, done \cup {<<e, a>>})
    BY <2>1, <2>2 DEF AlignedTo
  <2>. QED
    BY <2>3 DEF new
<1>6. CASE e \in d.live
  <2>1. v \in Value
    BY <1>1, NewValueOut
  <2>2. ComesTo(d, e, said, SetAxis(d, e, a, v))
    BY <1>1, <1>2, <1>6, <2>1, SetAxisComes
  <2>3. OneStep(d, new, e, said)
    BY <1>2, <1>6, <2>2, OrMergedStep DEF Aligning
  <2>4. \A b \in bearing : said[b] = IF b = a THEN v ELSE d.axes[e][b]
    BY <1>2, <1>6 DEF Good, Books
  <2>. HIDE DEF new, said
  <2>5. new.live \subseteq d.live /\ d.live \subseteq c.live
    BY <2>3 DEF OneStep, AlignedTo
  <2>6. ASSUME NEW f \in new.live, NEW b \in bearing
        PROVE  new.axes[f][b] = IF <<f, b>> \in done \cup {<<e, a>>} THEN NewValue(c, f, b)
                                ELSE c.axes[f][b]
    <3>1. new.axes[f][b] = IF f = e THEN said[b] ELSE d.axes[f][b]
      BY <2>3 DEF OneStep
    <3>2. d.axes[f][b] = IF <<f, b>> \in done THEN NewValue(c, f, b) ELSE c.axes[f][b]
      BY <2>5 DEF AlignedTo
    <3>3. CASE f = e /\ b = a
      BY <2>4, <3>1, <3>3
    <3>4. CASE ~(f = e /\ b = a)
      <4>1. <<f, b>> \in done \cup {<<e, a>>} <=> <<f, b>> \in done
        BY <3>4
      <4>2. new.axes[f][b] = d.axes[f][b]
        BY <2>4, <3>1, <3>4
      <4>. QED
        BY <3>2, <4>1, <4>2
    <3>. QED
      BY <3>3, <3>4
  <2>7. ASSUME NEW m \in new.merges \ c.merges
        PROVE  /\ m[1] \in c.live /\ m[2] \in new.live /\ BehindIn(c, m[1]) # {}
               /\ Few(c, m[1], m[2]) => \A b \in bearing : new.axes[m[2]][b] = SaidNow(c, m[1], b)
    <3>1. m[2] \in new.live /\ m[2] \in d.live
      BY <1>3, <2>5
    <3>2. CASE m \in d.merges
      <4>1. /\ m[1] \in c.live /\ BehindIn(c, m[1]) # {}
            /\ Few(c, m[1], m[2]) => \A b \in bearing : d.axes[m[2]][b] = SaidNow(c, m[1], b)
        BY <2>7, <3>2 DEF AlignedTo
      <4>2. Few(c, m[1], m[2]) => m[2] # e
        BY <1>4, <4>1, FewBehind
      <4>3. m[2] # e => \A b \in bearing : new.axes[m[2]][b] = d.axes[m[2]][b]
        BY <2>3, <3>1 DEF OneStep
      <4>. QED
        BY <3>1, <4>1, <4>2, <4>3
    <3>3. CASE m \notin d.merges
      <4>1. m[1] = e /\ \A b \in bearing : new.axes[m[2]][b] = said[b]
        BY <2>3, <3>3 DEF OneStep
      <4>2. ASSUME Few(c, m[1], m[2]), NEW b \in bearing
            PROVE  new.axes[m[2]][b] = SaidNow(c, m[1], b)
        <5>1. CASE b = a
          BY <1>1, <2>4, <4>1, <5>1 DEF SaidNow
        <5>2. CASE b # a
          <6>1. b \notin BehindIn(c, e)
            BY <1>4, <4>1, <4>2, <5>2, FewBehind
          <6>2. <<e, b>> \notin StaleAxes(c) /\ <<e, b>> \notin done
            BY <6>1 DEF BehindIn
          <6>3. ~IsStale(c, e, b)
            BY <1>1, <6>2 DEF StaleAxes
          <6>4. d.axes[e][b] = c.axes[e][b]
            BY <1>6, <6>2 DEF AlignedTo
          <6>. QED
            BY <2>4, <4>1, <5>2, <6>3, <6>4 DEF SaidNow
        <5>. QED
          BY <5>1, <5>2
      <4>. QED
        BY <1>1, <1>4, <3>1, <4>1, <4>2
    <3>. QED
      BY <3>2, <3>3
  <2>8. AlignedTo(c, new, done \cup {<<e, a>>})
    <3>1. new.live \subseteq c.live
      BY <2>5
    <3>. QED
      BY <1>2, <2>6, <2>7, <3>1 DEF AlignedTo
  <2>. QED
    BY <2>8 DEF new
<1>. QED
  BY <1>5, <1>6

(* Who was folded, with one axis behind at most beside its survivor, says  *)
(* what the survivor does.                                                 *)
FoldsAgree(c, d) ==
    \A m \in d.merges \ c.merges :
        /\ m[1] \in c.live
        /\ Few(c, m[1], m[2]) => \A a \in bearing : d.axes[m[2]][a] = SaidNow(c, m[1], a)

(* All axes say what the listings do, as they must before the names.       *)
SettledTo(c, d) ==
    /\ d.live \subseteq c.live /\ FoldsAgree(c, d)
    /\ \A e \in d.live : \A a \in bearing : d.axes[e][a] = SaidNow(c, e, a)

LEMMA NamingStep ==
    ASSUME NEW c, NEW base, NEW d, Good(base), Onward(base, d), SettledTo(c, d),
           bearing \subseteq Axis, readings \in [Offer -> Reading], NEW e
    PROVE  SettledTo(c, Naming(base, d, e))
<1>. DEFINE new == Naming(base, d, e)
<1>1. Good(d) /\ Good(new)
  BY NamingOut DEF Onward
<1>2. \A m \in new.merges : m[2] \in new.live
  BY <1>1 DEF Good, RefersOK
<1>3. CASE e \notin DueNames(base) \cap d.live
  BY <1>3 DEF Naming
<1>4. CASE e \in DueNames(base) \cap d.live
  <2>. DEFINE said == d.axes[e]
  <2>1. e \in d.live /\ e \in StaleNames(base)
    BY <1>4 DEF DueNames
  <2>2. NewName(base, e) \in Model
    BY <2>1, NewNameOut
  <2>3. ComesTo(d, e, said, SetModel(d, e, NewName(base, e)))
    BY <1>1, <2>1, <2>2, SetModelComes
  <2>4. OneStep(d, new, e, said)
    BY <1>1, <1>4, <2>1, <2>3, OrMergedStep DEF Naming
  <2>. HIDE DEF new
  <2>5. new.live \subseteq d.live /\ d.live \subseteq c.live
        /\ \A f \in new.live : \A b \in bearing : new.axes[f][b] = d.axes[f][b]
    BY <2>4 DEF OneStep, SettledTo
  <2>6. \A f \in new.live : \A b \in bearing : new.axes[f][b] = SaidNow(c, f, b)
    BY <2>5 DEF SettledTo
  <2>7. ASSUME NEW m \in new.merges \ c.merges
        PROVE  /\ m[1] \in c.live
               /\ Few(c, m[1], m[2]) => \A a \in bearing : new.axes[m[2]][a] = SaidNow(c, m[1], a)
    <3>1. m[2] \in new.live
      BY <1>2
    <3>2. CASE m \in d.merges
      BY <2>5, <2>7, <3>1, <3>2 DEF SettledTo, FoldsAgree
    <3>3. CASE m \notin d.merges
      <4>1. m[1] = e /\ \A b \in bearing : new.axes[m[2]][b] = d.axes[e][b]
        BY <2>4, <3>3 DEF OneStep
      <4>. QED
        BY <2>1, <2>5, <4>1 DEF SettledTo
    <3>. QED
      BY <3>2, <3>3
  <2>8. SettledTo(c, new)
    BY <2>5, <2>6, <2>7 DEF SettledTo, FoldsAgree
  <2>. QED
    BY <2>8 DEF new
<1>. QED
  BY <1>3, <1>4

LEMMA RealignedTo ==
    ASSUME NEW c, Good(c), bearing \subseteq Axis, readings \in [Offer -> Reading],
           NEW stale, stale \in Seq(StaleAxes(c))
    PROVE  AlignedTo(c, Realigned(c, stale), {stale[i] : i \in 1 .. Len(stale)})
<1>. DEFINE n == Len(stale)
            Done0(i) == {stale[j] : j \in 1 .. i}
            Q == [i \in 0 .. n |-> {d \in Books : AlignedTo(c, d, Done0(i))}]
<1>1. n \in Nat /\ DOMAIN stale = 1 .. n
  OBVIOUS
<1>2. /\ \A i \in 1 .. n : i \in 0 .. n /\ i - 1 \in 0 .. n
      /\ \A i \in 1 .. n : 1 .. i = 1 .. i - 1 \cup {i}
      /\ 1 .. 0 = {} /\ 0 \in 0 .. n
  BY <1>1
<1>3. \A i \in 1 .. n : stale[i] \in StaleAxes(c) /\ stale[i] = <<stale[i][1], stale[i][2]>>
  <2>1. \A i \in 1 .. n : stale[i] \in StaleAxes(c)
    BY <1>1
  <2>. QED
    BY <2>1 DEF StaleAxes
<1>4. Done0(0) = {} /\ \A i \in 1 .. n : Done0(i) = Done0(i - 1) \cup {stale[i]}
  BY <1>2
<1>5. \A i \in 0 .. n : Done0(i) \subseteq StaleAxes(c)
  <2>1. \A i \in 0 .. n : \A j \in 1 .. i : j \in 1 .. n
    BY <1>1
  <2>. QED
    BY <1>3, <2>1
<1>. HIDE DEF Done0
<1>6. c \in Books /\ AlignedTo(c, c, {})
  BY SameCodes DEF AlignedTo, Good
<1>7. /\ Q \in [0 .. n -> SUBSET Books]
      /\ \A i \in 0 .. n : \A d : d \in Q[i] <=> d \in Books /\ AlignedTo(c, d, Done0(i))
  OBVIOUS
<1>. HIDE DEF Q
<1>8. ASSUME NEW i \in 1 .. n, NEW d \in Q[i - 1]
      PROVE  Aligning(c, d, stale[i][1], stale[i][2]) \in Q[i]
  <2>. DEFINE e == stale[i][1]
              a == stale[i][2]
              new == Aligning(c, d, e, a)
  <2>1. AlignedTo(c, d, Done0(i - 1)) /\ Done0(i - 1) \subseteq StaleAxes(c)
    BY <1>2, <1>5, <1>7
  <2>2. stale[i] = <<e, a>> /\ <<e, a>> \in StaleAxes(c)
    BY <1>3
  <2>. HIDE DEF e, a
  <2>3. AlignedTo(c, new, Done0(i - 1) \cup {<<e, a>>})
    BY <2>1, <2>2, AligningStep
  <2>. HIDE DEF new
  <2>4. AlignedTo(c, new, Done0(i)) /\ new \in Books
    BY <1>4, <2>2, <2>3 DEF AlignedTo, Onward, Good
  <2>5. new \in Q[i]
    BY <1>2, <1>7, <2>4
  <2>. QED
    BY <2>5 DEF new, e, a
<1>9. c \in Q[0]
  BY <1>2, <1>4, <1>6, <1>7
<1>10. Realigned(c, stale) \in Q[n]
  BY <1>1, <1>7, <1>8, <1>9, RealignedThrough
<1>11. n \in 0 .. n
  BY <1>1
<1>. QED
  BY <1>7, <1>10, <1>11 DEF Done0

LEMMA RenamedTo ==
    ASSUME NEW c, NEW base, Good(base), SettledTo(c, base),
           bearing \subseteq Axis, readings \in [Offer -> Reading]
    PROVE  SettledTo(c, Renamed(base))
<1>. DEFINE Q == {d \in Books : Onward(base, d) /\ SettledTo(c, d)}
<1>1. base \in Q
  BY SameCodes DEF Good
<1>2. \A e \in Entry : \A d \in Q : Naming(base, d, e) \in Q
  BY NamingOut, NamingStep DEF Onward, Good
<1>3. Q \in SUBSET Books
  OBVIOUS
<1>. HIDE DEF Q
<1>4. Renamed(base) \in Q
  BY <1>1, <1>2, <1>3, RenamedThrough
<1>. QED
  BY <1>4 DEF Q
LEMMA RebuiltTo ==
    ASSUME NEW c, Good(c), bearing \subseteq Axis, readings \in [Offer -> Reading],
           NEW order \in SetToSeqs(StaleAxes(c))
    PROVE  FoldsAgree(c, Rebuilt(c, order))
<1>. DEFINE axes == First(order)
            done == Realigned(c, axes)
            took == {axes[i] : i \in 1 .. Len(axes)}
<1>1. axes \in Seq(StaleAxes(c))
  BY FirstStale
<1>2. AlignedTo(c, done, took)
  BY <1>1, RealignedTo
<1>3. FoldsAgree(c, done)
  BY <1>2 DEF AlignedTo, FoldsAgree
<1>4. Rebuilt(c, order) = IF Len(axes) < Limit THEN Renamed(done) ELSE done
  BY DEF Rebuilt
<1>5. ASSUME Len(axes) < Limit PROVE FoldsAgree(c, Renamed(done))
  <2>1. took = StaleAxes(c)
    BY <1>5, FirstStale
  <2>. HIDE DEF took, done
  <2>2. Good(done) /\ done.live \subseteq c.live
    BY <1>2 DEF AlignedTo, Onward
  <2>3. ASSUME NEW e \in done.live, NEW a \in bearing PROVE done.axes[e][a] = SaidNow(c, e, a)
    <3>1. <<e, a>> \in StaleAxes(c) <=> IsStale(c, e, a)
      BY <2>2 DEF StaleAxes
    <3>. QED
      BY <1>2, <2>1, <3>1 DEF AlignedTo, SaidNow
  <2>4. SettledTo(c, done)
    BY <1>3, <2>2, <2>3 DEF SettledTo
  <2>. QED
    BY <2>2, <2>4, RenamedTo DEF SettledTo
<1>. QED
  BY <1>3, <1>4, <1>5

(* What all listings of an entry state one way it says itself, or is set   *)
(* to.                                                                     *)
LEMMA SaidByAll ==
    ASSUME NEW c, NEW e, NEW a, Cardinality(AxesSaid(c, e, a)) = 1, Unknown \notin AxesSaid(c, e, a)
    PROVE  SaidNow(c, e, a) \in AxesSaid(c, e, a)
<1>. DEFINE S == AxesSaid(c, e, a)
<1>1. S # {}
  BY FS_EmptySet
<1>2. On(c, e) # {}
  BY <1>1 DEF AxesSaid
<1>3. S \ {Unknown} = S
  OBVIOUS
<1>4. CASE IsStale(c, e, a)
  <2>1. NewValue(c, e, a) = CHOOSE v \in S : TRUE
    BY <1>3 DEF NewValue
  <2>. QED
    BY <1>1, <1>4, <2>1 DEF SaidNow
<1>5. CASE ~IsStale(c, e, a)
  <2>1. c.axes[e][a] \in S
    BY <1>2, <1>3, <1>5 DEF IsStale
  <2>. QED
    BY <1>5, <2>1 DEF SaidNow
<1>. QED
  BY <1>4, <1>5

(* The rebuild folds no entry into one that is another than its listings   *)
(* all say it is, unless the two have more than one axis behind them.      *)
THEOREM FoldsWhatIsOne == CatSpec => RebuildKeepsApart
<1>1. CatInv /\ [CatNext]_catVars
      => [Folds # {} /\ Rebuild
            => \A m \in Folds :
                  Cardinality(Behind(m[1])) + Cardinality(Behind(m[2])) < 2
                  => ~Contradicts(m[1], m[2])]_catVars
  <2>. SUFFICES ASSUME CatInv, Rebuild, NEW m \in Folds,
                       Cardinality(Behind(m[1])) + Cardinality(Behind(m[2])) < 2
                PROVE  ~Contradicts(m[1], m[2])
    OBVIOUS
  <2>1. /\ Good(cat) /\ readings \in [Offer -> Reading] /\ bearing \subseteq Axis
    BY DEF CatInv
  <2>2. PICK order \in SetToSeqs(StaleAxes(cat)) : cat' = Rebuilt(cat, order)
    BY DEF Rebuild, Becomes
  <2>3. FoldsAgree(cat, cat')
    BY <2>1, <2>2, RebuiltTo
  <2>4. Few(cat, m[1], m[2])
    BY DEF Few, Behind, BehindIn
  <2>5. \A a \in bearing : cat'.axes[m[2]][a] = SaidNow(cat, m[1], a)
    BY <2>3, <2>4 DEF FoldsAgree, Folds
  <2>. QED
    BY <2>5, SaidByAll DEF Contradicts
<1>. QED
  BY <1>1, CatHolds, PTL DEF CatSpec, RebuildKeepsApart

=============================================================================
