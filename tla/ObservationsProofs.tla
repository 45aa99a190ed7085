------------------------- MODULE ObservationsProofs -------------------------
(***************************************************************************)
(* What holds of Observations for every value of its constants.            *)
(***************************************************************************)
EXTENDS Observations, Ranks

(* Observations!TypeOK, by what the variables describe, and what else      *)
(* keeps it and the promises: there is a first version of the parsers and  *)
(* of the rules,                                                           *)
WorldOK ==
    /\ snapshot \in [Channel -> Price \union {None}]
    /\ hand \in [Passes -> Content \union {None}]
    /\ now \in 0 .. MaxNow
    /\ parser \in Nat \ {0} /\ rules \in Nat \ {0} /\ words \in Nat
    /\ parser + rules + words <= MaxChanges + 2

(* no two observations have one stamp, each is filed under a channel,      *)
StoredOK ==
    /\ at \in [Content -> 0 .. now] /\ by \in [Content -> Channel \union {None}]
    /\ \A c, d \in Held : at[c] = at[d] => c = d
    /\ \A c \in Held : by[c] \in Channel

(* the row of the offer is what the readings left on it,                   *)
RowOK ==
    /\ reading \in [Content -> (0 .. rules) \X (0 .. words)]
    /\ price \in Price \union {None} /\ quoted \in Price \union {None}
    /\ (price = None <=> Held = {}) /\ (quoted = None <=> Held = {})
    /\ name = None <=> ~ \E c \in Held : Page(c)
    /\ crossed \in BOOLEAN /\ NamedUnlessCrossed

(* what a pass brought was seen after the pass began,                      *)
PassesOK ==
    /\ lastSeen \in 0 .. now
    /\ pass \in [Channel -> 0 .. now] /\ passed \in [Channel -> 0 .. now]
    /\ seen \in [Channel -> BOOLEAN] /\ brought \in [Channel -> BOOLEAN]
    /\ \A s \in Channel : pass[s] > 0 => <<s, "full">> \in Passes
    /\ \A s \in Channel : seen[s] => pass[s] <= lastSeen
    /\ \A s \in Channel : brought[s] => passed[s] <= lastSeen

(* only who is at work is behind, and only with what is there,             *)
MarksOK ==
    /\ behind \subseteq AtWork \X {"price", "name"}
    /\ \A b \in behind : Held # {} /\ (b[2] = "name" => name # None)

(* and a re-read under way has read what is held: what it did not take to  *)
(* name the listing never will, and what it did still does unless another  *)
(* named the listing since.                                                *)
OpenOK(r) ==
    again[r] # None =>
        /\ again[r].obs \subseteq Held /\ Held # {}
        /\ again[r].price \in Price /\ again[r].quote \in Price \union {None}
        /\ again[r].read \in (0 .. rules) \X (0 .. words) /\ again[r].renames \in BOOLEAN
        /\ IF again[r].names = None
           THEN \A c \in again[r].obs : ~NamesIt(c, at)
           ELSE again[r].names \in again[r].obs /\ Page(again[r].names)
        /\ <<r, "name">> \notin behind =>
              /\ again[r].names # None => NamesIt(again[r].names, at)
              /\ again[r].renames => again[r].names # None

Records == [obs : SUBSET Content, price : Price, names : Content \union {None},
            read : Nat \X Nat, quote : Price \union {None}, renames : BOOLEAN]

RereadsOK == /\ again \in [Reader -> Records \union {None}]
             /\ \A r \in Reader : OpenOK(r)

Inductive == WorldOK /\ StoredOK /\ RowOK /\ PassesOK /\ MarksOK /\ RereadsOK

-----------------------------------------------------------------------------
(* The newest of some observations. *)

LEMMA NewestIs ==
    ASSUME StoredOK, WorldOK, NEW C \in SUBSET Held, C # {}
    PROVE  Newest(C, at) \in C /\ \A d \in C : at[d] <= at[Newest(C, at)]
<1>. DEFINE stamps == {at[c] : c \in C}
<1>1. stamps \subseteq 0 .. now /\ stamps # {} /\ now \in Nat
  BY ObservationsAssumption DEF Held, StoredOK, WorldOK
<1>2. stamps \in SUBSET Nat /\ IsFiniteSet(stamps)
  <2>1. IsFiniteSet(0 .. now) /\ 0 .. now \subseteq Nat
    BY <1>1, FS_Interval
  <2>. HIDE DEF stamps
  <2>. QED
    BY <1>1, <2>1, FS_Subset
<1>3. PICK x \in stamps : \A y \in stamps : y <= x
  <2>. HIDE DEF stamps
  <2>. QED
    BY <1>1, <1>2, GreatestMember
<1>4. \E c \in C : \A d \in C : at[d] <= at[c]
  BY <1>3
<1>. QED
  BY <1>4 DEF Newest

(* At most one observation names the listing. *)
LEMMA OneNames ==
    ASSUME StoredOK, NEW c \in Held, NEW d \in Held, NamesIt(c, at), NamesIt(d, at)
    PROVE  c = d
<1>1. c \in Content /\ d \in Content /\ at[c] \in Nat /\ at[d] \in Nat
  BY DEF Held, StoredOK
<1>2. at[d] <= at[c] /\ at[c] <= at[d]
  BY <1>1 DEF NamesIt
<1>. QED
  BY <1>1, <1>2 DEF StoredOK

-----------------------------------------------------------------------------
(* The passes read, and what changes meanwhile. *)

(* None of it touches the offer or what is stored of it, *)
LEMMA StillOK ==
    ASSUME Inductive, UNCHANGED <<stored, reading, row, quoted, crossed>>,
           now' \in Nat, now <= now', rules' \in Nat, rules <= rules',
           words' \in Nat, words <= words'
    PROVE  StoredOK' /\ RowOK'
<1>1. UNCHANGED <<at, by, price, name>> /\ now \in Nat /\ rules \in Nat /\ words \in Nat
  BY DEF stored, row, Inductive, WorldOK
<1>2. StoredOK'
  BY <1>1 DEF Inductive, StoredOK, Held
<1>3. reading' \in [Content -> (0 .. rules') \X (0 .. words')]
  <2>1. (0 .. rules) \X (0 .. words) \subseteq (0 .. rules') \X (0 .. words')
    BY <1>1
  <2>. QED
    BY <2>1 DEF Inductive, RowOK
<1>. QED
  BY <1>1, <1>2, <1>3
  DEF Inductive, RowOK, Held, NamedUnlessCrossed, NameIsNewestPage, NamesIt

(* or the re-reads under way.  One that goes on stays as it was read: what *)
(* is taken in does not make an older observation name the listing, and it *)
(* is marked if what it read does so no more.                              *)
LEMMA StaysOpen ==
    ASSUME Inductive, NEW r \in Reader, again[r] # None, again'[r] = again[r],
           Held \subseteq Held', rules' \in Nat, rules <= rules', words' \in Nat, words <= words',
           \A c \in Held : NamesIt(c, at') => NamesIt(c, at),
           <<r, "name">> \notin behind' =>
               /\ <<r, "name">> \notin behind
               /\ \A c \in Held : name # None /\ NamesIt(c, at) => NamesIt(c, at')
    PROVE  OpenOK(r)'
<1>1. OpenOK(r) /\ rules \in Nat /\ words \in Nat
  BY DEF Inductive, RereadsOK, WorldOK
<1>2. again[r].names # None => again[r].names \in Held /\ name # None
  BY <1>1 DEF OpenOK, Inductive, RowOK
<1>3. (0 .. rules) \X (0 .. words) \subseteq (0 .. rules') \X (0 .. words')
  BY <1>1
<1>4. again'[r].read \in (0 .. rules') \X (0 .. words')
  BY <1>1, <1>3 DEF OpenOK
<1>5. again'[r].names = None => \A c \in again'[r].obs : ~NamesIt(c, at')
  BY <1>1 DEF OpenOK
<1>6. <<r, "name">> \notin behind' =>
          /\ again'[r].names # None => NamesIt(again'[r].names, at')
          /\ again'[r].renames => again'[r].names # None
  BY <1>1, <1>2 DEF OpenOK
<1>. QED
  BY <1>1, <1>4, <1>5, <1>6 DEF OpenOK

(* Who is through leaves the others their marks, and those of its own.     *)
LEMMA DoneOK ==
    ASSUME Inductive, NEW who, NEW columns \in SUBSET {"price", "name"}, Done(who, columns),
           AtWork \ {who} \subseteq AtWork', Held \subseteq Held',
           columns # {} => Held # {}, "name" \in columns => name # None,
           name # None => name' # None
    PROVE  /\ MarksOK'
           /\ \A r \in AtWork : r # who /\ <<r, "name">> \notin behind' =>
                  <<r, "name">> \notin behind /\ "name" \notin columns
<1>1. \A b \in behind' : /\ b \in AtWork \X {"price", "name"} /\ b[1] # who
                         /\ b \in behind \/ b[2] \in columns
  BY DEF Done, Inductive, MarksOK
<1>2. behind' \subseteq AtWork' \X {"price", "name"}
  BY <1>1
<1>3. \A b \in behind' : Held' # {} /\ (b[2] = "name" => name' # None)
  BY <1>1 DEF Inductive, MarksOK
<1>4. \A r \in AtWork : r # who /\ <<r, "name">> \notin behind' =>
          <<r, "name">> \notin behind /\ "name" \notin columns
  BY DEF Done
<1>. QED
  BY <1>2, <1>3, <1>4 DEF MarksOK

(* Nobody is through. *)
LEMMA StillReads ==
    ASSUME Inductive, UNCHANGED <<stored, row, rereads>>, rules' \in Nat, rules <= rules',
           words' \in Nat, words <= words', {k \in Passes : hand[k] # None} \subseteq AtWork'
    PROVE  MarksOK' /\ RereadsOK'
<1>1. UNCHANGED <<at, by, name, again, behind>> /\ Held' = Held
  BY DEF stored, row, rereads, Held
<1>2. MarksOK'
  <2>1. AtWork \subseteq AtWork'
    BY <1>1 DEF AtWork
  <2>. QED
    BY <1>1, <2>1 DEF Inductive, MarksOK
<1>3. ASSUME NEW r \in Reader PROVE OpenOK(r)'
  <2>1. CASE again[r] = None
    BY <1>1, <2>1 DEF OpenOK
  <2>2. CASE again[r] # None
    BY <1>1, <2>2, StaysOpen
  <2>. QED
    BY <2>1, <2>2
<1>. QED
  BY <1>1, <1>2, <1>3 DEF Inductive, RereadsOK

LEMMA DeployOK ==
    ASSUME Inductive, Deploy
    PROVE  Inductive'
<1>1. WorldOK' /\ PassesOK'
  BY ObservationsAssumption DEF Deploy, MayChange, Inductive, WorldOK, PassesOK, passes
<1>2. UNCHANGED <<stored, reading, row, quoted, rereads, crossed, hand, now>>
      /\ rules' \in Nat /\ rules <= rules' /\ words' \in Nat /\ words <= words'
      /\ now \in Nat
  BY DEF Deploy, Inductive, WorldOK, rereads
<1>3. {k \in Passes : hand[k] # None} \subseteq AtWork'
  BY <1>2 DEF AtWork
<1>. QED
  BY <1>1, <1>2, <1>3, StillOK, StillReads DEF Inductive

LEMMA RegisterOK ==
    ASSUME Inductive, Register
    PROVE  Inductive'
<1>1. WorldOK' /\ PassesOK'
  BY ObservationsAssumption DEF Register, MayChange, Inductive, WorldOK, PassesOK, passes
<1>2. UNCHANGED <<stored, reading, row, quoted, rereads, crossed, hand, now>>
      /\ rules' \in Nat /\ rules <= rules' /\ words' \in Nat /\ words <= words'
      /\ now \in Nat
  BY DEF Register, Inductive, WorldOK, rereads
<1>3. {k \in Passes : hand[k] # None} \subseteq AtWork'
  BY <1>2 DEF AtWork
<1>. QED
  BY <1>1, <1>2, <1>3, StillOK, StillReads DEF Inductive

LEMMA StartFullOK ==
    ASSUME Inductive, NEW s \in Channel, StartFull(s)
    PROVE  Inductive'
<1>1. WorldOK'
  BY ObservationsAssumption DEF StartFull, Inductive, WorldOK, world
<1>2. PassesOK'
  BY ObservationsAssumption DEF StartFull, Inductive, WorldOK, PassesOK
<1>3. UNCHANGED <<stored, reading, row, quoted, rereads, crossed, hand, rules, words>>
      /\ rules \in Nat /\ words \in Nat /\ now \in Nat /\ now' = now + 1
  BY DEF StartFull, Inductive, WorldOK, rereads, world
<1>4. {k \in Passes : hand[k] # None} \subseteq AtWork'
  BY <1>3 DEF AtWork
<1>. QED
  BY <1>1, <1>2, <1>3, <1>4, StillOK, StillReads DEF Inductive

(* What a page or a card says is a payload. *)
LEMMA Readable ==
    ASSUME WorldOK, NEW p \in Price
    PROVE  <<p, parser>> \in Content /\ <<p, 0>> \in Content
  BY ObservationsAssumption DEF WorldOK, Content

LEMMA ObserveOK ==
    ASSUME Inductive, NEW s \in Channel, NEW p \in Price, Observe(s, p)
    PROVE  Inductive'
<1>1. <<p, parser>> \in Content
  BY Readable DEF Inductive
<1>2. WorldOK'
  BY <1>1 DEF Observe, Inductive, WorldOK, world
<1>3. PassesOK'
  BY ObservationsAssumption DEF Observe, Inductive, WorldOK, PassesOK, passes
<1>4. UNCHANGED <<stored, reading, row, quoted, rereads, crossed, now, rules, words>>
      /\ rules \in Nat /\ words \in Nat /\ now \in Nat
  BY DEF Observe, Inductive, WorldOK, rereads, world
<1>5. {k \in Passes : hand[k] # None} \subseteq AtWork'
  BY <1>1, ObservationsAssumption DEF Observe, AtWork, Inductive, WorldOK
<1>. QED
  BY <1>2, <1>3, <1>4, <1>5, StillOK, StillReads DEF Inductive

LEMMA ReadCardOK ==
    ASSUME Inductive, NEW s \in Channel, NEW p \in Price, ReadCard(s, p)
    PROVE  Inductive'
<1>1. <<p, 0>> \in Content
  BY Readable DEF Inductive
<1>2. WorldOK'
  BY <1>1 DEF ReadCard, Inductive, WorldOK, world
<1>3. PassesOK'
  BY ObservationsAssumption DEF ReadCard, Inductive, WorldOK, PassesOK, passes
<1>4. UNCHANGED <<stored, reading, row, quoted, rereads, crossed, now, rules, words>>
      /\ rules \in Nat /\ words \in Nat /\ now \in Nat
  BY DEF ReadCard, Inductive, WorldOK, rereads, world
<1>5. {k \in Passes : hand[k] # None} \subseteq AtWork'
  BY <1>1, ObservationsAssumption DEF ReadCard, AtWork, Inductive, WorldOK
<1>. QED
  BY <1>2, <1>3, <1>4, <1>5, StillOK, StillReads DEF Inductive

LEMMA ReparseOK ==
    ASSUME Inductive, NEW s \in Channel, Reparse(s)
    PROVE  Inductive'
<1>1. <<snapshot[s], parser>> \in Content
  BY Readable DEF Reparse, Inductive, WorldOK
<1>2. WorldOK'
  BY <1>1 DEF Reparse, Inductive, WorldOK, world
<1>3. PassesOK'
  BY ObservationsAssumption DEF Reparse, Inductive, WorldOK, PassesOK, passes
<1>4. UNCHANGED <<stored, reading, row, quoted, rereads, crossed, now, rules, words>>
      /\ rules \in Nat /\ words \in Nat /\ now \in Nat
  BY DEF Reparse, Inductive, WorldOK, rereads, world
<1>5. {k \in Passes : hand[k] # None} \subseteq AtWork'
  BY <1>1, ObservationsAssumption DEF Reparse, AtWork, Inductive, WorldOK
<1>. QED
  BY <1>2, <1>3, <1>4, <1>5, StillOK, StillReads DEF Inductive

(* A payload is put down, and nothing is written. *)
LEMMA PutDownOK ==
    ASSUME Inductive, NEW who \in Passes, Done(who, {}), hand' = [hand EXCEPT ![who] = None],
           UNCHANGED <<stored, row, again, rules, words>>
    PROVE  MarksOK' /\ RereadsOK'
<1>1. /\ UNCHANGED <<at, by, name, again, rules, words>> /\ Held' = Held
      /\ rules \in Nat /\ words \in Nat
  BY DEF stored, row, Held, Inductive, WorldOK
<1>2. AtWork \ {who} \subseteq AtWork'
  BY DEF AtWork, Inductive, WorldOK
<1>3. /\ MarksOK'
      /\ \A r \in AtWork : r # who /\ <<r, "name">> \notin behind' => <<r, "name">> \notin behind
  BY <1>1, <1>2, DoneOK
<1>4. ASSUME NEW r \in Reader PROVE OpenOK(r)'
  <2>1. CASE again[r] = None
    BY <2>1 DEF OpenOK
  <2>2. CASE again[r] # None
    <3>1. r \in AtWork /\ r # who
      BY <2>2, ObservationsAssumption DEF AtWork
    <3>2. /\ again'[r] = again[r] /\ Held \subseteq Held' /\ rules' \in Nat /\ rules <= rules'
          /\ words' \in Nat /\ words <= words'
          /\ \A c \in Held : NamesIt(c, at') <=> NamesIt(c, at)
      BY <1>1
    <3>3. <<r, "name">> \notin behind' => <<r, "name">> \notin behind
      BY <1>3, <3>1
    <3>. QED
      BY <2>2, <3>2, <3>3, StaysOpen
  <2>. QED
    BY <2>1, <2>2
<1>. QED
  BY <1>3, <1>4 DEF Inductive, RereadsOK

LEMMA LoseOK ==
    ASSUME Inductive, NEW s \in Channel, NEW k \in Kind, Lose(s, k)
    PROVE  Inductive'
<1>1. WorldOK' /\ PassesOK'
  BY DEF Lose, Inductive, WorldOK, PassesOK, world, passes
<1>2. UNCHANGED <<stored, reading, row, quoted, again, crossed, now, rules, words>>
      /\ rules \in Nat /\ words \in Nat /\ now \in Nat
  BY DEF Lose, Inductive, WorldOK, world
<1>3. MarksOK' /\ RereadsOK'
  BY <1>2, PutDownOK DEF Lose
<1>. QED
  BY <1>1, <1>2, <1>3, StillOK DEF Inductive

LEMMA EndFullOK ==
    ASSUME Inductive, NEW s \in Channel, NEW ok \in BOOLEAN, EndFull(s, ok)
    PROVE  Inductive'
<1>1. WorldOK'
  BY DEF EndFull, Inductive, WorldOK, world
<1>2. PassesOK'
  BY DEF EndFull, Inductive, WorldOK, PassesOK
<1>3. UNCHANGED <<stored, reading, row, quoted, again, crossed, now, rules, words>>
      /\ rules \in Nat /\ words \in Nat /\ now \in Nat
  BY DEF EndFull, Inductive, WorldOK, world
<1>4. <<s, "full">> \in Passes
  BY DEF EndFull, Inductive, PassesOK
<1>5. MarksOK' /\ RereadsOK'
  BY <1>3, <1>4, PutDownOK DEF EndFull
<1>. QED
  BY <1>1, <1>2, <1>3, <1>5, StillOK DEF Inductive

-----------------------------------------------------------------------------
(* Readings. *)

(* What is read names the listing if something in it does. *)
LEMMA NamedIs ==
    ASSUME NEW C \in SUBSET Content, NEW t
    PROVE  IF Named(C, t) = None THEN \A c \in C : ~NamesIt(c, t)
                                 ELSE Named(C, t) \in C /\ NamesIt(Named(C, t), t)
<1>1. CASE \E c \in C : NamesIt(c, t)
  <2>1. Named(C, t) \in C /\ NamesIt(Named(C, t), t)
    BY <1>1 DEF Named
  <2>. QED
    BY <2>1, ObservationsAssumption
<1>. QED
  BY <1>1 DEF Named

(* What was read of observations that are held is committed.               *)
LEMMA AppliedOK ==
    ASSUME Inductive, NEW who, NEW w, Apply(who, w), UNCHANGED <<at, rules, words>>,
           w.obs \subseteq Held, Held # {}, w.price \in Price, w.quote \in Price \union {None},
           w.read \in (0 .. rules) \X (0 .. words),
           IF w.names = None THEN \A c \in w.obs : ~NamesIt(c, at)
                             ELSE w.names \in w.obs /\ Page(w.names),
           \/ who \in Reader /\ <<who, "name">> \in behind
           \/ w.names # None => NamesIt(w.names, at)
    PROVE  RowOK'
<1>1. /\ Held' = Held /\ Held \subseteq Content
      /\ rules \in Nat /\ words \in Nat
  BY DEF Held, Inductive, WorldOK
<1>2. reading' \in [Content -> (0 .. rules') \X (0 .. words')]
  BY <1>1 DEF Apply, Inductive, RowOK
<1>3. /\ price' \in Price \union {None} /\ quoted' \in Price \union {None}
      /\ (price' = None <=> Held' = {}) /\ (quoted' = None <=> Held' = {})
  BY <1>1, ObservationsAssumption DEF Apply, Lands, Inductive, RowOK
<1>4. (name' = None <=> ~ \E c \in Held' : Page(c)) /\ crossed' \in BOOLEAN
      /\ NamedUnlessCrossed'
  <2>1. CASE w.names # None
    <3>1. w.names \in w.obs /\ w.names \in Held /\ Page(w.names)
      BY <2>1
    <3>2. name # None
      BY <3>1 DEF Inductive, RowOK
    <3>3. <<w.names, w.read>> # None
      BY <1>1, <3>1, ObservationsAssumption
    <3>4. name' # None
      BY <2>1, <3>2, <3>3 DEF Apply, Lands
    <3>5. crossed' = \/ name' # <<w.names, w.read>>
                     \/ who \in Reader /\ <<who, "name">> \in behind
      BY <2>1 DEF Apply
    <3>6. ASSUME ~crossed', NEW c \in Held, NamesIt(c, at) PROVE name' = <<c, reading'[c]>>
      <4>1. name' = <<w.names, w.read>> /\ NamesIt(w.names, at)
        BY <2>1, <3>5, <3>6
      <4>2. w.names = c
        BY <3>1, <3>6, <4>1, OneNames DEF Inductive
      <4>3. reading'[w.names] = w.read
        BY <1>1, <3>1 DEF Apply
      <4>. QED
        BY <4>1, <4>2, <4>3
    <3>. QED
      BY <1>1, <3>1, <3>4, <3>5, <3>6 DEF NamedUnlessCrossed, NameIsNewestPage, NamesIt
  <2>2. CASE w.names = None
    <3>1. /\ UNCHANGED <<name, crossed>>
          /\ \A d \in Held : NamesIt(d, at) => reading'[d] = reading[d]
      BY <1>1, <2>2 DEF Apply
    <3>. QED
      BY <1>1, <3>1 DEF Inductive, RowOK, NamedUnlessCrossed, NameIsNewestPage, NamesIt
  <2>. QED
    BY <2>1, <2>2
<1>. QED
  BY <1>2, <1>3, <1>4 DEF RowOK

(* It marks those at work. *)
LEMMA CommittedOK ==
    ASSUME Inductive, NEW who, NEW w, Apply(who, w), UNCHANGED <<rules, words>>,
           AtWork \ {who} \subseteq AtWork', Held \subseteq Held', RowOK',
           again' \in [Reader -> Records \union {None}],
           \A r \in Reader : (again'[r] = again[r] /\ r # who) \/ again'[r] = None,
           \A c \in Held : NamesIt(c, at') => NamesIt(c, at),
           w.names = None => \A c \in Held : NamesIt(c, at) => NamesIt(c, at')
    PROVE  MarksOK' /\ RereadsOK'
<1>. DEFINE columns == Written(w)
<1>1. /\ columns \in SUBSET {"price", "name"} /\ Done(who, columns)
      /\ columns # {} => Held # {}
      /\ "name" \in columns <=> w.names # None /\ name # None
  <2>1. name # None => Held # {}
    BY DEF Inductive, RowOK
  <2>. QED
    BY <2>1 DEF Apply, Written
<1>. HIDE DEF columns
<1>2. name # None => name' # None
  <2>1. name # None => \E c \in Held : Page(c)
    BY DEF Inductive, RowOK
  <2>. QED
    BY <2>1 DEF RowOK
<1>3. /\ MarksOK'
      /\ \A r \in AtWork : r # who /\ <<r, "name">> \notin behind' =>
             <<r, "name">> \notin behind /\ "name" \notin columns
  BY <1>1, <1>2, DoneOK
<1>4. ASSUME NEW r \in Reader PROVE OpenOK(r)'
  <2>1. CASE again'[r] = None
    BY <2>1 DEF OpenOK
  <2>2. CASE again'[r] # None
    <3>1. again'[r] = again[r] /\ r # who /\ r \in AtWork
      BY <2>2 DEF AtWork
    <3>2. <<r, "name">> \notin behind' =>
              /\ <<r, "name">> \notin behind
              /\ \A c \in Held : name # None /\ NamesIt(c, at) => NamesIt(c, at')
      BY <1>1, <1>3, <3>1
    <3>3. rules' \in Nat /\ rules <= rules' /\ words' \in Nat /\ words <= words'
      BY DEF Inductive, WorldOK
    <3>. QED
      BY <2>2, <3>1, <3>2, <3>3, StaysOpen
  <2>. QED
    BY <2>1, <2>2
<1>. QED
  BY <1>3, <1>4 DEF RereadsOK

(* A payload that is new is the newest observation, *)
LEMMA TakenIs ==
    ASSUME Inductive, NEW s, NEW k, NEW c \in Content, TakeNew(s, k, c)
    PROVE  /\ now \in Nat /\ at'[c] = now + 1 /\ Held' = Held \union {c} /\ c \notin Held
           /\ at' \in [Content -> Nat]
           /\ \A d \in Content : d # c => at'[d] = at[d] /\ at[d] \in 0 .. now
           /\ \A d \in Content : at'[d] \in 0 .. now + 1
  BY DEF Inductive, WorldOK, StoredOK, TakeNew, Held

(* names the listing if it is a page, *)
LEMMA TakenNames ==
    ASSUME Inductive, NEW s, NEW k, NEW c \in Content, TakeNew(s, k, c)
    PROVE  /\ Page(c) => NamesIt(c, at') /\ \A d \in Held' : NamesIt(d, at') => d = c
           /\ \A d \in Held : NamesIt(d, at') => NamesIt(d, at)
           /\ ~Page(c) => \A d \in Held : NamesIt(d, at) => NamesIt(d, at')
<1>1. /\ now \in Nat /\ at'[c] = now + 1 /\ Held' = Held \union {c} /\ c \notin Held
      /\ \A d \in Content : d # c => at'[d] = at[d] /\ at[d] \in 0 .. now
      /\ \A d \in Content : at'[d] \in 0 .. now + 1
  BY TakenIs
<1>2. Held \subseteq Content /\ Held' \subseteq Content
  BY <1>1 DEF Held
<1>3. Page(c) => NamesIt(c, at')
  BY <1>1 DEF NamesIt
<1>4. ASSUME Page(c), NEW d \in Held', NamesIt(d, at') PROVE d = c
  <2>1. at'[c] <= at'[d] /\ d \in Content
    BY <1>2, <1>4 DEF NamesIt
  <2>. QED
    BY <1>1, <2>1
<1>5. ASSUME NEW d \in Held, NamesIt(d, at') PROVE NamesIt(d, at)
  <2>1. ~Page(c)
    BY <1>1, <1>4, <1>5
  <2>2. Page(d) /\ d \in Content /\ d # c
    BY <1>1, <1>2, <1>5 DEF NamesIt
  <2>. QED
    BY <1>1, <1>5, <2>1, <2>2 DEF NamesIt
<1>6. ASSUME ~Page(c), NEW d \in Held, NamesIt(d, at) PROVE NamesIt(d, at')
  <2>1. Page(d) /\ d \in Content /\ d # c
    BY <1>1, <1>2, <1>6 DEF NamesIt
  <2>. QED
    BY <1>1, <1>6, <2>1 DEF NamesIt
<1>. QED
  BY <1>3, <1>4, <1>5, <1>6

(* and is committed as such. *)
LEMMA TakenOK ==
    ASSUME Inductive, NEW s \in Channel, NEW k \in Kind, <<s, k>> \in Passes, NEW c \in Content,
           TakeNew(s, k, c), UNCHANGED <<rules, words, again>>, now' = now + 1,
           hand' = [hand EXCEPT ![<<s, k>>] = None]
    PROVE  StoredOK' /\ RowOK' /\ MarksOK' /\ RereadsOK'
<1>. DEFINE w == ReadNow({c}, c, at', c[1])
            who == <<s, k>>
<1>1. /\ now \in Nat /\ at'[c] = now + 1 /\ Held' = Held \union {c} /\ c \notin Held
      /\ \A d \in Content : d # c => at'[d] = at[d] /\ at[d] \in 0 .. now
      /\ \A d \in Content : at'[d] \in 0 .. now + 1
  BY TakenIs
<1>2. StoredOK'
  <2>1. at' \in [Content -> 0 .. now']
    BY <1>1 DEF TakeNew, Inductive, StoredOK
  <2>2. by' \in [Content -> Channel \union {None}] /\ \A d \in Held' : by'[d] \in Channel
    BY <1>1 DEF TakeNew, Inductive, StoredOK, Held
  <2>3. \A d, e \in Held' : at'[d] = at'[e] => d = e
    <3>1. Held \subseteq Content
      BY DEF Held
    <3>. QED
      BY <1>1, <3>1 DEF Inductive, StoredOK
  <2>. QED
    BY <2>1, <2>2, <2>3 DEF StoredOK
<1>3. /\ w.obs = {c} /\ w.price = c[1] /\ w.read = <<rules, words>> /\ w.quote = c[1]
      /\ w.names = IF NamesIt(c, at') THEN c ELSE None
  BY DEF ReadNow, Named
<1>4. Apply(who, w) /\ c[1] \in Price /\ rules \in Nat /\ words \in Nat /\ c # None
  BY ObservationsAssumption DEF TakeNew, Content, Inductive, WorldOK
<1>5. /\ Page(c) => NamesIt(c, at') /\ \A d \in Held' : NamesIt(d, at') => d = c
      /\ \A d \in Held : NamesIt(d, at') => NamesIt(d, at)
      /\ ~Page(c) => \A d \in Held : NamesIt(d, at) => NamesIt(d, at')
  BY TakenNames
<1>6. w.names = IF Page(c) THEN c ELSE None
  BY <1>3, <1>5 DEF NamesIt
<1>. HIDE DEF w, who
<1>7. reading' \in [Content -> (0 .. rules') \X (0 .. words')] /\ reading'[c] = <<rules, words>>
      /\ \A d \in Content : d # c => reading'[d] = reading[d]
  BY <1>3, <1>4 DEF Apply, Inductive, RowOK
<1>8. /\ price' \in Price \union {None} /\ quoted' \in Price \union {None}
      /\ (price' = None <=> Held' = {}) /\ (quoted' = None <=> Held' = {})
  <2>1. <<who, "price">> \in behind => price \in Price /\ quoted \in Price
    BY DEF Inductive, MarksOK, RowOK
  <2>. QED
    BY <1>1, <1>3, <1>4, <2>1, ObservationsAssumption DEF Apply, Lands
<1>9. (name' = None <=> ~ \E d \in Held' : Page(d)) /\ crossed' \in BOOLEAN
      /\ NamedUnlessCrossed'
  <2>1. CASE Page(c)
    <3>1. w.names = c /\ <<c, w.read>> # None
      BY <1>3, <1>6, <2>1, <1>4, ObservationsAssumption
    <3>2. <<who, "name">> \in behind => name # None
      BY DEF Inductive, MarksOK
    <3>3. name' # None /\ crossed' \in BOOLEAN /\ (~crossed' => name' = <<c, w.read>>)
      BY <1>4, <3>1, <3>2 DEF Apply, Lands
    <3>. QED
      BY <1>1, <1>3, <1>5, <1>7, <2>1, <3>3 DEF NamedUnlessCrossed, NameIsNewestPage
  <2>2. CASE ~Page(c)
    <3>1. UNCHANGED <<name, crossed>>
      BY <1>4, <1>6, <2>2 DEF Apply
    <3>2. ASSUME NEW d \in Held', NamesIt(d, at')
          PROVE  d \in Held /\ NamesIt(d, at) /\ reading'[d] = reading[d]
      BY <1>1, <1>5, <1>7, <2>2, <3>2 DEF NamesIt, Held
    <3>. QED
      BY <1>1, <2>2, <3>1, <3>2 DEF Inductive, RowOK, NamedUnlessCrossed, NameIsNewestPage
  <2>. QED
    BY <2>1, <2>2
<1>10. RowOK'
  BY <1>7, <1>8, <1>9 DEF RowOK
<1>11. AtWork \ {who} \subseteq AtWork'
  BY DEF AtWork, who, Inductive, WorldOK
<1>12. /\ again' \in [Reader -> Records \union {None}]
       /\ \A r \in Reader : again'[r] = again[r] /\ r # who
  BY ObservationsAssumption DEF who, Inductive, RereadsOK
<1>13. w.names = None => \A d \in Held : NamesIt(d, at) => NamesIt(d, at')
  BY <1>4, <1>5, <1>6
<1>14. MarksOK' /\ RereadsOK'
  BY <1>1, <1>4, <1>5, <1>10, <1>11, <1>12, <1>13, CommittedOK
<1>. QED
  BY <1>2, <1>10, <1>14

(* What is read again with a payload that is stored is held, *)
LEMMA AgainHeld ==
    ASSUME Inductive, NEW k, NEW c \in Held
    PROVE  AgainNow(k, c) \subseteq Held
<1>1. Newest(Held, at) \in Held
  BY NewestIs DEF Inductive
<1>. QED
  BY <1>1 DEF AgainNow

(* and so is what matters of some that are held. *)
LEMMA MatterHeld ==
    ASSUME Inductive, NEW H \in SUBSET Held, H # {}
    PROVE  Matter(H) \subseteq Held /\ Newest(H, at) \in Held
<1>1. Newest(H, at) \in H
  BY NewestIs DEF Inductive
<1>2. ASSUME \E c \in H : Page(c) PROVE Newest({c \in H : Page(c)}, at) \in Held
  <2>. DEFINE pages == {c \in H : Page(c)}
  <2>1. pages \in SUBSET Held /\ pages # {}
    BY <1>2
  <2>. HIDE DEF pages
  <2>2. Newest(pages, at) \in pages
    BY <2>1, NewestIs DEF Inductive
  <2>. QED
    BY <2>1, <2>2 DEF pages
<1>. QED
  BY <1>1, <1>2 DEF Matter

LEMMA TakenKnownOK ==
    ASSUME Inductive, NEW s \in Channel, NEW k \in Kind, <<s, k>> \in Passes, NEW c \in Content,
           TakeKnown(s, k, c), UNCHANGED <<rules, words, again>>, now' = now + 1,
           hand' = [hand EXCEPT ![<<s, k>>] = None]
    PROVE  StoredOK' /\ RowOK' /\ MarksOK' /\ RereadsOK'
<1>1. c \in Held /\ UNCHANGED <<at, by>> /\ now \in Nat /\ Held' = Held
      /\ rules \in Nat /\ words \in Nat
  BY DEF TakeKnown, Held, stored, Inductive, WorldOK
<1>2. StoredOK'
  BY <1>1 DEF Inductive, StoredOK, Held
<1>3. CASE AgainNow(k, c) = {}
  <2>1. Done(<<s, k>>, {}) /\ UNCHANGED <<stored, reading, row, quoted, crossed>>
    BY <1>3 DEF TakeKnown
  <2>2. StoredOK' /\ RowOK'
    BY <1>1, <2>1, StillOK
  <2>3. MarksOK' /\ RereadsOK'
    BY <2>1, PutDownOK
  <2>. QED
    BY <2>2, <2>3
<1>4. CASE AgainNow(k, c) # {}
  <2>. DEFINE w == ReadNow(AgainNow(k, c), c, at, None)
              who == <<s, k>>
  <2>1. AgainNow(k, c) \in SUBSET Held /\ Held \subseteq Content
    BY <1>1, AgainHeld DEF Held
  <2>2. Apply(who, w)
    BY <1>4 DEF TakeKnown
  <2>3. /\ w.obs = AgainNow(k, c) /\ w.price = c[1] /\ w.read = <<rules, words>>
        /\ w.quote = None
        /\ IF w.names = None THEN \A d \in w.obs : ~NamesIt(d, at)
                             ELSE w.names \in w.obs /\ NamesIt(w.names, at)
    BY <2>1, NamedIs DEF ReadNow
  <2>4. c[1] \in Price /\ w.read \in (0 .. rules) \X (0 .. words)
    BY <1>1, <2>3 DEF Content
  <2>. HIDE DEF w, who
  <2>5. RowOK'
    BY <1>1, <2>1, <2>2, <2>3, <2>4, AppliedOK DEF NamesIt
  <2>6. AtWork \ {who} \subseteq AtWork'
    BY DEF AtWork, who, Inductive, WorldOK
  <2>7. /\ again' \in [Reader -> Records \union {None}]
        /\ \A r \in Reader : again'[r] = again[r] /\ r # who
    BY ObservationsAssumption DEF who, Inductive, RereadsOK
  <2>8. \A d \in Held : NamesIt(d, at') <=> NamesIt(d, at)
    BY <1>1
  <2>9. MarksOK' /\ RereadsOK'
    BY <1>1, <2>2, <2>5, <2>6, <2>7, <2>8, CommittedOK
  <2>. QED
    BY <1>2, <2>5, <2>9
<1>. QED
  BY <1>3, <1>4

LEMMA HandOverOK ==
    ASSUME Inductive, NEW s \in Channel, NEW k \in Kind, HandOver(s, k)
    PROVE  Inductive'
<1>. DEFINE c == hand[<<s, k>>]
<1>1. /\ c \in Content /\ now' = now + 1 /\ now \in Nat /\ now < MaxNow /\ <<s, k>> \in Passes
      /\ UNCHANGED <<parser, rules, words, snapshot, again>>
      /\ TakeNew(s, k, c) \/ TakeKnown(s, k, c)
      /\ hand' = [hand EXCEPT ![<<s, k>>] = None]
  BY DEF HandOver, Inductive, WorldOK, world
<1>2. WorldOK'
  BY <1>1, ObservationsAssumption DEF Inductive, WorldOK
<1>3. PassesOK'
  BY <1>1 DEF HandOver, Inductive, PassesOK
<1>4. StoredOK' /\ RowOK' /\ MarksOK' /\ RereadsOK'
  <2>. HIDE DEF c
  <2>. QED
    BY <1>1, TakenOK, TakenKnownOK
<1>. QED
  BY <1>2, <1>3, <1>4 DEF Inductive

-----------------------------------------------------------------------------
(* Re-reads. *)

(* A re-read that has read what is held is under way. *)
LEMMA ReadsOK ==
    ASSUME Inductive, NEW r \in Reader, NEW w \in Records, Reads(r, w),
           w.obs \subseteq Held, Held # {}, w.read = <<rules, words>>,
           IF w.names = None THEN \A c \in w.obs : ~NamesIt(c, at)
                             ELSE w.names \in w.obs /\ NamesIt(w.names, at),
           w.renames => w.names # None
    PROVE  Inductive'
<1>1. UNCHANGED <<parser, rules, words, snapshot, hand, now, at, by, reading, price, name,
                  lastSeen, quoted, pass, seen, passed, brought, behind, crossed>>
      /\ again' = [again EXCEPT ![r] = w] /\ Held' = Held
      /\ rules \in Nat /\ words \in Nat /\ now \in Nat
  BY DEF Reads, world, stored, row, passes, Held, Inductive, WorldOK
<1>2. WorldOK' /\ PassesOK'
  BY <1>1 DEF Inductive, WorldOK, PassesOK
<1>3. StoredOK' /\ RowOK'
  BY <1>1, StillOK DEF stored, row
<1>4. MarksOK'
  <2>1. AtWork \subseteq AtWork'
    BY <1>1 DEF AtWork, Reads, Inductive, RereadsOK
  <2>. QED
    BY <1>1, <2>1 DEF Inductive, MarksOK
<1>5. again' \in [Reader -> Records \union {None}]
  BY <1>1 DEF Inductive, RereadsOK
<1>6. ASSUME NEW q \in Reader PROVE OpenOK(q)'
  <2>1. CASE q = r
    <3>1. again'[q] = w
      BY <1>1, <2>1 DEF Inductive, RereadsOK
    <3>2. /\ w.price \in Price /\ w.quote \in Price \union {None} /\ w.renames \in BOOLEAN
          /\ w.read \in (0 .. rules) \X (0 .. words)
      BY <1>1 DEF Records
    <3>. QED
      BY <1>1, <3>1, <3>2 DEF OpenOK, NamesIt
  <2>2. CASE q # r
    <3>1. again'[q] = again[q]
      BY <1>1, <2>2 DEF Inductive, RereadsOK
    <3>. QED
      BY <1>1, <3>1, StaysOpen DEF OpenOK
  <2>. QED
    BY <2>1, <2>2
<1>. QED
  BY <1>2, <1>3, <1>4, <1>5, <1>6 DEF Inductive, RereadsOK

LEMMA RenormalizeOK ==
    ASSUME Inductive, NEW r \in Reader, NEW c \in Content, Renormalize(r, c)
    PROVE  Inductive'
<1>. DEFINE q == IF quoted = c[1] THEN None ELSE c[1]
            C == {c}
            w == ReadNow(C, c, at, q)
<1>1. C \in SUBSET Held /\ Held # {} /\ Reads(r, w)
  BY DEF Renormalize, Held
<1>2. /\ C \in SUBSET Content /\ c[1] \in Price /\ rules \in Nat /\ words \in Nat
      /\ q \in Price \union {None}
  BY DEF Content, Inductive, WorldOK
<1>. HIDE DEF q, C
<1>3. w = [obs |-> C, price |-> c[1], names |-> Named(C, at), read |-> <<rules, words>>,
           quote |-> q, renames |-> FALSE]
  BY DEF ReadNow
<1>4. IF Named(C, at) = None THEN \A d \in C : ~NamesIt(d, at)
                             ELSE Named(C, at) \in C /\ NamesIt(Named(C, at), at)
  BY <1>2, NamedIs
<1>. HIDE DEF w
<1>5. w \in Records
  BY <1>2, <1>3, <1>4 DEF Records
<1>. QED
  BY <1>1, <1>3, <1>4, <1>5, ReadsOK

(* What matters of some that are held is read. *)
LEMMA RereadOK ==
    ASSUME Inductive, NEW r \in Reader, NEW H \in SUBSET Held, H # {}, NEW b \in BOOLEAN, NEW w,
           w = [obs |-> Matter(H), price |-> Newest(H, at)[1], names |-> Named(Matter(H), at),
                read |-> <<rules, words>>, quote |-> None, renames |-> b],
           Reads(r, w), b => \E c \in Matter(H) : NamesIt(c, at)
    PROVE  Inductive'
<1>1. /\ Matter(H) \in SUBSET Held /\ Newest(H, at) \in Held /\ Held \subseteq Content
      /\ rules \in Nat /\ words \in Nat
  BY MatterHeld DEF Held, Inductive, WorldOK
<1>2. Newest(H, at)[1] \in Price
  BY <1>1 DEF Content
<1>3. IF Named(Matter(H), at) = None
      THEN \A c \in Matter(H) : ~NamesIt(c, at)
      ELSE Named(Matter(H), at) \in Matter(H) /\ NamesIt(Named(Matter(H), at), at)
  BY <1>1, NamedIs
<1>4. w \in Records
  BY <1>1, <1>2, <1>3 DEF Records
<1>. QED
  BY <1>1, <1>3, <1>4, ReadsOK

(* What matters of all that is held names a listing that has a name. *)
LEMMA MatterNames ==
    ASSUME Inductive, name # None
    PROVE  \E c \in Matter(Held) : NamesIt(c, at)
<1>. DEFINE pages == {c \in Held : Page(c)}
            c == Newest(pages, at)
<1>1. pages \in SUBSET Held /\ pages # {}
  BY DEF Inductive, RowOK
<1>2. c \in pages /\ \A d \in pages : at[d] <= at[c]
  <2>. HIDE DEF pages
  <2>. QED
    BY <1>1, NewestIs DEF Inductive
<1>3. NamesIt(c, at)
  <2>1. \A d \in Content : at[d] \in Nat /\ (d \notin Held => at[d] = 0)
    BY DEF Inductive, StoredOK, Held
  <2>2. c \in Content
    BY <1>2 DEF Held
  <2>. HIDE DEF c
  <2>. QED
    BY <1>2, <2>1, <2>2 DEF NamesIt
<1>4. c \in Matter(Held)
  BY <1>1 DEF Matter
<1>. QED
  BY <1>3, <1>4

LEMMA RereadBrandOK ==
    ASSUME Inductive, NEW r \in Reader, RereadBrand(r)
    PROVE  Inductive'
<1>. DEFINE b == name # None
            w == [Reread(Held) EXCEPT !.renames = b]
<1>1. Held # {} /\ Reads(r, w)
  BY DEF RereadBrand
<1>2. b \in BOOLEAN /\ (b => \E c \in Matter(Held) : NamesIt(c, at))
  BY MatterNames
<1>. HIDE DEF b
<1>3. w = [obs |-> Matter(Held), price |-> Newest(Held, at)[1], names |-> Named(Matter(Held), at),
           read |-> <<rules, words>>, quote |-> None, renames |-> b]
  BY DEF Reread, ReadNow
<1>. HIDE DEF w
<1>. QED
  BY <1>1, <1>2, <1>3, RereadOK

LEMMA RereadSourceOK ==
    ASSUME Inductive, NEW r \in Reader, NEW s \in Channel, RereadSource(r, s)
    PROVE  Inductive'
<1>. DEFINE H == {c \in Held : by[c] = s}
<1>1. H \in SUBSET Held /\ H # {} /\ Reads(r, Reread(H))
  BY DEF RereadSource
<1>. HIDE DEF H
<1>2. Reread(H) = [obs |-> Matter(H), price |-> Newest(H, at)[1], names |-> Named(Matter(H), at),
                   read |-> <<rules, words>>, quote |-> None, renames |-> FALSE]
  BY DEF Reread, ReadNow
<1>. QED
  BY <1>1, <1>2, RereadOK

LEMMA WriteBackOK ==
    ASSUME Inductive, NEW r \in Reader, WriteBack(r)
    PROVE  Inductive'
<1>. DEFINE w == again[r]
<1>1. /\ UNCHANGED <<parser, rules, words, snapshot, hand, now, at, by, lastSeen,
                     pass, seen, passed, brought>>
      /\ Held' = Held /\ Apply(r, w) /\ again' = [again EXCEPT ![r] = None]
      /\ OpenOK(r) /\ w # None
  BY DEF WriteBack, world, stored, passes, Held, Inductive, RereadsOK
<1>2. WorldOK' /\ PassesOK' /\ StoredOK'
  BY <1>1 DEF Inductive, WorldOK, PassesOK, StoredOK
<1>3. /\ w.obs \subseteq Held /\ Held # {} /\ w.price \in Price /\ w.quote \in Price \union {None}
      /\ w.read \in (0 .. rules) \X (0 .. words)
      /\ IF w.names = None THEN \A c \in w.obs : ~NamesIt(c, at)
                           ELSE w.names \in w.obs /\ Page(w.names)
      /\ \/ r \in Reader /\ <<r, "name">> \in behind
         \/ w.names # None => NamesIt(w.names, at)
  BY <1>1 DEF OpenOK
<1>4. AtWork \ {r} \subseteq AtWork'
  BY <1>1 DEF AtWork, Inductive, RereadsOK
<1>5. /\ again' \in [Reader -> Records \union {None}]
      /\ \A q \in Reader : (again'[q] = again[q] /\ q # r) \/ again'[q] = None
  BY <1>1 DEF Inductive, RereadsOK
<1>. HIDE DEF w
<1>6. RowOK'
  BY <1>1, <1>3, AppliedOK
<1>7. MarksOK' /\ RereadsOK'
  BY <1>1, <1>4, <1>5, <1>6, CommittedOK
<1>. QED
  BY <1>2, <1>6, <1>7 DEF Inductive

LEMMA GiveUpOK ==
    ASSUME Inductive, NEW r \in Reader, GiveUp(r)
    PROVE  Inductive'
<1>1. UNCHANGED <<parser, rules, words, snapshot, hand, now, at, by, reading, price, name,
                  lastSeen, quoted, pass, seen, passed, brought, crossed>>
      /\ again' = [again EXCEPT ![r] = None] /\ Done(r, {}) /\ Held' = Held
      /\ rules \in Nat /\ words \in Nat /\ now \in Nat
  BY DEF GiveUp, world, stored, row, passes, Held, Inductive, WorldOK
<1>2. WorldOK' /\ PassesOK'
  BY <1>1 DEF Inductive, WorldOK, PassesOK
<1>3. StoredOK' /\ RowOK'
  BY <1>1, StillOK DEF stored, row
<1>4. AtWork \ {r} \subseteq AtWork'
  BY <1>1 DEF AtWork, Inductive, RereadsOK
<1>5. /\ MarksOK'
      /\ \A q \in AtWork : q # r /\ <<q, "name">> \notin behind' => <<q, "name">> \notin behind
  BY <1>1, <1>4, DoneOK
<1>6. again' \in [Reader -> Records \union {None}]
  BY <1>1 DEF Inductive, RereadsOK
<1>7. ASSUME NEW q \in Reader PROVE OpenOK(q)'
  <2>1. CASE again'[q] = None
    BY <2>1 DEF OpenOK
  <2>2. CASE again'[q] # None
    <3>1. q # r /\ again'[q] = again[q] /\ q \in AtWork
      BY <1>1, <2>2 DEF AtWork, Inductive, RereadsOK
    <3>2. /\ Held \subseteq Held' /\ rules' \in Nat /\ rules <= rules'
          /\ words' \in Nat /\ words <= words'
          /\ \A c \in Held : NamesIt(c, at') <=> NamesIt(c, at)
      BY <1>1
    <3>3. <<q, "name">> \notin behind' => <<q, "name">> \notin behind
      BY <1>5, <3>1
    <3>. QED
      BY <2>2, <3>1, <3>2, <3>3, StaysOpen
  <2>. QED
    BY <2>1, <2>2
<1>. QED
  BY <1>2, <1>3, <1>5, <1>6, <1>7 DEF Inductive, RereadsOK

-----------------------------------------------------------------------------
LEMMA InitOK == Init => Inductive
<1>. SUFFICES ASSUME Init PROVE Inductive
  OBVIOUS
<1>1. WorldOK /\ StoredOK /\ PassesOK /\ MarksOK
  BY ObservationsAssumption DEF Init, WorldOK, StoredOK, PassesOK, MarksOK, Held
<1>2. RowOK
  <2>1. Held = {} /\ rules = 1 /\ words = 0
    BY DEF Init, Held
  <2>2. reading \in [Content -> (0 .. rules) \X (0 .. words)]
    BY <2>1 DEF Init
  <2>. QED
    BY <2>1, <2>2 DEF Init, RowOK, NamedUnlessCrossed, NameIsNewestPage
<1>3. RereadsOK
  BY DEF Init, RereadsOK, OpenOK
<1>. QED
  BY <1>1, <1>2, <1>3 DEF Inductive

LEMMA StepOK == Inductive /\ [Next]_vars => Inductive'
<1>. SUFFICES ASSUME Inductive, [Next]_vars PROVE Inductive'
  OBVIOUS
<1>1. CASE UNCHANGED vars
  <2>1. UNCHANGED <<parser, rules, words, snapshot, hand, now, at, by, reading, price,
                    name, lastSeen, quoted, pass, seen, passed, brought, again, behind, crossed>>
    BY <1>1 DEF vars, world, stored, row, passes, rereads
  <2>2. WorldOK' /\ PassesOK'
    BY <2>1 DEF Inductive, WorldOK, PassesOK
  <2>3. {k \in Passes : hand[k] # None} \subseteq AtWork'
    BY <2>1 DEF AtWork
  <2>4. rules \in Nat /\ words \in Nat /\ now \in Nat
    BY DEF Inductive, WorldOK
  <2>. QED
    BY <2>1, <2>2, <2>3, <2>4, StillOK, StillReads DEF Inductive, stored, row, rereads
<1>2. CASE Deploy \/ Register
  BY <1>2, DeployOK, RegisterOK
<1>3. ASSUME NEW s \in Channel,
             \/ StartFull(s) \/ Reparse(s)
             \/ \E p \in Price : Observe(s, p) \/ ReadCard(s, p)
             \/ \E ok \in BOOLEAN : EndFull(s, ok)
             \/ \E k \in Kind : HandOver(s, k) \/ Lose(s, k)
      PROVE  Inductive'
  BY <1>3, StartFullOK, ObserveOK, ReadCardOK, ReparseOK, EndFullOK, HandOverOK, LoseOK
<1>4. ASSUME NEW r \in Reader,
             \/ \E c \in Content : Renormalize(r, c)
             \/ RereadBrand(r) \/ \E s \in Channel : RereadSource(r, s)
             \/ WriteBack(r) \/ GiveUp(r)
      PROVE  Inductive'
  BY <1>4, RenormalizeOK, RereadBrandOK, RereadSourceOK, WriteBackOK, GiveUpOK
<1>. QED
  BY <1>1, <1>2, <1>3, <1>4 DEF Next

LEMMA Always == Spec => []Inductive
  BY InitOK, StepOK, PTL DEF Spec

(* The types, with what belongs together on one row.                       *)
THEOREM ObservationsTypes == Spec => []TypeOK
<1>1. ASSUME Inductive PROVE TypeOK
  <2>. DEFINE R == [obs : SUBSET Held, price : Price, names : Held \union {None},
                    read : (0 .. rules) \X (0 .. words), quote : Price \union {None},
                    renames : BOOLEAN]
  <2>1. ASSUME NEW r \in Reader PROVE again[r] \in {None} \union R
    <3>1. CASE again[r] = None
      BY <3>1
    <3>2. CASE again[r] # None
      <4>1. again[r] \in Records /\ OpenOK(r)
        BY <1>1, <3>2 DEF Inductive, RereadsOK
      <4>. QED
        BY <3>2, <4>1 DEF OpenOK, Records
    <3>. QED
      BY <3>1, <3>2
  <2>. HIDE DEF R
  <2>2. again \in [Reader -> {None} \union R]
    BY <1>1, <2>1 DEF Inductive, RereadsOK
  <2>3. behind \subseteq AtWork \X {"price", "name"} /\ crossed \in BOOLEAN
    BY <1>1 DEF Inductive, MarksOK, RowOK
  <2>. QED
    BY <1>1, <2>2, <2>3 DEF R, Inductive, WorldOK, StoredOK, RowOK, PassesOK, TypeOK
<1>. QED
  BY <1>1, Always, PTL

(* A listing is called what its newest page says, by that page's current   *)
(* reading, unless the last to name it was crossed in that.                *)
THEOREM NamedByNewest == Spec => []NamedUnlessCrossed
<1>1. Inductive => NamedUnlessCrossed
  BY DEF Inductive, RowOK
<1>. QED
  BY <1>1, Always, PTL

(* What every channel's newest good pass brought counts as on sale.        *)
THEOREM BroughtIsListed == Spec => []SeenIsListed
<1>1. Inductive => SeenIsListed
  <2>. SUFFICES ASSUME Inductive, \A s \in Channel : passed[s] > 0 => brought[s],
                       NEW c \in Held
                PROVE  passed[by[c]] <= lastSeen
    BY DEF SeenIsListed, Listed
  <2>1. by[c] \in Channel /\ lastSeen \in Nat /\ passed[by[c]] \in Nat
    BY DEF Inductive, StoredOK, PassesOK
  <2>. QED
    BY <2>1 DEF Inductive, PassesOK
<1>. QED
  BY <1>1, Always, PTL

(* A re-read of a maker's listing in whose time nobody else named it       *)
(* leaves the name under the rules and the words it read by.               *)
THEOREM RereadRenames == Spec => RereadReachesTheName
<1>1. ASSUME Inductive, NEW r \in Reader, WriteBack(r), again[r].renames,
             <<r, "name">> \notin behind
      PROVE  name'[2] = again[r].read
  <2>1. OpenOK(r) /\ again[r] # None /\ Apply(r, again[r])
    BY <1>1 DEF Inductive, RereadsOK, WriteBack
  <2>2. again[r].names # None
    BY <1>1, <2>1 DEF OpenOK
  <2>. QED
    BY <1>1, <2>1, <2>2 DEF Apply, Lands
<1>2. Inductive => \A r \in Reader :
          WriteBack(r) /\ again[r].renames /\ <<r, "name">> \notin behind =>
              name'[2] = again[r].read
  BY <1>1
<1>. QED
  BY <1>2, Always, PTL DEF Spec, RereadReachesTheName

(* A reparse leaves the newest observation read with the rules and the     *)
(* words of the moment.                                                    *)
THEOREM ReparseRereads == Spec => ReparseReachesNewest
<1>1. ASSUME Inductive, NEW s \in Channel, HandOver(s, "reparse")
      PROVE  reading'[Newest(Held', at')] = <<rules, words>>
  <2>. DEFINE c == hand[<<s, "reparse">>]
  <2>1. c \in Content /\ (TakeNew(s, "reparse", c) \/ TakeKnown(s, "reparse", c))
    BY <1>1 DEF HandOver, Inductive, WorldOK
  <2>. HIDE DEF c
  <2>2. CASE TakeNew(s, "reparse", c)
    <3>1. /\ now \in Nat /\ at'[c] = now + 1 /\ c \in Held' /\ Held' \subseteq Content
          /\ \A d \in Content : d # c => at'[d] \in 0 .. now
      BY <1>1, <2>1, <2>2, TakenIs DEF Held
    <3>2. \A d \in Held' : (\A e \in Held' : at'[e] <= at'[d]) <=> d = c
      BY <3>1
    <3>3. Newest(Held', at') = c
      BY <3>1, <3>2 DEF Newest
    <3>. QED
      BY <2>1, <2>2, <3>3 DEF TakeNew, Apply, ReadNow
  <2>3. CASE TakeKnown(s, "reparse", c)
    <3>1. c \in Held /\ UNCHANGED at
      BY <2>1, <2>3 DEF TakeKnown, Held, stored
    <3>2. Newest(Held, at) \in Held /\ Held \subseteq Content
      BY <1>1, <3>1, NewestIs DEF Inductive, Held
    <3>3. AgainNow("reparse", c) = {c, Newest(Held, at)}
      BY DEF AgainNow
    <3>4. reading'[Newest(Held, at)] = <<rules, words>>
      BY <2>3, <3>2, <3>3 DEF TakeKnown, Apply, ReadNow
    <3>5. Newest(Held', at') = Newest(Held, at)
      BY <3>1 DEF Held, Newest
    <3>. QED
      BY <3>4, <3>5
  <2>. QED
    BY <2>1, <2>2, <2>3
<1>2. Inductive => \A s \in Channel : HandOver(s, "reparse") =>
                        reading'[Newest(Held', at')] = <<rules, words>>
  BY <1>1
<1>. QED
  BY <1>2, Always, PTL DEF Spec, ReparseReachesNewest
=============================================================================
