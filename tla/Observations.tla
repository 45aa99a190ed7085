---------------------------- MODULE Observations ----------------------------
(***************************************************************************)
(* One listing of a shop, from what its channels serve to the row a card   *)
(* shows: the observations kept of it (one per distinct payload), the      *)
(* reading of each, the price and name copied onto the offer, the price    *)
(* series, and whether the listing counts as on sale.                      *)
(*                                                                         *)
(* A pass of a channel is full (it opens the page), quick (it reads the    *)
(* card in the list) or a reparse (it parses the last page kept on disk).  *)
(* A worker reads first and hands over later, so what it hands over may be *)
(* older than what another pass handed over in between.  A batch locks the *)
(* offer's row when it writes last_seen_at, before it decides anything,    *)
(* and stamps what it brings just before: batches with the listing come    *)
(* one after another, and taking it in is one action, its commit.          *)
(*                                                                         *)
(* A re-read locks nothing: it decides what names the listing by what has  *)
(* been committed and writes later, after whatever batch holds the row.    *)
(* Either loads the row at its start and writes the columns it would       *)
(* change of what it loaded, so one that another commit crossed may leave  *)
(* a column as that commit left it.                                        *)
(*                                                                         *)
(* The price a payload says does not depend on the rules it is read by,    *)
(* and a reading is stored whole.                                          *)
(***************************************************************************)
EXTENDS Naturals

CONSTANTS Channel,    \* the channels of the shop that carry the listing
          Price,      \* the prices the shop may ask
          None,       \* no price, name, page or payload
          Passes,     \* the kinds of pass a channel has, as <<channel, kind>>
          Reader,     \* the re-reads that may run side by side
          MaxChanges, \* bound: changes to parsers, rules and registry
          MaxNow      \* bound: stamps given out

Kind == {"full", "quick", "reparse"}

(* A payload, up to its hash: a price, and what wrote it down: 0 is the    *)
(* card in a list, any other number a version of the parser of pages.      *)
Content == Price \X (0 .. MaxChanges + 1)

ASSUME ObservationsAssumption ==
    /\ None \notin Price \union Content /\ None \notin Content \X (Nat \X Nat)
    /\ Passes \subseteq Channel \X Kind /\ Reader \intersect Passes = {}
    /\ MaxChanges \in Nat /\ MaxNow \in Nat

VARIABLES
    snapshot, \* the price on the last page a channel kept on disk
    hand,     \* the payload a pass has read and not handed over yet
    now,      \* the last stamp given out
    parser,   \* the version of the parsers that is deployed
    rules,    \* the version of the ruleset that is deployed
    words,    \* changes to the registry so far
    at,       \* fetched_at of an observation, 0 when there is none
    by,       \* the channel it is filed under
    reading,  \* the rules and the words it was last read with
    price,    \* offer.price
    name,     \* offer.title: the observation it is from, and its reading
    lastSeen, \* offer.last_seen_at
    quoted,   \* the newest row of the price series
    pass,     \* started_at of a channel's full pass under way, 0 for none
    seen,     \* whether that pass brought the listing
    passed,   \* started_at of its newest full pass that ended ok, 0 for none
    brought,  \* whether that one brought the listing
    again,    \* what a re-read under way has decided to write
    behind,   \* who may have loaded a column before another wrote it
    crossed   \* whether the last to name the listing was crossed in that

world   == <<parser, rules, words>>
stored  == <<at, by>>
row     == <<price, name>>
passes  == <<pass, seen, passed, brought>>
rereads == <<again, behind, crossed>>
vars    == <<world, snapshot, hand, now, stored, reading, row, lastSeen, quoted, passes,
             rereads>>

Init == /\ snapshot = [s \in Channel |-> None]
        /\ hand = [k \in Passes |-> None]
        /\ now = 0 /\ parser = 1 /\ rules = 1 /\ words = 0
        /\ at = [c \in Content |-> 0] /\ by = [c \in Content |-> None]
        /\ reading = [c \in Content |-> <<0, 0>>]
        /\ price = None /\ name = None /\ lastSeen = 0 /\ quoted = None
        /\ pass = [s \in Channel |-> 0] /\ seen = [s \in Channel |-> FALSE]
        /\ passed = [s \in Channel |-> 0] /\ brought = [s \in Channel |-> FALSE]
        /\ again = [r \in Reader |-> None] /\ behind = {} /\ crossed = FALSE

Held == {c \in Content : at[c] > 0}

Page(c) == c[2] > 0

(* The newest observation of C by the stamps t. *)
Newest(C, t) == CHOOSE c \in C : \A d \in C : t[d] <= t[c]

(* _is_newest: whether c is the newest observation that is not a card.     *)
NamesIt(c, t) == Page(c) /\ \A d \in Content : Page(d) => t[d] <= t[c]

(* Who has the listing in work. *)
AtWork == {k \in Passes : hand[k] # None} \union {r \in Reader : again[r] # None}

(* Who is through with the listing; the others at work may have loaded the *)
(* columns that it wrote.                                                  *)
Done(who, columns) ==
    behind' = (behind \union AtWork \X columns) \ ({who} \X {"price", "name"})

-----------------------------------------------------------------------------
(* The developers and the people who keep the registry. *)

MayChange == parser + rules + words < MaxChanges + 2

Deploy == /\ MayChange
          /\ \/ parser' = parser + 1 /\ UNCHANGED rules
             \/ rules' = rules + 1 /\ UNCHANGED parser
          /\ UNCHANGED <<words, snapshot, hand, now, stored, reading, row, lastSeen,
                         quoted, passes, rereads>>

Register == /\ MayChange /\ words' = words + 1
            /\ UNCHANGED <<parser, rules, snapshot, hand, now, stored, reading, row,
                           lastSeen, quoted, passes, rereads>>

-----------------------------------------------------------------------------
(* The passes read.  Whether the shop shows the listing, and at what       *)
(* price, is its own affair at each look.                                  *)

StartFull(s) ==
    /\ <<s, "full">> \in Passes /\ pass[s] = 0 /\ now < MaxNow
    /\ now' = now + 1
    /\ pass' = [pass EXCEPT ![s] = now + 1]
    /\ seen' = [seen EXCEPT ![s] = FALSE]
    /\ UNCHANGED <<world, snapshot, hand, stored, reading, row, lastSeen, quoted, passed, brought, rereads>>

(* The page is fetched, parsed and kept on disk. *)
Observe(s, p) ==
    /\ pass[s] > 0 /\ ~seen[s]
    /\ hand[<<s, "full">>] = None
    /\ snapshot' = [snapshot EXCEPT ![s] = p]
    /\ hand' = [hand EXCEPT ![<<s, "full">>] = <<p, parser>>]
    /\ UNCHANGED <<world, now, stored, reading, row, lastSeen, quoted, passes, rereads>>

ReadCard(s, p) ==
    /\ <<s, "quick">> \in Passes /\ hand[<<s, "quick">>] = None
    /\ hand' = [hand EXCEPT ![<<s, "quick">>] = <<p, 0>>]
    /\ UNCHANGED <<world, snapshot, now, stored, reading, row, lastSeen, quoted, passes, rereads>>

(* A reparse asks nobody: it parses the page that was kept. *)
Reparse(s) ==
    /\ <<s, "reparse">> \in Passes /\ hand[<<s, "reparse">>] = None /\ snapshot[s] # None
    /\ hand' = [hand EXCEPT ![<<s, "reparse">>] = <<snapshot[s], parser>>]
    /\ UNCHANGED <<world, snapshot, now, stored, reading, row, lastSeen, quoted, passes,
                   rereads>>

(* What a pass read is not taken in: the pass dies, or its batch goes on   *)
(* without the item.                                                       *)
Lose(s, k) ==
    /\ <<s, k>> \in Passes /\ k # "full" /\ hand[<<s, k>>] # None
    /\ hand' = [hand EXCEPT ![<<s, k>>] = None] /\ Done(<<s, k>>, {})
    /\ UNCHANGED <<world, snapshot, now, stored, reading, row, lastSeen, quoted, passes, again,
                   crossed>>

(* The full pass ends, ok or not; what was not taken in of it is lost.     *)
(* Neither that nor a page it could not read keeps it from ending ok.      *)
EndFull(s, ok) ==
    /\ pass[s] > 0
    /\ hand' = [hand EXCEPT ![<<s, "full">>] = None] /\ Done(<<s, "full">>, {})
    /\ pass' = [pass EXCEPT ![s] = 0]
    /\ seen' = [seen EXCEPT ![s] = FALSE]
    /\ IF ok THEN /\ passed' = [passed EXCEPT ![s] = pass[s]]
                  /\ brought' = [brought EXCEPT ![s] = seen[s]]
             ELSE UNCHANGED <<passed, brought>>
    /\ UNCHANGED <<world, snapshot, now, stored, reading, row, lastSeen, quoted, again,
                   crossed>>

-----------------------------------------------------------------------------
(* Readings, and what they leave on the offer. *)

(* Mutant of Named, for NamedUnlessCrossed: any page read names it. *)
NamedByAnyPage(C, t) == IF \E c \in C : Page(c) THEN Newest({c \in C : Page(c)}, t) ELSE None

(* Which of the observations C names the listing. *)
Named(C, t) == IF \E c \in C : NamesIt(c, t) THEN CHOOSE c \in C : NamesIt(c, t) ELSE None

(* What reading the observations of C now is to leave, applied last that   *)
(* of last: each leaves its price, the newest page its name, and where the *)
(* series is to hear of it a quote.                                        *)
ReadNow(C, last, t, quote) ==
    [obs |-> C, price |-> last[1], names |-> Named(C, t), read |-> <<rules, words>>,
     quote |-> quote, renames |-> FALSE]

(* What becomes of a column that who would change to new: one who loaded   *)
(* it before another wrote it keeps it where new is what it had loaded.    *)
(* Of the series a row bears the stamp of its transaction's start, so that *)
(* it may go on ending with another's.                                     *)
Lands(who, column, new, old) == IF <<who, column>> \in behind THEN {new, old} ELSE {new}

(* The columns others may have loaded that the commit of w is written to:  *)
(* an offer is there from its first observation on, a name from its first  *)
(* page on.                                                                *)
Written(w) == (IF Held = {} THEN {} ELSE {"price"}) \union
              (IF w.names = None \/ name = None THEN {} ELSE {"name"})

(* What was read, w, is committed by who.  A batch decides what names the  *)
(* listing with the row locked; only a name it keeps can be amiss.         *)
Apply(who, w) ==
    /\ reading' = [c \in Content |-> IF c \in w.obs THEN w.read ELSE reading[c]]
    /\ price' \in Lands(who, "price", w.price, price)
    /\ IF w.names = None
       THEN UNCHANGED <<name, crossed>>
       ELSE /\ name' \in Lands(who, "name", <<w.names, w.read>>, name)
            /\ crossed' = \/ name' # <<w.names, w.read>>
                          \/ who \in Reader /\ <<who, "name">> \in behind
    /\ IF w.quote = None THEN UNCHANGED quoted
                         ELSE quoted' \in Lands(who, "price", w.quote, quoted)
    /\ Done(who, Written(w))

(* A payload never seen of this listing is stored, read and quoted. *)
TakeNew(s, k, c) ==
    /\ at[c] = 0
    /\ at' = [at EXCEPT ![c] = now + 1] /\ by' = [by EXCEPT ![c] = s]
    /\ Apply(<<s, k>>, ReadNow({c}, c, at', c[1]))

(* What is read again when a payload is served that is stored already.     *)
AgainNow(k, c) == CASE k = "reparse"           -> {c, Newest(Held, at)}
                    [] k # "reparse" /\ reading[c][1] # rules -> {c}
                    [] OTHER                   -> {}

(* A payload that is stored already: no row and no quote for it. *)
TakeKnown(s, k, c) ==
    /\ at[c] > 0
    /\ IF AgainNow(k, c) = {}
       THEN Done(<<s, k>>, {}) /\ UNCHANGED <<reading, row, quoted, crossed>>
       ELSE Apply(<<s, k>>, ReadNow(AgainNow(k, c), c, at, None))
    /\ UNCHANGED stored

(* Mutant of HandOver, for SeenIsListed: only a new payload is a sighting. *)
HandOverNewSeen(s, k) ==
    /\ <<s, k>> \in Passes /\ hand[<<s, k>>] # None /\ now < MaxNow
    /\ TakeNew(s, k, hand[<<s, k>>]) \/ TakeKnown(s, k, hand[<<s, k>>])
    /\ now' = now + 1
    /\ lastSeen' = IF at[hand[<<s, k>>]] = 0 THEN now + 1 ELSE lastSeen
    /\ seen' = IF k = "full" THEN [seen EXCEPT ![s] = TRUE] ELSE seen
    /\ hand' = [hand EXCEPT ![<<s, k>>] = None]
    /\ UNCHANGED <<world, snapshot, pass, passed, brought, again>>

HandOver(s, k) ==
    /\ <<s, k>> \in Passes /\ hand[<<s, k>>] # None /\ now < MaxNow
    /\ TakeNew(s, k, hand[<<s, k>>]) \/ TakeKnown(s, k, hand[<<s, k>>])
    /\ now' = now + 1
    /\ lastSeen' = now + 1
    /\ seen' = IF k = "full" THEN [seen EXCEPT ![s] = TRUE] ELSE seen
    /\ hand' = [hand EXCEPT ![<<s, k>>] = None]
    /\ UNCHANGED <<world, snapshot, pass, passed, brought, again>>

-----------------------------------------------------------------------------
(* What is stored is read again: one step reads and decides, a later one   *)
(* writes.                                                                 *)

(* The re-read r has read w. *)
Reads(r, w) ==
    /\ again[r] = None
    /\ again' = [again EXCEPT ![r] = w]
    /\ UNCHANGED <<world, snapshot, hand, now, stored, reading, row, lastSeen, quoted, passes,
                   behind, crossed>>

(* A person has one observation read again; the series hears of it.        *)
Renormalize(r, c) ==
    /\ at[c] > 0
    /\ Reads(r, ReadNow({c}, c, at, IF quoted = c[1] THEN None ELSE c[1]))

(* Mutant of Matter, for RereadReachesTheName: the newest one only. *)
MatterNewest(H) == {Newest(H, at)}

(* The two observations that matter of a set: the newest, which the price  *)
(* is from, and the newest page, which the name is from.                   *)
Matter(H) == {Newest(H, at)} \union
             (IF \E c \in H : Page(c) THEN {Newest({c \in H : Page(c)}, at)} ELSE {})

Reread(H) == ReadNow(Matter(H), Newest(H, at), at, None)

RereadBrand(r) == Held # {} /\ Reads(r, [Reread(Held) EXCEPT !.renames = (name # None)])

RereadSource(r, s) == LET H == {c \in Held : by[c] = s}
                      IN H # {} /\ Reads(r, Reread(H))

WriteBack(r) ==
    /\ again[r] # None
    /\ Apply(r, again[r])
    /\ again' = [again EXCEPT ![r] = None]
    /\ UNCHANGED <<world, snapshot, hand, now, stored, lastSeen, passes>>

(* A re-read fails, and with it all it was to write. *)
GiveUp(r) ==
    /\ again[r] # None
    /\ again' = [again EXCEPT ![r] = None] /\ Done(r, {})
    /\ UNCHANGED <<world, snapshot, hand, now, stored, reading, row, lastSeen, quoted, passes,
                   crossed>>

-----------------------------------------------------------------------------
Next == \/ Deploy
        \/ Register
        \/ \E s \in Channel : \/ StartFull(s)
                              \/ \E p \in Price : Observe(s, p) \/ ReadCard(s, p)
                              \/ Reparse(s)
                              \/ \E ok \in BOOLEAN : EndFull(s, ok)
                              \/ \E k \in Kind : HandOver(s, k) \/ Lose(s, k)
        \/ \E r \in Reader : \/ \E c \in Content : Renormalize(r, c)
                              \/ RereadBrand(r)
                              \/ \E s \in Channel : RereadSource(r, s)
                              \/ WriteBack(r)
                              \/ GiveUp(r)

Spec == Init /\ [][Next]_vars

(* offer_is_listed: no full pass of a channel the listing is filed under   *)
(* ended ok that began after the listing was last seen.                    *)
Listed == \A c \in Held : passed[by[c]] <= lastSeen

-----------------------------------------------------------------------------
(* The types, and what belongs together on one row: an offer has a price   *)
(* and a series exactly when an observation of it is held, a name exactly  *)
(* when a page is, and no stamp is of the future.                          *)
TypeOK ==
    /\ snapshot \in [Channel -> Price \union {None}]
    /\ hand \in [Passes -> Content \union {None}]
    /\ now \in 0 .. MaxNow
    /\ parser \in Nat /\ rules \in Nat /\ words \in Nat
    /\ parser + rules + words <= MaxChanges + 2
    /\ at \in [Content -> 0 .. now] /\ by \in [Content -> Channel \union {None}]
    /\ reading \in [Content -> (0 .. rules) \X (0 .. words)]
    /\ price \in Price \union {None} /\ quoted \in Price \union {None}
    /\ (price = None <=> Held = {}) /\ (quoted = None <=> Held = {})
    /\ name = None <=> ~ \E c \in Held : Page(c)
    /\ lastSeen \in 0 .. now
    /\ pass \in [Channel -> 0 .. now] /\ passed \in [Channel -> 0 .. now]
    /\ seen \in [Channel -> BOOLEAN] /\ brought \in [Channel -> BOOLEAN]
    /\ again \in [Reader -> {None} \union
                   [obs : SUBSET Held, price : Price, names : Held \union {None},
                    read : (0 .. rules) \X (0 .. words), quote : Price \union {None},
                    renames : BOOLEAN]]
    /\ behind \subseteq AtWork \X {"price", "name"} /\ crossed \in BOOLEAN

(* What the docstring of _is_newest says a re-read of an older observation *)
(* no longer does, put its reading on the listing over the newer one's: a  *)
(* listing is called what its newest page's current reading says.          *)
NameIsNewestPage ==
    \A c \in Held : NamesIt(c, at) => name = <<c, reading[c]>>

(* That is kept, in whatever order passes hand over and whatever is read   *)
(* again, as long as the last to name the listing was not crossed: a       *)
(* re-read in whose time nobody else named it, or a batch that wrote the   *)
(* name it read.  One that was not crossed puts right what one that was    *)
(* left (_apply_reading_to_offer, _is_newest).                             *)
NamedUnlessCrossed == ~crossed => NameIsNewestPage

(* A listing that every channel's newest good pass brought counts as on    *)
(* sale, whatever other passes and re-reads did meanwhile                  *)
(* (offer_is_listed with _ingest_one).                                     *)
SeenIsListed == (\A s \in Channel : passed[s] > 0 => brought[s]) => Listed

(* A re-read of a maker's listing that has a name, in whose time nobody    *)
(* else named it, leaves the name under the rules and the words it read    *)
(* by, though the newest observation be a quick pass's (_reread).          *)
RereadReachesTheName ==
    [][\A r \in Reader :
           WriteBack(r) /\ again[r].renames /\ <<r, "name">> \notin behind =>
               name'[2] = again[r].read]_vars

(* A reparse leaves the listing's newest observation read with the rules   *)
(* and the words of the moment, though its page is an older one's          *)
(* (_reread_the_newest).                                                   *)
ReparseReachesNewest ==
    [][\A s \in Channel : HandOver(s, "reparse") =>
           reading'[Newest(Held', at')] = <<rules, words>>]_vars

(* What prices/README.md says of the series: a row is written when the     *)
(* price moves.  After a pass hands over a price, that is the newest row.  *)
SeriesFollowsTheShop ==
    [][\A s \in Channel, k \in {"full", "quick"} :
           HandOver(s, k) => quoted' = hand[<<s, k>>][1]]_vars

(* What offers/README.md says of `listed`: a listing counts as on sale     *)
(* only if no full pass of its channel that ended ok began after it was    *)
(* last seen at the shop.  So only a pass that looked at the shop makes    *)
(* one that had gone count again.                                          *)
ListedIsSeen ==
    [][~Listed /\ Listed' => \E s \in Channel, k \in {"full", "quick"} : HandOver(s, k)]_vars
=============================================================================
