-------------------------------- MODULE Walk ---------------------------------
(***************************************************************************)
(* How a channel finds out what a shop has: `discover` of the ten channels *)
(* that ask page by page, in the five ways they walk a category, while the *)
(* shop changes under the walk. (discover and euronics ask once.)          *)
(*                                                                         *)
(* How many products m79 puts on a page is stored against the cookie of a  *)
(* session, and a fetcher has a session for each address it goes out by,   *)
(* taken in turn: with several, the pages of one walk may differ in size.  *)
(*                                                                         *)
(* What a full pass that ended ok did not list is taken to be gone from    *)
(* the shop, so what a walk misses matters more than what it sees.         *)
(***************************************************************************)
EXTENDS Naturals, FiniteSets, Sequences, SequencesExt

CONSTANTS Product,     \* products a shop may have in the category
          LeftOut,     \* those a channel does not collect: second-hand, accessories
          Shops,       \* what the category may hold at first, in the shop's order
          Sizes,       \* products to a page; m79 serves one of two
          MaxPages,    \* MAX_PAGES: what a walk asks for at most
          MaxMoves     \* bound: changes of the shop during a walk

ASSUME WalkAssumption ==
    /\ LeftOut \subseteq Product /\ Shops \subseteq Seq(Product)
    /\ \A s \in Shops : IsInjective(s)
    /\ Sizes \subseteq Nat \ {0} /\ MaxPages \in Nat \ {0} /\ MaxMoves \in Nat

(* The ways: the first page tells how many there are and the rest are      *)
(* asked for together (m79, dateks, rdveikals, mdata); by offset to the    *)
(* stated total (ksenukai, onea, bigbox); page by page until as many are   *)
(* listed as there are (bm), until a page is short (cec), until a page     *)
(* brings nothing new (tet).                                               *)
Ways == {"told", "offset", "counted", "short", "fresh"}

VARIABLES
    shop,    \* the category, in the shop's order
    way, size,
    mixed,   \* pages come in every size, by the session that asks
    phase,   \* "first", "walking", "done" or "failed"
    asked,   \* told: pages asked for and not answered
    turn,    \* the others: pages answered
    offset,  \* products those pages held
    count,   \* cards kept, a product on two pages twice
    found,   \* listings
    steady,  \* ghost: products the shop has had since the walk began
    hidden,  \* ghost: products on pages that came without a card to keep
    moved,   \* ghost: something went, or came in anywhere but at the end
    moves

walkVars == <<shop, way, size, mixed, phase, asked, turn, offset, count, found,
              steady, hidden, moved, moves>>

Here         == ToSet(shop)
Kept(s)      == ToSet(s) \ LeftOut
Sized        == IF mixed THEN Sizes ELSE {size}
From(i, z)   == SubSeq(shop, i + 1, IF i + z < Len(shop) THEN i + z ELSE Len(shop))
PageAt(p, z) == From((p - 1) * z, z)
Pages(z)     == (Len(shop) + z - 1) \div z
Least(m, n)  == IF m < n THEN m ELSE n

WalkInit ==
    /\ shop \in Shops /\ way \in Ways /\ size \in Sizes
    /\ mixed \in BOOLEAN /\ (way # "told" => ~mixed)
    /\ phase = "first"
    /\ asked = {} /\ turn = 0 /\ offset = 0 /\ count = 0 /\ found = {}
    /\ steady = Here /\ hidden = {} /\ moved = FALSE /\ moves = 0

-----------------------------------------------------------------------------
(* The shop.                                                               *)

Shift == /\ phase \in {"first", "walking"} /\ moves < MaxMoves
         /\ moves' = moves + 1
         /\ UNCHANGED <<way, size, mixed, phase, asked, turn, offset, count, found, hidden>>

(* A product comes, at the end - where an index sorted by id has it - or   *)
(* anywhere.                                                               *)
Comes(x, i) == /\ Shift /\ x \notin Here
               /\ shop' = InsertAt(shop, i, x)
               /\ moved' = (moved \/ i <= Len(shop))
               /\ UNCHANGED steady
Leaves(i) == /\ Shift
             /\ shop' = RemoveAt(shop, i)
             /\ steady' = steady \ {shop[i]} /\ moved' = TRUE

-----------------------------------------------------------------------------
(* Told.                                                                   *)

(* The pages asked for together, once the first has told the last.         *)
Rest(last) == 2..Least(last, MaxPages)

(* The first page. m79 and dateks refuse one with nothing on it to keep,   *)
(* mdata one with no card at all, rdveikals none.                          *)
FirstTold ==
    /\ way = "told" /\ phase = "first"
    /\ \E z \in Sized :
          \/ Kept(PageAt(1, z)) = {} /\ phase' = "failed" /\ UNCHANGED <<asked, found>>
          \/ /\ asked' = Rest(Pages(z))
             /\ found' = Kept(PageAt(1, z))
             /\ phase' = IF asked' = {} THEN "done" ELSE "walking"
    /\ UNCHANGED <<shop, way, size, mixed, turn, offset, count, steady, hidden, moved, moves>>

(* The first page is not the category: rdveikals, which does not look, is  *)
(* told of no other page and ends well with nothing. A 4xx comes as such a *)
(* page. (The channels that look have it as Refused.)                      *)
HoleFirst ==
    /\ way = "told" /\ phase = "first"
    /\ phase' = "done" /\ hidden' = hidden \cup Here
    /\ UNCHANGED <<shop, way, size, mixed, asked, turn, offset, count, found, steady, moved, moves>>

(* Mutant of Answered, for StandingShopIsSeen: a page with no cards is     *)
(* taken for the end.                                                      *)
AnsweredToTheEnd(p, cards) ==
    /\ asked' = IF cards = {} THEN {q \in asked : q < p} ELSE asked \ {p}
    /\ found' = found \cup cards
    /\ phase' = IF asked' = {} THEN "done" ELSE phase

(* One of the rest comes back: with cards or, a product code having taken  *)
(* the number or a category page having become something else, without.    *)
Answered(p, cards) ==
    /\ asked' = asked \ {p}
    /\ found' = found \cup cards
    /\ phase' = IF asked' = {} THEN "done" ELSE phase

PageTold(p) == /\ phase = "walking" /\ p \in asked
               /\ \E z \in Sized : Answered(p, Kept(PageAt(p, z)))
               /\ UNCHANGED <<shop, way, size, mixed, turn, offset, count,
                              steady, hidden, moved, moves>>
HoleTold(p) == /\ phase = "walking" /\ p \in asked
               /\ Answered(p, {})
               /\ \E z \in Sized : hidden' = hidden \cup ToSet(PageAt(p, z))
               /\ UNCHANGED <<shop, way, size, mixed, turn, offset, count,
                              steady, moved, moves>>

-----------------------------------------------------------------------------
(* One page after another.                                                 *)

(* The page asked for next. tet's listing does not end but goes round.     *)
Items == CASE way = "offset" -> From(offset, size)
           [] way = "fresh" /\ turn >= Pages(size) -> PageAt(1, size)
           [] OTHER -> PageAt(turn + 1, size)

(* A page to end at, whatever is behind it; tet looks at what it keeps.    *)
Over(items) == IF way = "fresh" THEN Kept(items) \subseteq found ELSE items = <<>>

(* What the shop has that the pages answered did not hold.                 *)
Unserved == ToSet(SubSeq(shop, offset + 1, Len(shop)))

(* Nothing more to ask for after this page.                                *)
Enough(items) ==
    \/ turn' = MaxPages
    \/ way = "offset"  /\ offset' >= Len(shop)
    \/ way = "counted" /\ count' >= Len(shop)
    \/ way = "short"   /\ Len(items) < size

(* cec and tet refuse to end with nothing.                                 *)
Ended == phase' = IF way \in {"short", "fresh"} /\ found' = {} THEN "failed" ELSE "done"

NextPage ==
    /\ way # "told" /\ phase \in {"first", "walking"}
    /\ turn' = turn + 1
    /\ IF Over(Items)
       THEN /\ UNCHANGED <<offset, count, found>>
            /\ hidden' = IF Kept(Items) = {} THEN hidden \cup Unserved ELSE hidden
            /\ Ended
       ELSE /\ offset' = offset + Len(Items)
            /\ count' = count + Cardinality(Kept(Items))
            /\ found' = found \cup Kept(Items)
            /\ UNCHANGED hidden
            /\ IF Enough(Items) THEN Ended ELSE phase' = "walking"
    /\ UNCHANGED <<shop, way, size, mixed, asked, steady, moved, moves>>

(* A page without items, though the shop has them: an answer that is not   *)
(* an error and not the category either.                                   *)
HolePage ==
    /\ way # "told" /\ phase \in {"first", "walking"}
    /\ hidden' = hidden \cup Unserved
    /\ turn' = turn + 1
    /\ UNCHANGED <<offset, count, found>>
    /\ Ended
    /\ UNCHANGED <<shop, way, size, mixed, asked, steady, moved, moves>>

(* FetchError, or a GraphQL answer with errors: gather raises, and the run *)
(* with it.                                                                *)
Refused == /\ phase \in {"first", "walking"}
           /\ phase' = "failed"
           /\ UNCHANGED <<shop, way, size, mixed, asked, turn, offset, count, found,
                          steady, hidden, moved, moves>>

WalkNext ==
    \/ \E x \in Product, i \in 1..(Len(shop) + 1) : Comes(x, i)
    \/ \E i \in DOMAIN shop : Leaves(i)
    \/ FirstTold \/ HoleFirst \/ NextPage \/ HolePage \/ Refused
    \/ \E p \in asked : PageTold(p) \/ HoleTold(p)

WalkSpec == WalkInit /\ [][WalkNext]_walkVars
-----------------------------------------------------------------------------
(* Properties.                                                             *)

(* Every listing is a product of the shop that the channel collects.       *)
WalkTypeOK ==
    /\ Here \subseteq Product /\ Len(shop) = Cardinality(Here)
    /\ way \in Ways /\ size \in Sizes /\ mixed \in BOOLEAN
    /\ phase \in {"first", "walking", "done", "failed"}
    /\ asked \subseteq 2..MaxPages /\ turn \in 0..MaxPages
    /\ offset \in Nat /\ count \in 0..offset
    /\ found \subseteq Product \ LeftOut
    /\ steady \subseteq Here /\ hidden \subseteq Product
    /\ moved \in BOOLEAN /\ moves \in 0..MaxMoves

Fits == Len(shop) <= MaxPages * size

(* A walk that ended well while nothing the shop listed changed its place, *)
(* in a category that MAX_PAGES pages of one size hold, has found all that *)
(* was there throughout, but for pages that came back without a card to    *)
(* keep. Where the first page told the last, such a page costs its own     *)
(* products and no others (m79's comment: "Not the end of the category: a  *)
(* page number that turned out to be a product code"); taken for the first *)
(* page of rdveikals, which does not look, it costs the whole category;    *)
(* elsewhere it is taken for the end.                                      *)
StandingShopIsSeen ==
    (phase = "done" /\ ~mixed /\ Fits /\ ~moved) => steady \ LeftOut \subseteq found \cup hidden

(* m79's comment on the cookie the size is stored against: "which the      *)
(* fetcher's client keeps for the whole run". So pages of one walk would   *)
(* be of one size, and a category that they hold in any of the sizes would *)
(* be seen whatever that is. A fetcher with several addresses has several  *)
(* clients. (Refuted: the page after a wide first one comes narrow.)       *)
SeenInAnySize ==
    (phase = "done" /\ ~moved /\ \A z \in Sizes : Len(shop) <= MaxPages * z)
        => steady \ LeftOut \subseteq found \cup hidden
=============================================================================
