--------------------------- MODULE RegistryProofs ----------------------------
(***************************************************************************)
(* What is proved of the registries the catalogue is filed in: the tree of *)
(* categories (Categories), the makers and the entries taken over for them *)
(* (Makers), and the families the entries are filed under (Families).      *)
(***************************************************************************)
EXTENDS Categories, Makers, Families, Ranks

-----------------------------------------------------------------------------
(* Categories.                                                             *)

Size == Cardinality(Category)
Ups  == [Category -> Category \cup {Root, Absent}]
Over(up, x) == IF x \in Category THEN up[x] ELSE x

LEMMA SizeType == Size \in Nat
BY CategoriesAssumption, FS_CardinalityType DEF Size

(* The walk takes its steps: the function Walk names is there to be taken. *)
LEMMA WalkSteps ==
    ASSUME NEW up, NEW c
    PROVE  /\ DOMAIN Walk(up, c) = 0 .. Size
           /\ Walk(up, c)[0] = c
           /\ \A i \in 1 .. Size : Walk(up, c)[i] = Over(up, Walk(up, c)[i - 1])
<1>. DEFINE Of(f, n) == f = [i \in 0 .. n |-> IF i = 0 THEN c ELSE Over(up, f[i - 1])]
            S == {n \in Nat : \E f : Of(f, n)}
<1>1. 0 \in S
  <2>. DEFINE f == [i \in 0 .. 0 |-> c]
  <2>1. Of(f, 0)
    OBVIOUS
  <2>. QED
    BY <2>1
<1>2. ASSUME NEW n \in S PROVE n + 1 \in S
  <2>1. PICK f : Of(f, n)
    OBVIOUS
  <2>. DEFINE g == [i \in 0 .. n + 1 |-> IF i = 0 THEN c ELSE Over(up, f[i - 1])]
  <2>2. \A i \in 0 .. n : g[i] = f[i]
    <3>. HIDE DEF Over
    <3>. QED
      BY <2>1
  <2>3. \A i \in 0 .. n + 1 : g[i] = IF i = 0 THEN c ELSE Over(up, g[i - 1])
    <3>1. \A i \in 0 .. n + 1 : i # 0 => i - 1 \in 0 .. n
      OBVIOUS
    <3>. HIDE DEF Over
    <3>. QED
      BY <2>2, <3>1
  <2>4. Of(g, n + 1)
    <3>. HIDE DEF Over
    <3>. QED
      BY <2>3
  <2>5. n + 1 \in Nat
    OBVIOUS
  <2>. HIDE DEF Of, g
  <2>. QED
    BY <2>4, <2>5
<1>3. Size \in S
  <2>. HIDE DEF S
  <2>1. S \in SUBSET Nat
    BY DEF S
  <2>. QED
    BY <1>1, <1>2, <2>1, NoFirstMissing, SizeType
<1>4. PICK f : Of(f, Size)
  BY <1>3
<1>5. Walk(up, c) = [i \in 0 .. Size |-> IF i = 0 THEN c ELSE Over(up, Walk(up, c)[i - 1])]
  BY <1>4 DEF Walk, Size, Over
<1>. QED
  BY <1>5, SizeType

LEMMA WalkInside ==
    ASSUME NEW up, NEW c, NEW Region, c \in Region, \A x \in Region : Over(up, x) \in Region
    PROVE  \A i \in 0 .. Size : Walk(up, c)[i] \in Region
<1>. DEFINE S == {n \in Nat : n <= Size => Walk(up, c)[n] \in Region}
<1>1. 0 \in S
  BY WalkSteps
<1>2. ASSUME NEW n \in S PROVE n + 1 \in S
  <2>1. CASE n + 1 <= Size
    <3>1. n <= Size /\ n + 1 \in 1 .. Size /\ (n + 1) - 1 = n
      BY <2>1, SizeType
    <3>2. Walk(up, c)[n + 1] = Over(up, Walk(up, c)[n])
      BY <3>1, WalkSteps
    <3>. QED
      BY <3>1, <3>2
  <2>. QED
    BY <2>1
<1>3. S = Nat
  <2>1. S \in SUBSET Nat
    OBVIOUS
  <2>. HIDE DEF S
  <2>. QED
    BY <1>1, <1>2, <2>1, NoFirstMissing
<1>. QED
  BY <1>3, SizeType

(* Ranks that fall on the way up: with them, there is no loop. *)
RankedBy(up, d) == /\ d \in [Category -> Nat]
                   /\ \A c \in Category : up[c] \in Category => d[up[c]] < d[c]

LEMMA RanksFall ==
    ASSUME NEW up, NEW c, NEW d, RankedBy(up, d)
    PROVE  \A i \in 0 .. Size : Walk(up, c)[i] \in Category =>
              \A j \in 0 .. i - 1 : /\ Walk(up, c)[j] \in Category
                                    /\ d[Walk(up, c)[i]] < d[Walk(up, c)[j]]
<1>. DEFINE w == Walk(up, c)
            Falls(n) == w[n] \in Category =>
                          \A j \in 0 .. n - 1 : w[j] \in Category /\ d[w[n]] < d[w[j]]
            S == {n \in Nat : n <= Size => Falls(n)}
<1>1. 0 \in S
  OBVIOUS
<1>2. ASSUME NEW n \in S PROVE n + 1 \in S
  <2>. SUFFICES ASSUME n + 1 <= Size, w[n + 1] \in Category, NEW j \in 0 .. n
                PROVE  w[j] \in Category /\ d[w[n + 1]] < d[w[j]]
    <3>. HIDE DEF w
    <3>1. (n + 1) - 1 = n
      OBVIOUS
    <3>. QED
      BY <3>1
  <2>1. n <= Size /\ n + 1 \in 1 .. Size /\ (n + 1) - 1 = n
    BY SizeType
  <2>2. w[n + 1] = Over(up, w[n])
    BY <2>1, WalkSteps
  <2>3. w[n] \in Category /\ up[w[n]] = w[n + 1]
    BY <2>2 DEF Over
  <2>4. d[w[n + 1]] < d[w[n]]
    BY <2>3 DEF RankedBy
  <2>5. CASE j = n
    BY <2>3, <2>4, <2>5
  <2>6. CASE j # n
    <3>. HIDE DEF w
    <3>1. j \in 0 .. n - 1
      BY <2>6
    <3>2. w[j] \in Category /\ d[w[n]] < d[w[j]]
      BY <2>1, <2>3, <3>1
    <3>3. d[w[n + 1]] \in Nat /\ d[w[n]] \in Nat /\ d[w[j]] \in Nat
      BY <2>3, <3>2 DEF RankedBy
    <3>. QED
      BY <2>4, <3>2, <3>3
  <2>. QED
    BY <2>5, <2>6
<1>3. S = Nat
  <2>1. S \in SUBSET Nat
    OBVIOUS
  <2>. HIDE DEF S
  <2>. QED
    BY <1>1, <1>2, <2>1, NoFirstMissing
<1>. HIDE DEF w
<1>4. \A i \in 0 .. Size : Falls(i)
  BY <1>3, SizeType
<1>. QED
  BY <1>4 DEF w

(* A walk with falling ranks leaves the tree: it has no more steps in it   *)
(* than there are categories.                                              *)
LEMMA WalkEnds ==
    ASSUME NEW up, NEW c, NEW d, RankedBy(up, d)
    PROVE  Walk(up, c)[Size] \notin Category
<1>1. SUFFICES ASSUME Walk(up, c)[Size] \in Category PROVE FALSE
  OBVIOUS
<1>. DEFINE w == Walk(up, c)
<1>2. \A i \in 0 .. Size : w[i] \in Category
  <2>1. \A i \in 0 .. Size : i = Size \/ i \in 0 .. Size - 1
    BY SizeType
  <2>2. Size \in 0 .. Size
    BY SizeType
  <2>. QED
    BY <1>1, <2>1, <2>2, RanksFall
<1>3. \A i, j \in 0 .. Size : j < i => w[i] # w[j]
  <2>. SUFFICES ASSUME NEW i \in 0 .. Size, NEW j \in 0 .. Size, j < i, w[i] = w[j]
                PROVE  FALSE
    OBVIOUS
  <2>1. j \in 0 .. i - 1
    BY SizeType
  <2>2. d[w[i]] < d[w[j]]
    BY <1>2, <2>1, RanksFall
  <2>3. d[w[i]] \in Nat
    BY <1>2 DEF RankedBy
  <2>. HIDE DEF w
  <2>. QED
    BY <2>2, <2>3
<1>. DEFINE f == [i \in 0 .. Size |-> w[i]]
<1>4. f \in Injection(0 .. Size, Category)
  <2>. HIDE DEF w
  <2>1. f \in [0 .. Size -> Category]
    BY <1>2
  <2>2. ASSUME NEW i \in 0 .. Size, NEW j \in 0 .. Size, f[i] = f[j] PROVE i = j
    <3>1. w[i] = w[j] /\ i \in Int /\ j \in Int
      BY <2>2, SizeType
    <3>. QED
      BY <1>3, <3>1
  <2>. HIDE DEF f
  <2>. QED
    BY <2>1, <2>2 DEF Injection, IsInjective
<1>5. Cardinality(0 .. Size) = Size + 1
  BY SizeType, FS_Interval, 0 \in Int
<1>6. Cardinality(0 .. Size) <= Cardinality(Category)
  <2>. HIDE DEF f
  <2>. QED
    BY <1>4, FS_Injection, CategoriesAssumption
<1>. QED
  BY <1>5, <1>6, SizeType DEF Size

-----------------------------------------------------------------------------
(* What is above a category is itself and what is above its parent.        *)
LEMMA WalkOn ==
    ASSUME NEW up, NEW c \in Category
    PROVE  \A i \in 0 .. Size - 1 : Walk(up, c)[i + 1] = Walk(up, up[c])[i]
<1>. DEFINE S == {n \in Nat : n + 1 <= Size => Walk(up, c)[n + 1] = Walk(up, up[c])[n]}
<1>1. 0 \in S
  <2>1. ASSUME 1 <= Size PROVE Walk(up, c)[1] = up[c]
    <3>1. 1 \in 1 .. Size /\ 1 - 1 = 0
      BY <2>1, SizeType
    <3>. QED
      BY <3>1, WalkSteps DEF Over
  <2>. QED
    BY <2>1, WalkSteps
<1>2. ASSUME NEW n \in S PROVE n + 1 \in S
  <2>. SUFFICES ASSUME n + 2 <= Size
                PROVE  Walk(up, c)[(n + 1) + 1] = Walk(up, up[c])[n + 1]
    OBVIOUS
  <2>1. /\ (n + 1) + 1 \in 1 .. Size /\ n + 1 \in 1 .. Size
        /\ ((n + 1) + 1) - 1 = n + 1 /\ (n + 1) - 1 = n
        /\ n + 1 <= Size
    BY SizeType
  <2>2. Walk(up, c)[n + 1] = Walk(up, up[c])[n]
    BY <2>1
  <2>3. Walk(up, c)[(n + 1) + 1] = Over(up, Walk(up, c)[n + 1])
    BY <2>1, WalkSteps
  <2>4. Walk(up, up[c])[n + 1] = Over(up, Walk(up, up[c])[n])
    BY <2>1, WalkSteps
  <2>. QED
    BY <2>2, <2>3, <2>4
<1>3. S = Nat
  <2>1. S \in SUBSET Nat
    OBVIOUS
  <2>. HIDE DEF S
  <2>. QED
    BY <1>1, <1>2, <2>1, NoFirstMissing
<1>. QED
  BY <1>3, SizeType

LEMMA UpFromParent ==
    ASSUME NEW up, NEW d, RankedBy(up, d), NEW c \in Category
    PROVE  UpFrom(up, c) = {c} \cup UpFrom(up, up[c])
<1>1. \A e : 0 \in 0 .. Size /\ Walk(up, e)[0] = e
  BY WalkSteps, SizeType
<1>2. c \in UpFrom(up, c)
  BY <1>1 DEF UpFrom, Size
<1>3. ASSUME NEW i \in 0 .. Size, Walk(up, c)[i] \in Category
      PROVE  Walk(up, c)[i] \in {c} \cup UpFrom(up, up[c])
  <2>1. CASE i = 0
    BY <1>1, <2>1
  <2>2. CASE i # 0
    <3>1. i - 1 \in 0 .. Size - 1 /\ i - 1 \in 0 .. Size /\ (i - 1) + 1 = i
      BY <2>2, SizeType
    <3>2. Walk(up, c)[i] = Walk(up, up[c])[i - 1]
      BY <3>1, WalkOn
    <3>. QED
      BY <1>3, <3>1, <3>2 DEF UpFrom, Size
  <2>. QED
    BY <2>1, <2>2
<1>4. ASSUME NEW i \in 0 .. Size, Walk(up, up[c])[i] \in Category
      PROVE  Walk(up, up[c])[i] \in UpFrom(up, c)
  <2>1. i # Size
    BY <1>4, WalkEnds
  <2>2. i \in 0 .. Size - 1 /\ i + 1 \in 0 .. Size
    BY <2>1, SizeType
  <2>3. Walk(up, c)[i + 1] = Walk(up, up[c])[i]
    BY <2>2, WalkOn
  <2>. QED
    BY <1>4, <2>2, <2>3 DEF UpFrom, Size
<1>. QED
  BY <1>2, <1>3, <1>4 DEF UpFrom, Size

LEMMA NothingAboveRoot ==
    ASSUME NEW up, NEW x, x \notin Category
    PROVE  UpFrom(up, x) = {}
<1>1. \A y \in {x} : Over(up, y) \in {x}
  BY DEF Over
<1>2. \A i \in 0 .. Size : Walk(up, x)[i] \in {x}
  <2>. DEFINE Region == {x}
  <2>1. x \in Region /\ \A y \in Region : Over(up, y) \in Region
    BY <1>1
  <2>. HIDE DEF Region
  <2>2. \A i \in 0 .. Size : Walk(up, x)[i] \in Region
    BY <2>1, WalkInside
  <2>. QED
    BY <2>2 DEF Region
<1>. QED
  BY <1>2 DEF UpFrom, Size

-----------------------------------------------------------------------------
(* A parent is a row. *)
ParentsAreRows(up) == \A c \in Category : up[c] \in Category => up[c] \in Rows(up)

LEMMA AboveARow ==
    ASSUME NEW up \in Ups, ParentsAreRows(up), NEW x \in Rows(up) \cup {Root}
    PROVE  /\ \A i \in 0 .. Size : Walk(up, x)[i] \in Rows(up) \cup {Root}
           /\ UpFrom(up, x) \subseteq Rows(up)
<1>. DEFINE Region == Rows(up) \cup {Root}
<1>1. \A y \in Region : Over(up, y) \in Region
  BY CategoriesAssumption DEF Over, Rows, Ups, ParentsAreRows
<1>2. \A i \in 0 .. Size : Walk(up, x)[i] \in Region
  <2>. HIDE DEF Region
  <2>1. x \in Region
    BY DEF Region
  <2>. QED
    BY <1>1, <2>1, WalkInside
<1>. QED
  BY <1>2, CategoriesAssumption DEF UpFrom, Size

(* Where ranks fall, every row hangs. *)
LEMMA RowsHang ==
    ASSUME NEW up \in Ups, ParentsAreRows(up), NEW d, RankedBy(up, d), NEW c \in Rows(up)
    PROVE  Hangs(up, c)
<1>1. Walk(up, c)[Size] \in Rows(up) \cup {Root}
  BY AboveARow, SizeType
<1>. QED
  BY <1>1, WalkEnds DEF Hangs, Size, Rows

(* A category that is put under one it is not above leaves a tree a tree:  *)
(* the branch it takes along is ranked over its new parent.                *)
LEMMA MoveRanked ==
    ASSUME NEW up \in Ups, NEW d, RankedBy(up, d),
           NEW c \in Category, NEW t \in Category \cup {Root}, c \notin UpFrom(up, t)
    PROVE  \E e : RankedBy([up EXCEPT ![c] = t], e)
<1>. DEFINE top == IF t \in Category THEN d[t] ELSE 0
            e == [x \in Category |-> IF c \in UpFrom(up, x) THEN d[x] + top + 1 ELSE d[x]]
            new == [up EXCEPT ![c] = t]
<1>1. top \in Nat /\ \A x \in Category : d[x] \in Nat
  BY DEF RankedBy
<1>2. e \in [Category -> Nat]
  BY <1>1
<1>3. ASSUME NEW x \in Category, new[x] \in Category PROVE e[new[x]] < e[x]
  <2>1. CASE x = c
    <3>1. new[x] = t
      BY <2>1 DEF Ups
    <3>2. e[t] = d[t]
      BY <1>3, <3>1
    <3>3. c \in UpFrom(up, c)
      BY UpFromParent
    <3>4. e[c] = d[c] + top + 1
      BY <3>3
    <3>. QED
      BY <1>1, <1>3, <2>1, <3>1, <3>2, <3>4
  <2>2. CASE x # c
    <3>1. new[x] = up[x]
      BY <2>2 DEF Ups
    <3>2. UpFrom(up, x) = {x} \cup UpFrom(up, up[x])
      BY UpFromParent
    <3>3. (c \in UpFrom(up, x)) = (c \in UpFrom(up, up[x]))
      BY <2>2, <3>2
    <3>4. d[up[x]] < d[x] /\ up[x] \in Category
      BY <1>3, <3>1 DEF RankedBy
    <3>. HIDE DEF top, new
    <3>5. CASE c \in UpFrom(up, x)
      BY <1>1, <3>1, <3>3, <3>4, <3>5
    <3>6. CASE c \notin UpFrom(up, x)
      BY <1>1, <3>1, <3>3, <3>4, <3>6
    <3>. QED
      BY <3>5, <3>6
  <2>. QED
    BY <2>1, <2>2
<1>. QED
  BY <1>2, <1>3 DEF RankedBy

-----------------------------------------------------------------------------
Recomputes(e) == Moves(e) \/ edit[e].show # Keep

(* What an edit has in hand goes with how far it has come. *)
InOrder(e) ==
    /\ news[e].to = edit[e].to
    /\ edit[e].show = Keep => news[e].show = Keep
    /\ doing[e] = "idle" => ~Moves(e)
    /\ doing[e] \notin {"idle", "stuck"} /\ parent[edit[e].cat] = Absent => Moves(e)
    /\ wrote[e] \in [DOMAIN wrote[e] -> BOOLEAN]
    /\ owes[e] \in [DOMAIN owes[e] -> BOOLEAN]
    /\ doing[e] # "committing" => DOMAIN owes[e] = {}
    /\ doing[e] \notin {"recomputing", "committing"} => held[e] = {}
    /\ doing[e] = "recomputing" => Recomputes(e)
    /\ ~Recomputes(e) => DOMAIN owes[e] = {} /\ DOMAIN wrote[e] = {}

EditsInOrder ==
    /\ DOMAIN owes = Editor /\ DOMAIN wrote = Editor /\ DOMAIN held = Editor
    /\ \A e \in Editor : InOrder(e)

TypesHold == TreeTypeOK /\ EditsInOrder

(* One edit's part of the type invariant. *)
Stage == {"idle", "checking", "writing", "recomputing", "committing", "stuck"}
Asked == [cat: Category, to: Category \cup {Root, Keep}, show: BOOLEAN \cup {Keep}]
Piece == [to: Category \cup {Root, Keep}, show: BOOLEAN \cup {Keep}]

TypedEdit(e) == /\ DOMAIN owes[e] \subseteq Category
                /\ DOMAIN wrote[e] \subseteq held[e]
                /\ held[e] \subseteq Category

TypedTree == /\ parent \in Ups
             /\ own \in [Category -> BOOLEAN] /\ effective \in [Category -> BOOLEAN]
             /\ edits \in 0 .. MaxEdits
             /\ overlapped \in BOOLEAN /\ dirty \in BOOLEAN /\ alone \in [Editor -> BOOLEAN]

TypedRequests == /\ doing \in [Editor -> Stage]
                 /\ edit \in [Editor -> Asked]
                 /\ news \in [Editor -> Piece]

NoRowTwice == \A e \in Editor : \A f \in Editor \ {e} : held[e] \cap held[f] = {}

LEMMA TypesParts ==
    TreeTypeOK <=> /\ TypedTree /\ TypedRequests /\ NoRowTwice
                   /\ \A e \in Editor : TypedEdit(e)
BY DEF TreeTypeOK, TypedTree, TypedRequests, NoRowTwice, TypedEdit, Ups, Stage, Asked, Piece

LEMMA TypesNext ==
    TypedTree' /\ TypedRequests' /\ NoRowTwice' /\ (\A e \in Editor : TypedEdit(e)') => TreeTypeOK'
BY DEF TreeTypeOK, TypedTree, TypedRequests, NoRowTwice, TypedEdit, Ups, Stage, Asked, Piece

LEMMA TypesAtFirst == TreeInit => TypesHold
<1>. SUFFICES ASSUME TreeInit PROVE TypesHold
  OBVIOUS
<1>1. (CHOOSE c \in Category : TRUE) \in Category
  BY CategoriesAssumption
<1>2. TypedTree
  <2>1. parent \in Ups
    BY DEF TreeInit, Ups
  <2>2. edits \in 0 .. MaxEdits
    BY CategoriesAssumption DEF TreeInit
  <2>3. own \in [Category -> BOOLEAN] /\ effective \in [Category -> BOOLEAN]
        /\ alone \in [Editor -> BOOLEAN] /\ overlapped \in BOOLEAN /\ dirty \in BOOLEAN
    BY DEF TreeInit
  <2>. QED
    BY <2>1, <2>2, <2>3 DEF TypedTree
<1>3. TypedRequests
  BY <1>1 DEF TreeInit, TypedRequests, Stage, Asked, Piece
<1>4. NoRowTwice
  BY DEF TreeInit, NoRowTwice
<1>5. ASSUME NEW e \in Editor PROVE TypedEdit(e) /\ InOrder(e)
  BY DEF TreeInit, TypedEdit, InOrder, Nothing, Moves, Recomputes
<1>6. DOMAIN owes = Editor /\ DOMAIN wrote = Editor /\ DOMAIN held = Editor
  BY DEF TreeInit
<1>. QED
  BY <1>2, <1>3, <1>4, <1>5, <1>6, TypesParts DEF TypesHold, EditsInOrder

(* A step is one edit's: the others have in hand what they had. *)
OthersRest(e) ==
    \A f \in Editor \ {e} :
        /\ doing'[f] = doing[f] /\ edit'[f] = edit[f] /\ news'[f] = news[f]
        /\ owes'[f] = owes[f] /\ wrote'[f] = wrote[f] /\ held'[f] = held[f]

NoRowLeaves == \A c \in Category : parent'[c] = Absent => parent[c] = Absent

LEMMA OneEditSteps ==
    ASSUME TypesHold, NEW e \in Editor, OthersRest(e), NoRowLeaves,
           TypedTree', TypedRequests', TypedEdit(e)', InOrder(e)',
           \A f \in Editor \ {e} : held'[e] \cap held[f] = {},
           DOMAIN owes' = Editor, DOMAIN wrote' = Editor, DOMAIN held' = Editor
    PROVE  TypesHold'
<1>1. TypedRequests /\ NoRowTwice /\ EditsInOrder /\ \A f \in Editor : TypedEdit(f)
  BY TypesParts DEF TypesHold
<1>2. ASSUME NEW f \in Editor PROVE TypedEdit(f)' /\ InOrder(f)'
  <2>1. CASE f = e
    BY <2>1
  <2>2. CASE f # e
    <3>1. edit[f].cat \in Category /\ InOrder(f) /\ TypedEdit(f)
      BY <1>1 DEF TypedRequests, Asked, EditsInOrder
    <3>2. /\ doing'[f] = doing[f] /\ edit'[f] = edit[f] /\ news'[f] = news[f]
          /\ owes'[f] = owes[f] /\ wrote'[f] = wrote[f] /\ held'[f] = held[f]
      BY <2>2 DEF OthersRest
    <3>3. InOrder(f)'
      BY <3>1, <3>2 DEF InOrder, Moves, Recomputes, NoRowLeaves
    <3>. QED
      BY <3>1, <3>2, <3>3 DEF TypedEdit
  <2>. QED
    BY <2>1, <2>2
<1>3. NoRowTwice'
  BY <1>1 DEF NoRowTwice, OthersRest
<1>. QED
  BY <1>2, <1>3, TypesNext DEF TypesHold, EditsInOrder

LEMMA TypesBegin ==
    ASSUME TypesHold, NEW e \in Editor, NEW c \in Category,
           NEW to \in Category \cup {Root, Keep}, NEW show \in BOOLEAN \cup {Keep},
           BeginEdit(e, [cat |-> c, to |-> to, show |-> show])
    PROVE  TypesHold'
<1>. DEFINE moves == to # Keep /\ to # parent[c]
            to2 == IF moves THEN to ELSE Keep
            show2 == IF parent[c] # Absent /\ show = own[c] THEN Keep ELSE show
<1>0. /\ TypedTree /\ TypedRequests /\ NoRowTwice /\ EditsInOrder
      /\ \A f \in Editor : TypedEdit(f)
  BY TypesParts DEF TypesHold
<1>1. /\ edit' = [edit EXCEPT ![e] = [cat |-> c, to |-> to2, show |-> show]]
      /\ news' = [news EXCEPT ![e] = [to |-> to2, show |-> show2]]
      /\ doing' = [doing EXCEPT ![e] = IF moves /\ to \in Category /\ parent[c] # Absent
                                       THEN "checking" ELSE "writing"]
      /\ doing[e] = "idle" /\ edits < MaxEdits /\ edits' = edits + 1
      /\ parent[c] = Absent => to # Keep
      /\ UNCHANGED <<tree, owes, wrote, held, dirty>>
  <2>. DEFINE what == [cat |-> c, to |-> to, show |-> show]
  <2>1. what.cat = c /\ what.to = to /\ what.show = show
    OBVIOUS
  <2>2. [what EXCEPT !.to = IF moves THEN @ ELSE Keep] = [cat |-> c, to |-> to2, show |-> show]
    OBVIOUS
  <2>3. BeginEdit(e, what)
    OBVIOUS
  <2>. HIDE DEF what
  <2>. QED
    BY <2>1, <2>2, <2>3, Zenon DEF BeginEdit, At, Goes
<1>2. alone' \in [Editor -> BOOLEAN] /\ overlapped' \in BOOLEAN
  BY <1>0 DEF BeginEdit, TypedTree
<1>3. TypedTree'
  BY <1>0, <1>1, <1>2, CategoriesAssumption DEF TypedTree, tree
<1>4. TypedRequests'
  <2>1. to2 \in Category \cup {Root, Keep} /\ show2 \in BOOLEAN \cup {Keep}
    OBVIOUS
  <2>2. doing' \in [Editor -> Stage]
    BY <1>0, <1>1 DEF TypedRequests, Stage
  <2>3. [cat |-> c, to |-> to2, show |-> show] \in Asked /\ [to |-> to2, show |-> show2] \in Piece
    BY <2>1 DEF Asked, Piece
  <2>. HIDE DEF to2, show2
  <2>. QED
    BY <1>0, <1>1, <2>2, <2>3 DEF TypedRequests
<1>5. edit'[e] = [cat |-> c, to |-> to2, show |-> show] /\ news'[e] = [to |-> to2, show |-> show2]
      /\ doing'[e] \in {"checking", "writing"} /\ OthersRest(e)
  <2>. HIDE DEF to2, show2
  <2>. QED
    BY <1>0, <1>1 DEF TypedRequests, OthersRest
<1>6. held[e] = {} /\ DOMAIN owes[e] = {} /\ InOrder(e)
  BY <1>0, <1>1 DEF EditsInOrder, InOrder
<1>7. DOMAIN wrote[e] = {}
  BY <1>0, <1>6 DEF TypedEdit
<1>8. parent' = parent /\ owes' = owes /\ wrote' = wrote /\ held' = held
  BY <1>1 DEF tree
<1>9. (show = Keep => show2 = Keep) /\ (parent[c] = Absent => to2 # Keep)
  BY <1>1, CategoriesAssumption
<1>10. InOrder(e)' /\ TypedEdit(e)'
  <2>. HIDE DEF to2, show2
  <2>. QED
    BY <1>5, <1>6, <1>7, <1>8, <1>9 DEF InOrder, Moves, Recomputes, TypedEdit
<1>. HIDE DEF to2, show2
<1>. QED
  BY <1>0, <1>3, <1>4, <1>5, <1>6, <1>8, <1>10, OneEditSteps DEF EditsInOrder, NoRowLeaves

LEMMA TypesFinish ==
    ASSUME TypesHold, NEW e \in Editor, Finished(e), NoRowLeaves, TypedTree'
    PROVE  TypesHold'
<1>1. TypedRequests /\ EditsInOrder /\ edit[e] \in Asked /\ InOrder(e)
  BY TypesParts DEF TypesHold, TypedRequests, EditsInOrder
<1>. DEFINE kept == [edit[e] EXCEPT !.to = Keep, !.show = Keep]
<1>2. kept \in Asked /\ kept.cat = edit[e].cat /\ kept.to = Keep /\ kept.show = Keep
  BY <1>1 DEF Asked
<1>3. /\ doing' = [doing EXCEPT ![e] = "idle"]
      /\ edit' = [edit EXCEPT ![e] = kept]
      /\ news' = [news EXCEPT ![e] = [to |-> Keep, show |-> Keep]]
      /\ owes' = [owes EXCEPT ![e] = Nothing] /\ wrote' = [wrote EXCEPT ![e] = Nothing]
      /\ held' = [held EXCEPT ![e] = {}]
  BY DEF Finished, Goes
<1>. HIDE DEF kept
<1>4. TypedRequests' /\ OthersRest(e)
  BY <1>1, <1>2, <1>3 DEF TypedRequests, Stage, Piece, OthersRest
<1>5. /\ doing'[e] = "idle" /\ edit'[e] = kept /\ news'[e] = [to |-> Keep, show |-> Keep]
      /\ owes'[e] = Nothing /\ wrote'[e] = Nothing /\ held'[e] = {}
      /\ DOMAIN owes' = Editor /\ DOMAIN wrote' = Editor /\ DOMAIN held' = Editor
  BY <1>1, <1>3 DEF TypedRequests, EditsInOrder
<1>6. InOrder(e)' /\ TypedEdit(e)'
  BY <1>2, <1>5 DEF InOrder, TypedEdit, Moves, Recomputes, Nothing
<1>. QED
  BY <1>4, <1>5, <1>6, OneEditSteps

LEMMA TypesCheck ==
    ASSUME TypesHold, NEW e \in Editor, CheckMove(e)
    PROVE  TypesHold'
<1>1. TypedTree /\ TypedRequests /\ EditsInOrder /\ InOrder(e) /\ TypedEdit(e) /\ NoRowTwice
  BY TypesParts DEF TypesHold, EditsInOrder
<1>2. TypedTree' /\ NoRowLeaves
  BY <1>1 DEF CheckMove, TypedTree, tree, ghosts, NoRowLeaves
<1>3. CASE Finished(e)
  BY <1>2, <1>3, TypesFinish
<1>4. CASE ~Finished(e)
  <2>1. /\ UNCHANGED <<tree, edit, news, owes, wrote, held>> /\ doing[e] = "checking"
        /\ \E to \in {"writing", "stuck"} : doing' = [doing EXCEPT ![e] = to]
    BY <1>4 DEF CheckMove, At, Goes
  <2>2. TypedRequests' /\ OthersRest(e)
    BY <1>1, <2>1 DEF TypedRequests, Stage, OthersRest
  <2>3. InOrder(e)' /\ TypedEdit(e)'
    BY <1>1, <2>1 DEF InOrder, TypedEdit, Moves, Recomputes, tree, TypedRequests
  <2>. QED
    BY <1>1, <1>2, <2>1, <2>2, <2>3, OneEditSteps DEF EditsInOrder, NoRowTwice
<1>. QED
  BY <1>3, <1>4

LEMMA TypesFlush ==
    ASSUME TypesHold, NEW e \in Editor, Flush(e)
    PROVE  TypesHold'
<1>. DEFINE c == edit[e].cat
<1>1. TypedTree /\ TypedRequests /\ EditsInOrder /\ InOrder(e) /\ TypedEdit(e) /\ c \in Category
  BY TypesParts DEF TypesHold, EditsInOrder, TypedRequests, Asked
<1>2. /\ UNCHANGED <<tree, edit, news, owes, edits, ghosts>> /\ doing[e] = "writing" /\ Free(e, c)
      /\ doing' = [doing EXCEPT ![e] = IF Recomputes(e) THEN "recomputing" ELSE "committing"]
      /\ held' = [held EXCEPT ![e] = IF news[e] = [to |-> Keep, show |-> Keep] THEN @ ELSE {c}]
      /\ wrote' = [wrote EXCEPT ![e] = IF parent[c] = Absent THEN [x \in {c} |-> TRUE] ELSE @]
  BY DEF Flush, At, Goes, Recomputes
<1>3. held[e] = {} /\ DOMAIN wrote[e] = {} /\ DOMAIN owes[e] = {}
  BY <1>1, <1>2 DEF InOrder, TypedEdit
<1>4. TypedTree' /\ NoRowLeaves
  BY <1>1, <1>2 DEF TypedTree, tree, ghosts, NoRowLeaves
<1>5. TypedRequests' /\ OthersRest(e)
  BY <1>1, <1>2 DEF TypedRequests, Stage, OthersRest
<1>6. parent[c] = Absent => news[e] # [to |-> Keep, show |-> Keep] /\ Moves(e)
  BY <1>1, <1>2 DEF InOrder, Moves
<1>7. /\ DOMAIN owes' = Editor /\ DOMAIN wrote' = Editor /\ DOMAIN held' = Editor
      /\ held'[e] \subseteq {c} /\ wrote'[e] \in [DOMAIN wrote'[e] -> BOOLEAN]
      /\ DOMAIN wrote'[e] \subseteq held'[e]
      /\ doing'[e] = IF Recomputes(e) THEN "recomputing" ELSE "committing"
      /\ ~Recomputes(e) => wrote'[e] = wrote[e]
  <2>1. CASE parent[c] = Absent
    BY <1>1, <1>2, <1>6, <2>1 DEF EditsInOrder, TypedRequests, Recomputes
  <2>2. CASE parent[c] # Absent
    BY <1>1, <1>2, <1>3, <2>2 DEF EditsInOrder, TypedRequests, InOrder
  <2>. QED
    BY <2>1, <2>2
<1>8. TypedEdit(e)' /\ InOrder(e)'
  BY <1>1, <1>2, <1>3, <1>7 DEF TypedEdit, InOrder, Moves, Recomputes, tree
<1>9. \A f \in Editor \ {e} : held'[e] \cap held[f] = {}
  BY <1>2, <1>7 DEF Free
<1>. HIDE DEF c
<1>. QED
  BY <1>4, <1>5, <1>7, <1>8, <1>9, OneEditSteps

(* What the tree looks like to an edit is a tree of the same type. *)
LEMMA SeesTyped ==
    ASSUME TypesHold, NEW e \in Editor
    PROVE  /\ SeesParent(e) \in Ups /\ SeesOwn(e) \in [Category -> BOOLEAN]
           /\ \A c \in Category : SeesEffective(e, c) \in BOOLEAN
           /\ \A c \in Category : SeesParent(e)[c] = Absent => parent[c] = Absent
<1>1. TypedTree /\ edit[e] \in Asked /\ news[e] \in Piece /\ InOrder(e) /\ TypedEdit(e)
  BY TypesParts DEF TypesHold, TypedRequests, EditsInOrder
<1>2. SeesParent(e) \in Ups
  BY <1>1 DEF SeesParent, TypedTree, Ups, Piece, Asked
<1>3. SeesOwn(e) \in [Category -> BOOLEAN]
  BY <1>1 DEF SeesOwn, TypedTree, Piece, Asked
<1>4. \A c \in Category : SeesEffective(e, c) \in BOOLEAN
  BY <1>1 DEF SeesEffective, InOrder, TypedEdit, TypedTree
<1>5. \A c \in Category : SeesParent(e)[c] = Absent => parent[c] = Absent
  BY <1>1, CategoriesAssumption DEF SeesParent, TypedTree, Ups, Piece, Asked
<1>. QED
  BY <1>2, <1>3, <1>4, <1>5

LEMMA TypesRecompute ==
    ASSUME TypesHold, NEW e \in Editor, Recompute(e)
    PROVE  TypesHold'
<1>. DEFINE up == SeesParent(e)
            right == [c \in Category |-> Effective(up, SeesOwn(e), c)]
            stale == {d \in Tree(up, edit[e].cat) : SeesEffective(e, d) # right[d]}
<1>1. TypedTree /\ TypedRequests /\ EditsInOrder /\ InOrder(e) /\ TypedEdit(e) /\ NoRowTwice
  BY TypesParts DEF TypesHold, EditsInOrder
<1>2. /\ UNCHANGED <<tree, edit, news, wrote, held, edits, ghosts>> /\ doing[e] = "recomputing"
      /\ doing' = [doing EXCEPT ![e] = "committing"]
      /\ owes' = [owes EXCEPT ![e] = [c \in stale |-> right[c]]]
  BY DEF Recompute, At, Goes
<1>3. TypedTree' /\ NoRowLeaves
  BY <1>1, <1>2 DEF TypedTree, tree, ghosts, NoRowLeaves
<1>4. stale \subseteq Category
  BY DEF Tree, Rows
<1>5. [c \in stale |-> right[c]] \in [stale -> BOOLEAN]
  <2>1. right \in [Category -> BOOLEAN]
    BY DEF Effective
  <2>. HIDE DEF right, stale
  <2>. QED
    BY <1>4, <2>1
<1>. HIDE DEF right, stale
<1>6. TypedRequests' /\ OthersRest(e)
  BY <1>1, <1>2 DEF TypedRequests, Stage, OthersRest
<1>7. /\ doing'[e] = "committing" /\ DOMAIN owes' = Editor
      /\ DOMAIN owes'[e] = stale /\ owes'[e] \in [stale -> BOOLEAN]
  BY <1>1, <1>2, <1>5 DEF TypedRequests, EditsInOrder
<1>8. InOrder(e)' /\ TypedEdit(e)'
  BY <1>1, <1>2, <1>4, <1>7 DEF InOrder, TypedEdit, Moves, Recomputes, tree
<1>. QED
  BY <1>1, <1>2, <1>3, <1>6, <1>7, <1>8, OneEditSteps DEF EditsInOrder, NoRowTwice

LEMMA TypesVisit ==
    ASSUME TypesHold, NEW e \in Editor, NEW c \in Category, VisitRow(e, c)
    PROVE  TypesHold'
<1>. DEFINE wrote2 == IF SeesEffective(e, c) = owes[e][c] THEN wrote[e]
                      ELSE [d \in DOMAIN wrote[e] \cup {c} |-> IF d = c THEN owes[e][c] ELSE wrote[e][d]]
            owes2 == [d \in DOMAIN owes[e] \ {c} |-> owes[e][d]]
<1>1. TypedTree /\ TypedRequests /\ EditsInOrder /\ InOrder(e) /\ TypedEdit(e) /\ NoRowTwice
  BY TypesParts DEF TypesHold, EditsInOrder
<1>2. /\ UNCHANGED <<tree, doing, edit, news, edits, ghosts>>
      /\ doing[e] = "committing" /\ c \in DOMAIN owes[e] /\ Free(e, c)
      /\ held' = [held EXCEPT ![e] = held[e] \cup {c}]
      /\ wrote' = [wrote EXCEPT ![e] = wrote2]
      /\ owes' = [owes EXCEPT ![e] = owes2]
  BY <1>1 DEF VisitRow, At, EditsInOrder
<1>3. wrote2 \in [DOMAIN wrote2 -> BOOLEAN] /\ DOMAIN wrote2 \subseteq DOMAIN wrote[e] \cup {c}
  <2>1. owes[e][c] \in BOOLEAN /\ wrote[e] \in [DOMAIN wrote[e] -> BOOLEAN]
    BY <1>1, <1>2 DEF InOrder
  <2>. QED
    BY <2>1
<1>4. owes2 \in [DOMAIN owes2 -> BOOLEAN] /\ DOMAIN owes2 = DOMAIN owes[e] \ {c}
  BY <1>1 DEF InOrder
<1>. HIDE DEF wrote2, owes2
<1>5. TypedTree' /\ NoRowLeaves /\ TypedRequests'
  BY <1>1, <1>2 DEF TypedTree, tree, ghosts, NoRowLeaves, TypedRequests
<1>6. OthersRest(e) /\ DOMAIN owes' = Editor /\ DOMAIN wrote' = Editor /\ DOMAIN held' = Editor
  BY <1>1, <1>2 DEF OthersRest, EditsInOrder
<1>7. held'[e] = held[e] \cup {c} /\ wrote'[e] = wrote2 /\ owes'[e] = owes2
  BY <1>1, <1>2 DEF EditsInOrder
<1>8. InOrder(e)' /\ TypedEdit(e)'
  <2>1. Recomputes(e) /\ Recomputes(e)' = Recomputes(e) /\ Moves(e)' = Moves(e)
    BY <1>1, <1>2 DEF InOrder, Recomputes, Moves
  <2>. QED
    BY <1>1, <1>2, <1>3, <1>4, <1>7, <2>1 DEF InOrder, TypedEdit, tree
<1>9. \A f \in Editor \ {e} : held'[e] \cap held[f] = {}
  BY <1>1, <1>2, <1>7 DEF Free, NoRowTwice
<1>. QED
  BY <1>5, <1>6, <1>8, <1>9, OneEditSteps

LEMMA TypesCommit ==
    ASSUME TypesHold, NEW e \in Editor, Commit(e)
    PROVE  TypesHold'
<1>1. TypedTree /\ Finished(e)
  BY TypesParts DEF TypesHold, Commit
<1>2. /\ parent' = SeesParent(e) /\ own' = SeesOwn(e)
      /\ effective' = [c \in Category |-> SeesEffective(e, c)]
      /\ UNCHANGED <<edits, overlapped, alone>>
  BY DEF Commit
<1>3. dirty' \in BOOLEAN
  <2>1. dirty' = IF alone[e] /\ Recomputes(e) THEN FALSE ELSE dirty \/ ~alone[e]
    BY DEF Commit, Recomputes
  <2>. QED
    BY <2>1
<1>4. TypedTree' /\ NoRowLeaves
  BY <1>1, <1>2, <1>3, SeesTyped DEF TypedTree, NoRowLeaves
<1>. QED
  BY <1>1, <1>4, TypesFinish

LEMMA TypesAbort ==
    ASSUME TypesHold, NEW e \in Editor, DeadlockAbort(e)
    PROVE  TypesHold'
<1>1. TypedTree
  BY TypesParts DEF TypesHold
<1>2. TypedTree' /\ NoRowLeaves /\ Finished(e)
  BY <1>1 DEF DeadlockAbort, TypedTree, NoRowLeaves, tree, ghosts
<1>. QED
  BY <1>2, TypesFinish

LEMMA TypesStep == TypesHold /\ [TreeNext]_treeVars => TypesHold'
<1>. SUFFICES ASSUME TypesHold, [TreeNext]_treeVars PROVE TypesHold'
  OBVIOUS
<1>1. CASE UNCHANGED treeVars
  BY <1>1 DEF treeVars, tree, requests, ghosts, TypesHold, TreeTypeOK, EditsInOrder, InOrder, Moves, Recomputes
<1>2. CASE TreeNext
  <2>1. PICK e \in Editor :
            \/ \E c \in Category, to \in Category \cup {Root, Keep}, show \in BOOLEAN \cup {Keep} :
                  BeginEdit(e, [cat |-> c, to |-> to, show |-> show])
            \/ Advance(e)
    BY <1>2 DEF TreeNext
  <2>. QED
    BY <2>1, TypesBegin, TypesCheck, TypesFlush, TypesRecompute, TypesVisit, TypesCommit,
       TypesAbort DEF Advance
<1>. QED
  BY <1>1, <1>2

(* Every variable of the tree and of its edits has its type, and no row is *)
(* locked by two edits, whatever edits are under way.                      *)
THEOREM TreeTyped == TreeSpec => []TreeTypeOK
<1>1. TypesHold => TreeTypeOK
  BY DEF TypesHold
<1>. QED
  BY <1>1, TypesAtFirst, TypesStep, PTL DEF TreeSpec

-----------------------------------------------------------------------------
(* No loop without two moves at once. While no two moves have been under   *)
(* way together, the one that is knows the tree as it checked it: nobody   *)
(* else can have put its category above the parent it is to take.          *)
OneMover == \A e, f \in UnderWay : Moves(e) /\ Moves(f) => e = f

ToARow == \A e \in Editor : edit[e].to \in Rows(parent) \cup {Root, Keep}

PastTheCheck == \A e \in UnderWay :
    Moves(e) /\ doing[e] # "checking" => edit[e].cat \notin UpFrom(parent, edit[e].to)

Ranked == \E d : RankedBy(parent, d)

TreeStands == /\ ParentsAreRows(parent) /\ ToARow
              /\ ~overlapped => OneMover /\ PastTheCheck /\ Ranked

LoopIInv == TypesHold /\ TreeStands

LEMMA StandsAtFirst == TreeInit => TreeStands
<1>. SUFFICES ASSUME TreeInit PROVE TreeStands
  OBVIOUS
<1>1. \A c \in Category : parent[c] \notin Category
  BY CategoriesAssumption DEF TreeInit
<1>2. RankedBy(parent, [c \in Category |-> 0])
  BY <1>1 DEF RankedBy
<1>3. ParentsAreRows(parent) /\ ToARow /\ OneMover /\ PastTheCheck
  BY <1>1 DEF ParentsAreRows, ToARow, OneMover, PastTheCheck, UnderWay, TreeInit
<1>. QED
  BY <1>2, <1>3 DEF TreeStands, Ranked

(* A step that writes no parent and lets no edit move that did not, or     *)
(* pass the check, leaves all of it as it was.                             *)
LEMMA StandsKept ==
    ASSUME TreeStands, parent' = parent, overlapped' = overlapped,
           \A f \in Editor : edit'[f].to \in {edit[f].to, Keep},
           \A f \in Editor : f \in UnderWay' /\ Moves(f)' =>
              /\ f \in UnderWay /\ edit'[f] = edit[f]
              /\ doing[f] = "checking" => \/ doing'[f] = "checking"
                                          \/ edit[f].cat \notin UpFrom(parent, edit[f].to)
    PROVE  TreeStands'
<1>1. ParentsAreRows(parent)' /\ ToARow'
  BY DEF TreeStands, ParentsAreRows, ToARow, Rows
<1>2. ASSUME ~overlapped' PROVE OneMover' /\ PastTheCheck' /\ Ranked'
  <2>1. OneMover /\ PastTheCheck /\ Ranked
    BY <1>2 DEF TreeStands
  <2>2. UnderWay' \subseteq Editor
    BY DEF UnderWay
  <2>3. OneMover'
    BY <2>1, <2>2 DEF OneMover, Moves
  <2>4. PastTheCheck'
    <3>. SUFFICES ASSUME NEW f \in UnderWay', Moves(f)', doing'[f] # "checking"
                  PROVE  edit'[f].cat \notin UpFrom(parent', edit'[f].to)
      BY DEF PastTheCheck
    <3>1. f \in UnderWay /\ edit'[f] = edit[f] /\ Moves(f)
      BY <2>2 DEF Moves
    <3>2. edit[f].cat \notin UpFrom(parent, edit[f].to)
      BY <2>1, <2>2, <3>1 DEF PastTheCheck
    <3>. QED
      BY <3>1, <3>2
  <2>5. Ranked'
    BY <2>1 DEF Ranked
  <2>. QED
    BY <2>3, <2>4, <2>5
<1>. QED
  BY <1>1, <1>2 DEF TreeStands

LEMMA StandsBegin ==
    ASSUME LoopIInv, NEW e \in Editor, NEW c \in Category,
           NEW to \in Category \cup {Root, Keep}, NEW show \in BOOLEAN \cup {Keep},
           BeginEdit(e, [cat |-> c, to |-> to, show |-> show])
    PROVE  TreeStands'
<1>. DEFINE moves == to # Keep /\ to # parent[c]
            to2 == IF moves THEN to ELSE Keep
            what == [cat |-> c, to |-> to, show |-> show]
<1>1. TypedTree /\ TypedRequests /\ ParentsAreRows(parent) /\ ToARow
  BY TypesParts DEF LoopIInv, TypesHold, TreeStands
<1>2. /\ edit' = [edit EXCEPT ![e] = [cat |-> c, to |-> to2, show |-> show]]
      /\ doing' = [doing EXCEPT ![e] = IF moves /\ to \in Category /\ parent[c] # Absent
                                       THEN "checking" ELSE "writing"]
      /\ to \in {Root, Keep} \cup Rows(parent)
      /\ overlapped' = (overlapped \/ (moves /\ \E f \in UnderWay : Moves(f)))
      /\ doing[e] = "idle" /\ UNCHANGED tree
  <2>1. what.cat = c /\ what.to = to /\ what.show = show
    OBVIOUS
  <2>2. [what EXCEPT !.to = IF moves THEN @ ELSE Keep] = [cat |-> c, to |-> to2, show |-> show]
    OBVIOUS
  <2>3. BeginEdit(e, what)
    OBVIOUS
  <2>. HIDE DEF what
  <2>. QED
    BY <2>1, <2>2, <2>3, Zenon DEF BeginEdit, At, Goes
<1>3. /\ edit'[e] = [cat |-> c, to |-> to2, show |-> show] /\ parent' = parent
      /\ doing'[e] = IF moves /\ to \in Category /\ parent[c] # Absent THEN "checking" ELSE "writing"
      /\ \A f \in Editor \ {e} : edit'[f] = edit[f] /\ doing'[f] = doing[f]
  <2>. HIDE DEF to2
  <2>. QED
    BY <1>1, <1>2 DEF TypedRequests, tree
<1>4. ParentsAreRows(parent)' /\ ToARow'
  BY <1>1, <1>2, <1>3 DEF ParentsAreRows, ToARow, Rows
<1>5. ASSUME ~overlapped' PROVE OneMover' /\ PastTheCheck' /\ Ranked'
  <2>1. OneMover /\ PastTheCheck /\ Ranked /\ (moves => \A f \in UnderWay : ~Moves(f))
    BY <1>2, <1>5 DEF LoopIInv, TreeStands
  <2>2. UnderWay' \subseteq UnderWay \cup {e} /\ e \notin UnderWay
    BY <1>2, <1>3 DEF UnderWay
  <2>3. /\ Moves(e)' => moves
        /\ \A f \in UnderWay' \ {e} : f \in UnderWay /\ f \in Editor /\ Moves(f)' = Moves(f)
    BY <1>3, <2>2 DEF Moves, UnderWay
  <2>4. OneMover'
    BY <2>1, <2>3 DEF OneMover
  <2>5. PastTheCheck'
    <3>. SUFFICES ASSUME NEW f \in UnderWay', Moves(f)', doing'[f] # "checking"
                  PROVE  edit'[f].cat \notin UpFrom(parent, edit'[f].to)
      BY <1>3 DEF PastTheCheck
    <3>1. CASE f # e
      BY <1>3, <2>1, <2>3, <3>1 DEF PastTheCheck
    <3>2. CASE f = e
      <4>1. moves /\ edit'[e].to = to /\ edit'[e].cat = c
        BY <1>3, <2>3, <3>2
      <4>2. to \notin Category \/ parent[c] = Absent
        BY <1>3, <3>2, <4>1
      <4>3. to \in Rows(parent) \cup {Root}
        BY <1>2, <4>1
      <4>4. CASE to \notin Category
        BY <3>2, <4>1, <4>4, NothingAboveRoot
      <4>5. CASE parent[c] = Absent
        <5>1. UpFrom(parent, to) \subseteq Rows(parent)
          BY <1>1, <4>3, AboveARow DEF TypedTree
        <5>. QED
          BY <3>2, <4>1, <4>5, <5>1 DEF Rows
      <4>. QED
        BY <4>2, <4>4, <4>5
    <3>. QED
      BY <3>1, <3>2
  <2>6. Ranked'
    BY <1>3, <2>1 DEF Ranked
  <2>. QED
    BY <2>4, <2>5, <2>6
<1>. QED
  BY <1>4, <1>5 DEF TreeStands

LEMMA FinishedEffect ==
    ASSUME TypesHold, NEW e \in Editor, Finished(e)
    PROVE  /\ doing'[e] = "idle" /\ edit'[e].to = Keep /\ edit'[e].cat = edit[e].cat
           /\ \A f \in Editor \ {e} : doing'[f] = doing[f] /\ edit'[f] = edit[f]
<1>1. TypedRequests /\ edit[e] \in Asked
  BY TypesParts DEF TypesHold, TypedRequests
<1>. DEFINE kept == [edit[e] EXCEPT !.to = Keep, !.show = Keep]
<1>2. kept.cat = edit[e].cat /\ kept.to = Keep
  BY <1>1 DEF Asked
<1>3. doing' = [doing EXCEPT ![e] = "idle"] /\ edit' = [edit EXCEPT ![e] = kept]
  BY DEF Finished, Goes
<1>. HIDE DEF kept
<1>. QED
  BY <1>1, <1>2, <1>3 DEF TypedRequests

LEMMA StandsFinish ==
    ASSUME LoopIInv, NEW e \in Editor, Finished(e), parent' = parent, overlapped' = overlapped
    PROVE  TreeStands'
<1>1. \A f \in Editor : edit'[f].to \in {edit[f].to, Keep}
  BY FinishedEffect DEF LoopIInv
<1>2. ASSUME NEW f \in Editor, f \in UnderWay'
      PROVE  f \in UnderWay /\ edit'[f] = edit[f] /\ doing'[f] = doing[f]
  BY <1>2, FinishedEffect DEF LoopIInv, UnderWay
<1>. QED
  BY <1>1, <1>2, StandsKept DEF LoopIInv

LEMMA StandsCheck ==
    ASSUME LoopIInv, NEW e \in Editor, CheckMove(e)
    PROVE  TreeStands'
<1>1. parent' = parent /\ overlapped' = overlapped
  BY DEF CheckMove, tree, ghosts
<1>2. CASE Finished(e)
  BY <1>1, <1>2, StandsFinish
<1>3. CASE ~Finished(e)
  <2>1. TypedRequests
    BY TypesParts DEF LoopIInv, TypesHold
  <2>2. /\ edit' = edit /\ doing[e] = "checking" /\ edit[e].cat \notin UpFrom(parent, edit[e].to)
        /\ \E to \in {"writing", "stuck"} : doing' = [doing EXCEPT ![e] = to]
    BY <1>3 DEF CheckMove, At, Goes
  <2>3. \A f \in Editor : /\ f \in UnderWay' => f \in UnderWay
                          /\ f # e => doing'[f] = doing[f]
    BY <2>1, <2>2 DEF TypedRequests, UnderWay
  <2>. QED
    BY <1>1, <2>2, <2>3, StandsKept DEF LoopIInv
<1>. QED
  BY <1>2, <1>3

(* Writing rows is no move, and is past the check. *)
LEMMA StandsWrite ==
    ASSUME LoopIInv, NEW e \in Editor,
           \/ Flush(e) \/ Recompute(e) \/ \E c \in Category : VisitRow(e, c)
    PROVE  TreeStands'
<1>1. TypedRequests
  BY TypesParts DEF LoopIInv, TypesHold
<1>2. parent' = parent /\ overlapped' = overlapped /\ edit' = edit
  BY DEF Flush, Recompute, VisitRow, tree, ghosts
<1>3. \/ doing' = doing
      \/ /\ doing[e] \in {"writing", "recomputing"}
         /\ \E to \in {"recomputing", "committing"} : doing' = [doing EXCEPT ![e] = to]
  BY DEF Flush, Recompute, VisitRow, At, Goes
<1>4. \A f \in Editor : /\ f \in UnderWay' => f \in UnderWay
                        /\ doing[f] = "checking" => doing'[f] = "checking"
  BY <1>1, <1>3 DEF TypedRequests, UnderWay
<1>. QED
  BY <1>2, <1>4, StandsKept DEF LoopIInv

LEMMA StandsCommit ==
    ASSUME LoopIInv, NEW e \in Editor, Commit(e)
    PROVE  TreeStands'
<1>. DEFINE c == edit[e].cat
            to == edit[e].to
<1>1. /\ TypedTree /\ TypedRequests /\ ParentsAreRows(parent) /\ ToARow
      /\ Finished(e) /\ doing[e] = "committing" /\ news[e].to = to /\ c \in Category
      /\ to \in Category \cup {Root, Keep}
  BY TypesParts DEF LoopIInv, TypesHold, TreeStands, Commit, At, EditsInOrder, InOrder,
                    TypedRequests, Asked
<1>2. parent' = IF to = Keep THEN parent ELSE [parent EXCEPT ![c] = to]
  BY <1>1 DEF Commit, SeesParent, TypedTree, Ups
<1>3. overlapped' = overlapped
  BY DEF Commit
<1>4. CASE to = Keep
  BY <1>1, <1>2, <1>3, <1>4, StandsFinish
<1>5. CASE to # Keep
  <2>1. to \in Rows(parent) \cup {Root} /\ to # Absent /\ parent \in Ups
    BY <1>1, <1>5, CategoriesAssumption DEF ToARow, Rows, TypedTree
  <2>2. parent' = [parent EXCEPT ![c] = to] /\ Rows(parent) \subseteq Rows(parent')
    BY <1>1, <1>2, <1>5, <2>1 DEF Rows, Ups
  <2>3. ParentsAreRows(parent')
    <3>1. \A x \in Category : parent'[x] \in {parent[x], to}
      BY <2>1, <2>2 DEF Ups
    <3>2. \A y \in Category : y \in {to} \/ y \in Rows(parent) => y \in Rows(parent')
      BY <2>1, <2>2, CategoriesAssumption
    <3>. QED
      BY <1>1, <3>1, <3>2 DEF ParentsAreRows
  <2>4. ToARow'
    BY <1>1, <2>2, FinishedEffect DEF ToARow, LoopIInv
  <2>5. ASSUME ~overlapped PROVE OneMover' /\ PastTheCheck' /\ Ranked'
    <3>1. OneMover /\ PastTheCheck /\ Ranked /\ Moves(e) /\ e \in UnderWay
      BY <1>1, <1>5, <2>5 DEF LoopIInv, TreeStands, UnderWay, Moves
    <3>2. \A f \in UnderWay' : f \in UnderWay /\ f # e /\ edit'[f] = edit[f]
      BY <1>1, FinishedEffect DEF UnderWay, LoopIInv
    <3>3. \A f \in UnderWay' : ~Moves(f)'
      BY <3>1, <3>2 DEF OneMover, Moves
    <3>4. OneMover' /\ PastTheCheck'
      BY <3>3 DEF OneMover, PastTheCheck
    <3>5. c \notin UpFrom(parent, to)
      BY <1>1, <3>1 DEF PastTheCheck
    <3>6. PICK d : RankedBy(parent, d)
      BY <3>1 DEF Ranked
    <3>7. \E r : RankedBy(parent', r)
      BY <1>1, <2>1, <2>2, <3>5, <3>6, MoveRanked DEF Rows
    <3>. QED
      BY <3>4, <3>7 DEF Ranked
  <2>. QED
    BY <1>3, <2>3, <2>4, <2>5 DEF TreeStands
<1>. QED
  BY <1>4, <1>5

LEMMA LoopStep == LoopIInv /\ [TreeNext]_treeVars => LoopIInv'
<1>. SUFFICES ASSUME LoopIInv, [TreeNext]_treeVars PROVE LoopIInv'
  OBVIOUS
<1>1. TypesHold'
  BY TypesStep DEF LoopIInv
<1>2. CASE UNCHANGED treeVars
  <2>1. /\ parent' = parent /\ overlapped' = overlapped /\ edit' = edit /\ doing' = doing
        /\ UnderWay' = UnderWay
    BY <1>2 DEF treeVars, tree, requests, ghosts, UnderWay
  <2>2. TreeStands'
    BY <2>1, StandsKept DEF LoopIInv
  <2>. QED
    BY <1>1, <2>2 DEF LoopIInv
<1>3. ASSUME NEW e \in Editor, DeadlockAbort(e) PROVE TreeStands'
  BY <1>3, StandsFinish DEF DeadlockAbort, tree, ghosts
<1>4. CASE TreeNext
  <2>1. PICK e \in Editor :
            \/ \E c \in Category, to \in Category \cup {Root, Keep}, show \in BOOLEAN \cup {Keep} :
                  BeginEdit(e, [cat |-> c, to |-> to, show |-> show])
            \/ Advance(e)
    BY <1>4 DEF TreeNext
  <2>. QED
    BY <1>1, <1>3, <2>1, StandsBegin, StandsCheck, StandsWrite, StandsCommit DEF Advance, LoopIInv
<1>. QED
  BY <1>1, <1>2, <1>4 DEF LoopIInv

(* A loop in the tree takes two moves under way at once, whatever the      *)
(* categories, the edits and their number: one move at a time is safe      *)
(* behind _require_no_cycle, whichever edits of other kinds come between   *)
(* its check and its commit.                                               *)
THEOREM LoopNeedsTwo == TreeSpec => []LoopTakesTwo
<1>1. TreeInit => LoopIInv
  BY TypesAtFirst, StandsAtFirst DEF LoopIInv
<1>2. LoopIInv => LoopTakesTwo
  <2>. SUFFICES ASSUME LoopIInv, ~overlapped, NEW c \in Rows(parent) PROVE Hangs(parent, c)
    BY DEF LoopTakesTwo
  <2>1. parent \in Ups /\ ParentsAreRows(parent)
    BY TypesParts DEF LoopIInv, TypesHold, TypedTree, TreeStands
  <2>2. PICK d : RankedBy(parent, d)
    BY DEF LoopIInv, TreeStands, Ranked
  <2>. QED
    BY <2>1, <2>2, RowsHang
<1>. QED
  BY <1>1, <1>2, LoopStep, PTL DEF TreeSpec

-----------------------------------------------------------------------------
(* Stale rows only after an overlap. An edit that has the tree to itself   *)
(* writes what its snapshot showed, and nothing comes between the snapshot *)
(* and its commit: what it owes and what it wrote are right together.      *)
AloneIsAlone == \A e \in UnderWay : alone[e] => UnderWay = {e}

WillShow(e, c) == IF c \in DOMAIN owes[e] THEN owes[e][c] ELSE SeesEffective(e, c)

SetsRight(e) ==
    alone[e] /\ doing[e] = "committing" /\ Recomputes(e) =>
        \A c \in Tree(SeesParent(e), edit[e].cat) :
            WillShow(e, c) = Effective(SeesParent(e), SeesOwn(e), c)

StaleIInv == /\ TypesHold /\ AloneIsAlone /\ StaleNeedsOverlap
             /\ \A e \in Editor : SetsRight(e)

LEMMA StaleAtFirst == TreeInit => StaleIInv
<1>. SUFFICES ASSUME TreeInit PROVE StaleIInv
  OBVIOUS
<1>1. AloneIsAlone /\ \A e \in Editor : SetsRight(e)
  BY DEF TreeInit, AloneIsAlone, UnderWay, SetsRight
<1>2. \A c \in Category : effective[c] = TRUE /\ own[c] = TRUE
  BY DEF TreeInit
<1>3. StaleNeedsOverlap
  BY <1>2 DEF StaleNeedsOverlap, Effective, UpFrom, Rows
<1>. QED
  BY <1>1, <1>3, TypesAtFirst DEF StaleIInv

LEMMA OneUnderWaySteps ==
    ASSUME TypesHold, NEW e \in Editor, Advance(e)
    PROVE  /\ e \in UnderWay /\ UnderWay' \subseteq UnderWay /\ alone' = alone
           /\ OthersRest(e)
<1>1. TypedRequests /\ EditsInOrder
  BY TypesParts DEF TypesHold
<1>2. ASSUME Finished(e) PROVE OthersRest(e) /\ doing'[e] = "idle"
  BY <1>1, <1>2 DEF Finished, Goes, OthersRest, TypedRequests, EditsInOrder
<1>3. CASE CheckMove(e)
  <2>1. e \in UnderWay /\ alone' = alone
    BY <1>3 DEF CheckMove, At, UnderWay, ghosts
  <2>2. OthersRest(e)
    BY <1>1, <1>2, <1>3 DEF CheckMove, Goes, OthersRest, TypedRequests
  <2>. QED
    BY <2>1, <2>2 DEF UnderWay, OthersRest
<1>4. CASE Flush(e)
  BY <1>1, <1>4 DEF Flush, At, Goes, UnderWay, ghosts, OthersRest, TypedRequests, EditsInOrder
<1>5. CASE Recompute(e)
  <2>1. e \in UnderWay /\ alone' = alone
    BY <1>5 DEF Recompute, At, UnderWay, ghosts
  <2>2. OthersRest(e)
    BY <1>1, <1>5 DEF Recompute, Goes, OthersRest, TypedRequests, EditsInOrder
  <2>. QED
    BY <2>1, <2>2 DEF UnderWay, OthersRest
<1>6. CASE Commit(e)
  <2>1. e \in UnderWay /\ alone' = alone /\ OthersRest(e)
    BY <1>2, <1>6 DEF Commit, At, UnderWay
  <2>. QED
    BY <2>1 DEF UnderWay, OthersRest
<1>7. CASE DeadlockAbort(e)
  <2>1. e \in UnderWay
    BY <1>7 DEF DeadlockAbort, WaitsFor, At, UnderWay
  <2>2. alone' = alone /\ OthersRest(e)
    BY <1>2, <1>7 DEF DeadlockAbort, ghosts
  <2>. QED
    BY <2>1, <2>2 DEF UnderWay, OthersRest
<1>8. ASSUME NEW c \in Category, VisitRow(e, c)
      PROVE  e \in UnderWay /\ doing' = doing /\ alone' = alone /\ OthersRest(e)
  BY <1>1, <1>8 DEF VisitRow, At, UnderWay, ghosts, OthersRest, TypedRequests, EditsInOrder
<1>. QED
  BY <1>3, <1>4, <1>5, <1>6, <1>7, <1>8 DEF Advance, UnderWay

(* The snapshot of the whole tree is what makes the answers right. *)
LEMMA SetsRightRecompute ==
    ASSUME TypesHold, NEW e \in Editor, Recompute(e)
    PROVE  SetsRight(e)'
<1>. DEFINE up == SeesParent(e)
            right == [c \in Category |-> Effective(up, SeesOwn(e), c)]
            stale == {d \in Tree(up, edit[e].cat) : SeesEffective(e, d) # right[d]}
<1>1. /\ UNCHANGED <<tree, edit, news, wrote>>
      /\ owes' = [owes EXCEPT ![e] = [c \in stale |-> right[c]]]
  BY DEF Recompute
<1>2. /\ SeesParent(e)' = up /\ SeesOwn(e)' = SeesOwn(e)
      /\ \A c : SeesEffective(e, c)' = SeesEffective(e, c)
  BY <1>1 DEF SeesParent, SeesOwn, SeesEffective, tree
<1>3. stale \subseteq Category /\ Tree(up, edit[e].cat) \subseteq Category
  BY DEF Tree, Rows
<1>4. DOMAIN owes'[e] = stale /\ \A c \in stale : owes'[e][c] = Effective(up, SeesOwn(e), c)
  <2>. HIDE DEF stale
  <2>. QED
    BY <1>1, <1>3 DEF TypesHold, EditsInOrder
<1>5. \A c \in Tree(up, edit[e].cat) \ stale : SeesEffective(e, c) = Effective(up, SeesOwn(e), c)
  BY <1>3
<1>6. edit' = edit
  BY <1>1
<1>. HIDE DEF stale, up
<1>. QED
  BY <1>2, <1>4, <1>5, <1>6 DEF SetsRight, WillShow

LEMMA SetsRightVisit ==
    ASSUME TypesHold, NEW e \in Editor, NEW c \in Category, VisitRow(e, c), SetsRight(e)
    PROVE  SetsRight(e)'
<1>1. /\ UNCHANGED <<tree, doing, edit, news, ghosts>> /\ c \in DOMAIN owes[e]
      /\ doing[e] = "committing"
  BY DEF VisitRow, At
<1>2. /\ owes'[e] = [d \in DOMAIN owes[e] \ {c} |-> owes[e][d]]
      /\ wrote'[e] = IF SeesEffective(e, c) = owes[e][c] THEN wrote[e]
                     ELSE [d \in DOMAIN wrote[e] \cup {c} |-> IF d = c THEN owes[e][c] ELSE wrote[e][d]]
  BY DEF VisitRow, TypesHold, EditsInOrder
<1>3. \A d : WillShow(e, d)' = WillShow(e, d)
  BY <1>1, <1>2 DEF WillShow, SeesEffective, tree
<1>4. /\ SeesParent(e)' = SeesParent(e) /\ SeesOwn(e)' = SeesOwn(e)
      /\ alone' = alone /\ Recomputes(e)' = Recomputes(e) /\ edit' = edit /\ doing' = doing
  BY <1>1 DEF SeesParent, SeesOwn, tree, ghosts, Recomputes, Moves
<1>. QED
  BY <1>3, <1>4 DEF SetsRight

LEMMA StaleCommit ==
    ASSUME StaleIInv, NEW e \in Editor, Commit(e)
    PROVE  StaleNeedsOverlap'
<1>1. /\ TypedTree /\ InOrder(e) /\ SetsRight(e) /\ StaleNeedsOverlap
      /\ doing[e] = "committing" /\ DOMAIN owes[e] = {}
  BY TypesParts DEF StaleIInv, TypesHold, EditsInOrder, Commit, At
<1>2. /\ parent' = SeesParent(e) /\ own' = SeesOwn(e)
      /\ effective' = [c \in Category |-> SeesEffective(e, c)]
      /\ dirty' = IF alone[e] /\ Recomputes(e) THEN FALSE ELSE dirty \/ ~alone[e]
  BY DEF Commit, Recomputes
<1>3. CASE alone[e] /\ Recomputes(e)
  <2>1. \A c \in Tree(SeesParent(e), edit[e].cat) :
            SeesEffective(e, c) = Effective(SeesParent(e), SeesOwn(e), c)
    BY <1>1, <1>3 DEF SetsRight, WillShow
  <2>2. \A c \in Rows(parent') : Hangs(parent', c) => effective'[c] = Effective(parent', own', c)
    BY <1>2, <2>1 DEF Tree, Rows
  <2>. QED
    BY <2>2 DEF StaleNeedsOverlap
<1>4. CASE ~(alone[e] /\ Recomputes(e)) /\ ~dirty'
  <2>1. ~dirty /\ alone[e] /\ ~Recomputes(e)
    BY <1>2, <1>4
  <2>2. news[e].to = Keep /\ news[e].show = Keep /\ DOMAIN wrote[e] = {}
    BY <1>1, <2>1 DEF InOrder, Recomputes, Moves
  <2>3. parent' = parent /\ own' = own
    BY <1>1, <1>2, <2>2 DEF SeesParent, SeesOwn, TypedTree, Ups
  <2>4. effective' = effective
    BY <1>1, <1>2, <2>2 DEF SeesEffective, TypedTree
  <2>. QED
    BY <1>1, <2>1, <2>3, <2>4 DEF StaleNeedsOverlap
<1>. QED
  BY <1>3, <1>4 DEF StaleNeedsOverlap

LEMMA StaleStep == StaleIInv /\ [TreeNext]_treeVars => StaleIInv'
<1>. SUFFICES ASSUME StaleIInv, [TreeNext]_treeVars PROVE StaleIInv'
  OBVIOUS
<1>0. TypesHold /\ TypesHold'
  BY TypesStep DEF StaleIInv
<1>1. CASE UNCHANGED treeVars
  <2>1. UnderWay' = UnderWay /\ \A e \in Editor : SetsRight(e)' = SetsRight(e)
    BY <1>1 DEF treeVars, tree, requests, ghosts, UnderWay, SetsRight, WillShow, SeesEffective,
                SeesParent, SeesOwn, Recomputes, Moves
  <2>. QED
    BY <1>0, <1>1, <2>1 DEF StaleIInv, AloneIsAlone, StaleNeedsOverlap, treeVars, tree, ghosts
<1>2. ASSUME NEW e \in Editor, Advance(e) PROVE StaleIInv'
  <2>1. e \in UnderWay /\ UnderWay' \subseteq UnderWay /\ alone' = alone /\ OthersRest(e)
    BY <1>0, <1>2, OneUnderWaySteps
  <2>2. AloneIsAlone'
    BY <2>1 DEF AloneIsAlone, StaleIInv
  <2>3. ASSUME NEW f \in Editor PROVE SetsRight(f)'
    <3>. SUFFICES ASSUME alone'[f], doing'[f] = "committing", Recomputes(f)' PROVE SetsRight(f)'
      BY DEF SetsRight
    <3>1. f = e
      <4>. SUFFICES ASSUME f # e PROVE FALSE
        OBVIOUS
      <4>1. doing[f] = "committing" /\ alone[f]
        BY <2>1 DEF OthersRest
      <4>2. f \in UnderWay
        BY <4>1 DEF UnderWay
      <4>. QED
        BY <2>1, <4>1, <4>2 DEF AloneIsAlone, StaleIInv
    <3>2. CASE Recompute(e)
      BY <1>0, <3>1, <3>2, SetsRightRecompute
    <3>3. ASSUME NEW c \in Category, VisitRow(e, c) PROVE SetsRight(f)'
      BY <1>0, <3>1, <3>3, SetsRightVisit DEF StaleIInv
    <3>4. ASSUME Finished(e) PROVE FALSE
      BY <1>0, <3>1, <3>4, FinishedEffect
    <3>5. ASSUME CheckMove(e) PROVE FALSE
      <4>1. \E to \in {"writing", "stuck"} : doing' = [doing EXCEPT ![e] = to]
        BY <3>4, <3>5 DEF CheckMove, Goes
      <4>. QED
        BY <1>0, <3>1, <4>1, TypesParts DEF TypesHold, TypedRequests
    <3>6. ASSUME Flush(e) PROVE FALSE
      <4>1. doing'[e] = (IF Recomputes(e) THEN "recomputing" ELSE "committing") /\ edit' = edit
        BY <1>0, <3>6, TypesParts DEF TypesHold, TypedRequests, Flush, Goes, Recomputes
      <4>. QED
        BY <3>1, <4>1 DEF Recomputes, Moves
    <3>. QED
      BY <1>2, <3>2, <3>3, <3>4, <3>5, <3>6 DEF Advance, Commit, DeadlockAbort
  <2>4. StaleNeedsOverlap'
    <3>1. CASE Commit(e)
      BY <3>1, StaleCommit
    <3>2. CASE ~Commit(e)
      <4>1. UNCHANGED <<tree, dirty>>
        BY <1>2, <3>2 DEF Advance, CheckMove, Flush, Recompute, VisitRow, DeadlockAbort, ghosts
      <4>. QED
        BY <4>1 DEF StaleNeedsOverlap, StaleIInv, tree
    <3>. QED
      BY <3>1, <3>2
  <2>. QED
    BY <1>0, <2>2, <2>3, <2>4 DEF StaleIInv
<1>3. ASSUME NEW e \in Editor, NEW c \in Category,
             NEW to \in Category \cup {Root, Keep}, NEW show \in BOOLEAN \cup {Keep},
             BeginEdit(e, [cat |-> c, to |-> to, show |-> show])
      PROVE  StaleIInv'
  <2>1. /\ alone' = [f \in Editor |-> IF f = e THEN UnderWay = {} ELSE FALSE]
        /\ UNCHANGED <<tree, dirty>>
        /\ \E stage \in {"checking", "writing"} : doing' = [doing EXCEPT ![e] = stage]
    BY <1>3 DEF BeginEdit, Goes
  <2>2. doing'[e] \in {"checking", "writing"} /\ \A f \in Editor \ {e} : doing'[f] = doing[f]
    BY <1>0, <2>1, TypesParts DEF TypesHold, TypedRequests
  <2>3. AloneIsAlone'
    BY <2>1, <2>2 DEF AloneIsAlone, UnderWay
  <2>4. \A f \in Editor : SetsRight(f)'
    BY <2>1, <2>2 DEF SetsRight
  <2>5. StaleNeedsOverlap'
    BY <2>1 DEF StaleNeedsOverlap, StaleIInv, tree
  <2>. QED
    BY <1>0, <2>3, <2>4, <2>5 DEF StaleIInv
<1>. QED
  BY <1>1, <1>2, <1>3 DEF TreeNext

(* Recomputing the whole tree leaves nothing stale behind but where edits  *)
(* overlapped, and the next edit that has the tree to itself makes all of  *)
(* it right, for any tree and any number of edits.                         *)
THEOREM NothingStale == TreeSpec => []StaleNeedsOverlap
<1>1. StaleIInv => StaleNeedsOverlap
  BY DEF StaleIInv
<1>. QED
  BY <1>1, StaleAtFirst, StaleStep, PTL DEF TreeSpec

-----------------------------------------------------------------------------
(* Whose product a listing is.                                             *)

AtMostOne(S) == \E x : S \subseteq {x}
RowTypes == [why : {"none", "ambiguous", "unknown", "unmatched", "several"}, among : SUBSET Maker]

(* A listing sits on one entry at most, which is there, and waits between  *)
(* several makers.                                                         *)
SeatsIn(s, es) ==
    /\ s \in [sits : [Stock -> SUBSET es], row : [Stock -> RowTypes]]
    /\ \A l \in Stock : /\ AtMostOne(s.sits[l])
                        /\ s.row[l].why = "ambiguous" => Cardinality(s.row[l].among) > 1

(* No question has two answers, and a pass asks for listings of its own.   *)
ToldOnce == \A a, b \in told : a.q = b.q => a = b

MakersInv == SeatsIn(Seats, makes) /\ IsFiniteSet(makes) /\ ToldOnce /\ turns \in 0 .. MaxTurns

LEMMA OneMember ==
    ASSUME NEW S, IsFiniteSet(S)
    PROVE  /\ Cardinality(S) = 1 => \E x \in S : S = {x}
           /\ S # {} /\ Cardinality(S) # 1 => Cardinality(S) > 1
           /\ AtMostOne(S) => Cardinality(S) <= 1
<1>1. Cardinality(S) \in Nat /\ (Cardinality(S) = 0 <=> S = {})
  BY FS_CardinalityType, FS_EmptySet
<1>2. Cardinality(S) = 1 => \E x \in S : S = {x}
  BY FS_Singleton
<1>3. ASSUME AtMostOne(S) PROVE Cardinality(S) <= 1
  <2>1. PICK x : S \subseteq {x}
    BY <1>3 DEF AtMostOne
  <2>2. S = {} \/ S = {x}
    BY <2>1
  <2>. QED
    BY <1>1, <2>2, FS_Singleton
<1>. QED
  BY <1>1, <1>2, <1>3

LEMMA Titled ==
    /\ \A words : \A x \in NamedBy(words) : x \in Maker /\ NamedBy(words) = {x}
    /\ \A l : \A x \in FromTitle(l) : x \in Maker /\ FromTitle(l) = {x}
<1>1. ASSUME NEW S \in SUBSET Maker, Cardinality(S) = 1, NEW x \in S PROVE S = {x}
  <2>1. IsFiniteSet(S)
    BY MakersAssumption, FS_Subset
  <2>. QED
    BY <1>1, <2>1, OneMember
<1>2. ASSUME NEW words, NEW x \in NamedBy(words) PROVE x \in Maker /\ NamedBy(words) = {x}
  <2>. DEFINE two == IF Len(words) < 2 THEN {} ELSE Bearers(SubSeq(words, 1, 2))
              one == IF words = <<>> THEN {} ELSE Bearers(SubSeq(words, 1, 1))
  <2>1. two \in SUBSET Maker /\ one \in SUBSET Maker
    BY DEF Bearers
  <2>2. NamedBy(words) = CASE Cardinality(two) = 1 -> two
                           [] Cardinality(two) # 1 /\ Cardinality(one) = 1 -> one
                           [] OTHER -> {}
    BY DEF NamedBy
  <2>. HIDE DEF one, two
  <2>3. \/ NamedBy(words) = two /\ Cardinality(two) = 1
        \/ NamedBy(words) = one /\ Cardinality(one) = 1
    BY <1>2, <2>2
  <2>. QED
    BY <1>1, <1>2, <2>1, <2>3
<1>3. ASSUME NEW l, NEW x \in FromTitle(l) PROVE x \in Maker /\ FromTitle(l) = {x}
  <2>1. \/ \E words : FromTitle(l) = NamedBy(words)
        \/ FromTitle(l) = NamedIn(Heading[l]) /\ Cardinality(NamedIn(Heading[l])) = 1
    BY <1>3 DEF FromTitle
  <2>2. NamedIn(Heading[l]) \in SUBSET Maker
    BY <1>2 DEF NamedIn
  <2>. QED
    BY <1>1, <1>2, <1>3, <2>1, <2>2
<1>. QED
  BY <1>2, <1>3

(* What is looked up is one maker, or a question between several. *)
Answer(found, l) ==
    /\ found.maker \in SUBSET Maker /\ (\A x \in found.maker : found.maker = {x})
    /\ found.among \in SUBSET Maker
    /\ found.state \in {"resolved", "none_given", "unknown", "judged_none", "ambiguous"}
    /\ found.state = "ambiguous" => Cardinality(found.among) > 1

LEMMA LookupAnswers ==
    ASSUME NEW l, NEW es, NEW answers
    PROVE  Answer(Lookup(l, es, answers), l)
<1>. DEFINE heard  == Bearers(Field[l])
            titled == FromTitle(l)
            choice == ChoiceOf(answers, QuestionOf(l, heard, es))
            None(state) == [maker |-> {}, state |-> state, among |-> {}]
            Found(bs)   == [maker |-> bs, state |-> "resolved", among |-> {}]
            found == Lookup(l, es, answers)
<1>1. heard \in SUBSET Maker /\ IsFiniteSet(heard)
  BY MakersAssumption, FS_Subset DEF Bearers
<1>2. /\ \A x \in titled : x \in Maker /\ titled = {x}
      /\ Cardinality(heard) = 1 => \E x \in heard : heard = {x}
      /\ heard # {} /\ Cardinality(heard) # 1 => Cardinality(heard) > 1
  BY <1>1, Titled, OneMember
<1>3. \/ Cardinality(heard) = 1 /\ found = Found(heard)
      \/ heard = {} /\ found = Found(titled)
      \/ heard = {} /\ found = None(IF Field[l] = <<>> THEN "none_given" ELSE "unknown")
      \/ /\ heard # {} /\ Cardinality(heard) # 1
         /\ found = IF choice \in Maker THEN Found({choice})
                    ELSE [None(IF choice = "neither" THEN "judged_none" ELSE "ambiguous")
                            EXCEPT !.among = heard]
  BY DEF Lookup
<1>. HIDE DEF heard, titled, choice, found
<1>4. Answer(found, l)
  BY <1>1, <1>2, <1>3 DEF Answer
<1>. QED
  BY <1>4 DEF found

LEMMA PlacingSeats ==
    ASSUME NEW es, IsFiniteSet(es), NEW l \in Stock, NEW answers, NEW s, SeatsIn(s, es)
    PROVE  SeatsIn(Placing(s, l, es, answers), es)
<1>. DEFINE found == Lookup(l, es, answers)
            named == {e \in es : e.model = Designation[l] /\ e.maker \in found.maker}
<1>1. Answer(found, l)
  BY LookupAnswers
<1>2. named \in SUBSET es /\ IsFiniteSet(named)
  BY FS_Subset
<1>3. Placing(s, l, es, answers) =
        IF Cardinality(named) = 1
        THEN [sits |-> [s.sits EXCEPT ![l] = named], row |-> [s.row EXCEPT ![l] = NotWaiting]]
        ELSE [s EXCEPT !.row[l] = IF named = {} THEN Why(found)
                                  ELSE [why |-> "several", among |-> {}]]
  BY DEF Placing
<1>. HIDE DEF named, found
<1>4. Why(found) \in RowTypes /\ (Why(found).why = "ambiguous" => Cardinality(Why(found).among) > 1)
  BY <1>1 DEF Why, Answer, RowTypes
<1>5. CASE Cardinality(named) = 1
  <2>1. AtMostOne(named)
    BY <1>2, <1>5, OneMember DEF AtMostOne
  <2>. QED
    BY <1>2, <1>3, <1>5, <2>1 DEF SeatsIn, NotWaiting, RowTypes
<1>6. CASE Cardinality(named) # 1
  <2>. DEFINE r == IF named = {} THEN Why(found) ELSE [why |-> "several", among |-> {}]
  <2>1. r \in RowTypes /\ (r.why = "ambiguous" => Cardinality(r.among) > 1)
    BY <1>4 DEF RowTypes
  <2>2. Placing(s, l, es, answers) = [s EXCEPT !.row = [s.row EXCEPT ![l] = r]]
    BY <1>3, <1>6
  <2>. HIDE DEF r
  <2>. QED
    BY <2>1, <2>2 DEF SeatsIn
<1>. QED
  BY <1>5, <1>6

LEMMA MakersAtFirst == MakersInit => MakersInv
<1>. SUFFICES ASSUME MakersInit PROVE MakersInv
  OBVIOUS
<1>1. SeatsIn(Seats, makes)
  BY DEF MakersInit, SeatsIn, Seats, RowTypes, NotWaiting, AtMostOne
<1>. QED
  BY <1>1, MakersAssumption DEF MakersInit, MakersInv, ToldOnce

LEMMA MoreEntries ==
    ASSUME NEW s, NEW es, NEW more, es \subseteq more, SeatsIn(s, es)
    PROVE  SeatsIn(s, more)
BY DEF SeatsIn

LEMMA StepPeople ==
    ASSUME MakersInv,
           \/ \E a \in AliasNew : TurnAlias(a)
           \/ \E e \in EntryNew : Entered(e)
           \/ \E e \in makes, l \in Stock : Refiled(e, Shelf[l])
    PROVE  MakersInv'
<1>1. turns < MaxTurns /\ turns' = turns + 1 /\ row' = row /\ told' = told
  BY DEF TurnAlias, Entered, Refiled
<1>2. ToldOnce' /\ turns' \in 0 .. MaxTurns
  BY <1>1, MakersAssumption DEF MakersInv, ToldOnce
<1>3. ASSUME sits' = sits, NEW e, makes' = makes \/ makes' = makes \cup {e} PROVE MakersInv'
  <2>1. IsFiniteSet(makes') /\ makes \subseteq makes'
    BY <1>3, FS_AddElement DEF MakersInv
  <2>2. Seats' = Seats
    BY <1>1, <1>3 DEF Seats
  <2>. QED
    BY <1>2, <2>1, <2>2, MoreEntries DEF MakersInv
<1>4. ASSUME NEW e \in makes, NEW new, makes' = (makes \ {e}) \cup {new},
             sits' = [l \in Stock |-> IF sits[l] = {e} THEN {new} ELSE sits[l]]
      PROVE  MakersInv'
  <2>1. IsFiniteSet(makes')
    BY <1>4, FS_AddElement, FS_RemoveElement DEF MakersInv
  <2>2. \A l \in Stock : AtMostOne(sits[l]) /\ sits[l] \subseteq makes
    BY DEF MakersInv, SeatsIn, Seats
  <2>3. ASSUME NEW l \in Stock PROVE AtMostOne(sits'[l]) /\ sits'[l] \subseteq makes'
    <3>1. PICK x : sits[l] \subseteq {x}
      BY <2>2 DEF AtMostOne
    <3>2. CASE sits[l] = {e}
      BY <1>4, <3>2 DEF AtMostOne
    <3>3. CASE sits[l] # {e}
      <4>1. e \notin sits[l]
        BY <3>1, <3>3
      <4>. QED
        BY <1>4, <2>2, <3>3, <4>1
    <3>. QED
      BY <3>2, <3>3
  <2>4. SeatsIn(Seats, makes)'
    BY <1>1, <1>4, <2>3 DEF MakersInv, SeatsIn, Seats
  <2>. QED
    BY <1>2, <2>1, <2>4 DEF MakersInv
<1>5. CASE \E a \in AliasNew : TurnAlias(a)
  BY <1>3, <1>5 DEF TurnAlias
<1>6. CASE \E e \in EntryNew : Entered(e)
  BY <1>3, <1>6 DEF Entered
<1>7. CASE \E e \in makes, l \in Stock : Refiled(e, Shelf[l])
  BY <1>4, <1>7 DEF Refiled
<1>. QED
  BY <1>5, <1>6, <1>7

LEMMA StepTries ==
    ASSUME MakersInv, NEW l \in Stock, Retry(l) \/ MakeEntry(l)
    PROVE  MakersInv'
<1>1. told' = told /\ turns' = turns
  BY DEF Retry, MakeEntry
<1>2. ASSUME NEW es, IsFiniteSet(es), makes' = es, NEW s, SeatsIn(s, es), Write(s) PROVE MakersInv'
  <2>1. Seats' = s
    BY <1>2 DEF Write, Seats, SeatsIn
  <2>. QED
    BY <1>1, <1>2, <2>1 DEF MakersInv, ToldOnce
<1>3. SeatsIn(Placing(Seats, l, makes, told), makes)
  BY PlacingSeats DEF MakersInv
<1>4. CASE Retry(l)
  BY <1>2, <1>3, <1>4 DEF Retry, MakersInv
<1>5. CASE MakeEntry(l)
  <2>. DEFINE tried == Placing(Seats, l, makes, told)
              b     == CHOOSE x \in Lookup(l, makes, told).maker : TRUE
              es    == makes \cup {EntryFrom(b, l)}
  <2>1. \/ Write(tried) /\ makes' = makes
        \/ makes' = es /\ Write(Placing(tried, l, es, told))
    BY <1>5 DEF MakeEntry
  <2>2. IsFiniteSet(es) /\ makes \subseteq es
    BY FS_AddElement DEF MakersInv
  <2>. HIDE DEF tried, es
  <2>3. SeatsIn(tried, makes)
    BY <1>3 DEF tried
  <2>4. SeatsIn(Placing(tried, l, es, told), es)
    BY <2>2, <2>3, MoreEntries, PlacingSeats
  <2>. QED
    BY <1>2, <2>1, <2>2, <2>3, <2>4 DEF MakersInv
<1>. QED
  BY <1>4, <1>5

(* The end of a pass that was told the answers in new. *)
EndsWith(new) ==
    LET store == told \cup new
        acted == {l \in DOMAIN pass.asks : ChoiceOf(store, pass.asks[l]) # "unsure"}
        again == [l \in acted |-> Placing(Seats, l, makes, store)]
        of(f, l) == IF l \in acted THEN again[l][f][l] ELSE Seats[f][l]
    IN  /\ told' = store
        /\ Write([sits |-> [l \in Stock |-> of("sits", l)], row |-> [l \in Stock |-> of("row", l)]])

LEMMA StepPass ==
    ASSUME MakersInv, OpenPass \/ ClosePass
    PROVE  MakersInv'
<1>1. CASE OpenPass
  BY <1>1 DEF OpenPass, MakersInv, Seats, ToldOnce
<1>2. CASE ClosePass
  <2>. DEFINE asked == {pass.asks[l] : l \in Unheld(pass.asks)}
  <2>1. \A q \in asked : ~Known(told, q)
    BY DEF Unheld
  <2>2. \E new : /\ EndsWith(new)
                 /\ \A c \in new : c.q \in asked
                 /\ \A a, c \in new : a.q = c.q => a = c
    <3>1. PICK failed \in SUBSET asked :
           \E picks \in [asked \ failed -> Picks \cup {"neither", "unsure"}] :
             /\ \A q \in asked \ failed :
                   picks[q] \in Maker => \E o \in q.options : o[1] = picks[q]
             /\ EndsWith({[q |-> q, choice |-> picks[q]] : q \in asked \ failed})
      BY <1>2 DEF ClosePass, EndsWith
    <3>2. PICK picks \in [asked \ failed -> Picks \cup {"neither", "unsure"}] :
             EndsWith({[q |-> q, choice |-> picks[q]] : q \in asked \ failed})
      BY <3>1
    <3>. DEFINE new == {[q |-> q, choice |-> picks[q]] : q \in asked \ failed}
    <3>3. EndsWith(new)
      BY <3>2
    <3>4. (\A c \in new : c.q \in asked) /\ \A a, c \in new : a.q = c.q => a = c
      OBVIOUS
    <3>. HIDE DEF new, asked
    <3>. QED
      BY <3>3, <3>4
  <2>. HIDE DEF asked
  <2>3. PICK new : /\ EndsWith(new)
                   /\ \A c \in new : ~Known(told, c.q)
                   /\ \A a, c \in new : a.q = c.q => a = c
    BY <2>1, <2>2
  <2>4. makes' = makes /\ turns' = turns
    BY <1>2 DEF ClosePass
  <2>5. ToldOnce'
    <3>1. told' = told \cup new /\ \A a \in told, c \in new : a.q # c.q
      BY <2>3 DEF EndsWith, Known
    <3>. QED
      BY <2>3, <3>1 DEF MakersInv, ToldOnce
  <2>6. SeatsIn(Seats, makes)'
    <3>1. \A l \in Stock : SeatsIn(Placing(Seats, l, makes, told'), makes)
      BY PlacingSeats DEF MakersInv
    <3>2. PICK acted : 
             /\ sits' = [l \in Stock |-> IF l \in acted THEN Placing(Seats, l, makes, told').sits[l]
                                                        ELSE sits[l]]
             /\ row'  = [l \in Stock |-> IF l \in acted THEN Placing(Seats, l, makes, told').row[l]
                                                        ELSE row[l]]
      BY <2>3 DEF EndsWith, Write, Seats
    <3>. QED
      BY <2>4, <3>1, <3>2 DEF MakersInv, SeatsIn, Seats
  <2>. QED
    BY <2>4, <2>5, <2>6 DEF MakersInv
<1>. QED
  BY <1>1, <1>2

LEMMA MakersHolds == MakersSpec => []MakersInv
<1>1. ASSUME MakersInv, [MakersNext]_makerVars PROVE MakersInv'
  <2>1. CASE UNCHANGED makerVars
    BY <1>1, <2>1 DEF makerVars, MakersInv, Seats, ToldOnce
  <2>. QED
    BY <1>1, <2>1, StepPeople, StepTries, StepPass DEF MakersNext
<1>. QED
  BY <1>1, MakersAtFirst, PTL DEF MakersSpec

(* Each listing sits on one entry at most, which is there, waits for one   *)
(* of the reasons named and between several makers where it says so, and   *)
(* no question has two answers.                                            *)
THEOREM MakersTyped == MakersSpec => []MakersTypeOK
<1>1. MakersInv => MakersTypeOK
  <2>. SUFFICES ASSUME MakersInv PROVE MakersTypeOK
    OBVIOUS
  <2>1. ASSUME NEW l \in Stock PROVE Cardinality(sits[l]) <= 1 /\ sits[l] \subseteq makes
    <3>1. sits[l] \in SUBSET makes /\ AtMostOne(sits[l]) /\ IsFiniteSet(makes)
      BY DEF MakersInv, SeatsIn, Seats
    <3>. QED
      BY <3>1, FS_Subset, OneMember
  <2>2. \A l \in Stock : /\ row[l].why \in {"none", "ambiguous", "unknown", "unmatched", "several"}
                         /\ row[l].why = "ambiguous" => Cardinality(row[l].among) > 1
    BY DEF MakersInv, SeatsIn, Seats, RowTypes
  <2>. QED
    BY <2>1, <2>2 DEF MakersTypeOK, MakersInv, ToldOnce
<1>. QED
  BY <1>1, MakersHolds, PTL

(* An entry of one maker changes the question only where the maker had     *)
(* none in that category.                                                  *)
LEMMA SameQuestion ==
    ASSUME NEW l, NEW b, NEW among, NEW es, \E f \in es : f.maker = b /\ f.category = Shelf[l]
    PROVE  QuestionOf(l, among, es \cup {EntryFrom(b, l)}) = QuestionOf(l, among, es)
<1>1. EntryFrom(b, l).maker = b /\ EntryFrom(b, l).category = Shelf[l]
  BY DEF EntryFrom
<1>2. \A x : Described(x, es \cup {EntryFrom(b, l)}) = Described(x, es)
  BY <1>1 DEF Described
<1>. QED
  BY <1>2 DEF QuestionOf

(* ... and is not asked at all where the maker is stated.                  *)
LEMMA SameLookup ==
    ASSUME NEW l, NEW es, NEW more, NEW answers,
           \/ ~(Cardinality(Bearers(Field[l])) > 1)
           \/ QuestionOf(l, Bearers(Field[l]), more) = QuestionOf(l, Bearers(Field[l]), es)
    PROVE  Lookup(l, more, answers) = Lookup(l, es, answers)
<1>1. IsFiniteSet(Bearers(Field[l]))
  BY MakersAssumption, FS_Subset DEF Bearers
<1>2. CASE QuestionOf(l, Bearers(Field[l]), more) = QuestionOf(l, Bearers(Field[l]), es)
  BY <1>2 DEF Lookup
<1>3. CASE Cardinality(Bearers(Field[l])) = 1
  BY <1>3 DEF Lookup
<1>4. CASE Bearers(Field[l]) = {}
  BY <1>4, FS_EmptySet DEF Lookup
<1>. QED
  BY <1>1, <1>2, <1>3, <1>4, OneMember

(* An entry the promotion makes is where its listing goes (the reason it   *)
(* runs the ladder again), unless the judge chose the maker and the entry  *)
(* is that maker's first in its category.                                  *)
THEOREM GoesWhereItIsFrom == MakersSpec => FoundAtItsEntry
<1>1. ASSUME MakersInv, NEW l \in Stock, NEW e \in makes' \ makes, MakeEntry(l),
             ~\E f \in makes : f.maker = e.maker /\ f.model = e.model,
             \/ ~(Cardinality(Bearers(Field[l])) > 1)
             \/ \E f \in makes : f.maker = e.maker /\ f.category = e.category
      PROVE  sits'[l] = {e}
  <2>. DEFINE found == Lookup(l, makes, told)
              b     == CHOOSE x \in found.maker : TRUE
              es    == makes \cup {EntryFrom(b, l)}
              tried == Placing(Seats, l, makes, told)
              named == {f \in es : f.model = Designation[l] /\ f.maker \in found.maker}
  <2>1. /\ found.maker # {} /\ makes' = es
        /\ Write(Placing(tried, l, es, told))
    BY <1>1 DEF MakeEntry
  <2>2. found.maker = {b} /\ e = EntryFrom(b, l)
    <3>1. \A x \in found.maker : found.maker = {x}
      BY LookupAnswers DEF Answer
    <3>2. b \in found.maker
      BY <2>1
    <3>. HIDE DEF found, b
    <3>. QED
      BY <1>1, <2>1, <3>1, <3>2
  <2>3. e.maker = b /\ e.model = Designation[l] /\ e.category = Shelf[l]
    BY <2>2 DEF EntryFrom
  <2>4. Lookup(l, es, told) = found
    <3>. HIDE DEF b
    <3>. QED
      BY <1>1, <2>3, SameQuestion, SameLookup
  <2>5. SeatsIn(tried, makes)
    BY <1>1, PlacingSeats DEF MakersInv
  <2>6. Placing(tried, l, es, told) =
          IF Cardinality(named) = 1
          THEN [sits |-> [tried.sits EXCEPT ![l] = named], row |-> [tried.row EXCEPT ![l] = NotWaiting]]
          ELSE [tried EXCEPT !.row[l] = IF named = {} THEN Why(found)
                                        ELSE [why |-> "several", among |-> {}]]
    <3>. HIDE DEF found, es, tried
    <3>. QED
      BY <2>4 DEF Placing
  <2>. HIDE DEF found, b, tried
  <2>7. named = {e}
    BY <1>1, <2>1, <2>2, <2>3
  <2>8. Cardinality(named) = 1
    BY <2>7, FS_Singleton
  <2>9. sits' = [tried.sits EXCEPT ![l] = named]
    <3>. HIDE DEF es, named
    <3>1. Placing(tried, l, es, told)
            = [sits |-> [tried.sits EXCEPT ![l] = named], row |-> [tried.row EXCEPT ![l] = NotWaiting]]
      BY <2>6, <2>8
    <3>. QED
      BY <2>1, <3>1 DEF Write
  <2>. QED
    BY <2>5, <2>7, <2>9 DEF SeatsIn
<1>2. ASSUME MakersInv PROVE \A l \in Stock, e \in makes' \ makes :
          (MakeEntry(l) /\ ~\E f \in makes : f.maker = e.maker /\ f.model = e.model) =>
             \/ sits'[l] = {e}
             \/ /\ Cardinality(Bearers(Field[l])) > 1
                /\ ~\E f \in makes : f.maker = e.maker /\ f.category = e.category
  BY <1>1, <1>2
<1>. QED
  BY <1>2, MakersHolds, PTL DEF FoundAtItsEntry

-----------------------------------------------------------------------------
(* Families.                                                               *)

(* What a transaction that has written x sees; one that has written        *)
(* nothing (Closed) sees the tables.                                       *)
HeadsIn(x) == SeenOver(x.heads, headed)
ShowsIn(x) == SeenOver(x.shows, visible)
CallsIn(x) == SeenOver(x.calls, called)
PutsIn(x)  == SeenOver(x.puts, under)
ThereIn(x) == {f \in Family : HeadsIn(x)[f] \in Name}
MembersIn(x, f) == {v \in Variant : CallsIn(x)[v] \in Name /\ PutsIn(x)[v] = f}
TouchedBy(x) == DOMAIN x.calls \cup DOMAIN x.puts
Deletes(x, f) == f \in DOMAIN x.heads /\ x.heads[f] = Deleted

Stages == {"idle", "looking", "filing", "committing", "naming", "misfiled",
          "respelled", "hidden", "deleting"}
Late  == {"respelled", "hidden", "deleting", "committing"}

SomeRows(w, D, V) == DOMAIN w \subseteq D /\ \A x \in DOMAIN w : w[x] \in V
Typed(x) ==
    /\ x = [at |-> x.at, back |-> x.back, variant |-> x.variant, name |-> x.name,
            family |-> x.family, todo |-> x.todo, doomed |-> x.doomed, heads |-> x.heads,
            shows |-> x.shows, calls |-> x.calls, puts |-> x.puts, alone |-> x.alone,
            left |-> x.left, cut |-> x.cut]
    /\ x.at \in Stages /\ x.back \in {"idle", "promoting", "naming", "misfiled"}
    /\ x.todo \subseteq Variant /\ x.doomed \subseteq Family
    /\ x.alone \in BOOLEAN /\ x.cut \in BOOLEAN /\ x.left \in 0..ListLimit
    /\ SomeRows(x.heads, Family, Name \cup {Deleted}) /\ SomeRows(x.shows, Family, BOOLEAN)
    /\ SomeRows(x.calls, Variant, Name) /\ SomeRows(x.puts, Variant, Family \cup {Orphan})

(* Where it stands says what it is about.                                  *)
StageOK(x) ==
    /\ x.at = "idle" => x = Closed
    /\ x.back = "idle" => x.at = "idle"
    /\ x.at \in {"looking", "filing"} => x.variant \in Variant /\ x.name \in Name
    /\ x.at = "filing" => x.family \in Family
    /\ x.back = "promoting" => x.at \in {"looking", "filing", "committing"} /\ x.variant \in Variant
    /\ x.at = "naming" => x.back = "naming"
    /\ x.back = "naming" => x.at \in {"looking", "filing", "naming"}
    /\ x.at \in {"misfiled", "respelled", "hidden", "deleting"} => x.back = "misfiled"
    /\ x.at \in Late /\ x.back = "misfiled" => x.todo = {}

(* An entry is filed under a family that is there.                         *)
FiledOK(x) ==
    \A v \in Variant :
        PutsIn(x)[v] # Orphan => CallsIn(x)[v] \in Name /\ HeadsIn(x)[PutsIn(x)[v]] \in Name

(* The entries it touches are there, unless it makes them.                 *)
TouchOK(x) ==
    /\ \A v \in TouchedBy(x) : called[v] \in Name \/ (x.back = "promoting" /\ x.variant = v)
    /\ x.back = "promoting" => called[x.variant] = Unmade

(* Only what is there is shown or hidden, and deletes come last.           *)
NewOK(x) ==
    /\ \A f \in DOMAIN x.shows : headed[f] # Unmade \/ f \in DOMAIN x.heads
    /\ x.at # "committing" => \A f \in DOMAIN x.heads : x.heads[f] # Deleted

(* No two write one row, and none files under a family that another        *)
(* deletes.                                                                *)
ApartOK(x, y) ==
    /\ \A f \in Family : ~(f \in DOMAIN x.heads \cup DOMAIN x.shows /\ f \in DOMAIN y.heads \cup DOMAIN y.shows)
    /\ TouchedBy(x) \cap TouchedBy(y) = {}
    /\ \A v \in DOMAIN x.puts : ~Deletes(y, x.puts[v])
    /\ x.back = "promoting" /\ y.back = "promoting" => x.variant # y.variant

SessionOK(x) == Typed(x) /\ StageOK(x) /\ FiledOK(x) /\ TouchOK(x) /\ NewOK(x)

TablesOK ==
    /\ headed \in [Family -> Name \cup {Unmade, Deleted}] /\ visible \in [Family -> BOOLEAN]
    /\ called \in [Variant -> Name \cup {Unmade, Deleted}]
    /\ under \in [Variant -> Family \cup {Orphan}]
    /\ acts \in 0..MaxActs /\ crossed \in BOOLEAN /\ tidied \in BOOLEAN
    /\ DOMAIN session = Session

LocksOK == /\ FiledOK(Closed) /\ \A f \in Family : headed[f] = Unmade => visible[f]
           /\ \A s \in Session : SessionOK(session[s])
           /\ \A s, t \in Session : s # t => ApartOK(session[s], session[t])

(* A transaction nobody crossed is the only one.                           *)
AloneOK == /\ \A s \in Session : session[s].alone => Busy \subseteq {s}
           /\ \A s \in Busy : ~crossed => session[s].alone

(* While nobody crosses, no entry is hidden or without a family,           *)
ShownOK(x) ==
    /\ \A v \in Variant : CallsIn(x)[v] \in Name => PutsIn(x)[v] # Orphan /\ ShowsIn(x)[PutsIn(x)[v]]
    /\ x.at = "filing" => ShowsIn(x)[x.family]

(* and a rebuild gets through the entries that are astray, then the        *)
(* families, but for those its limit kept from a list.                     *)
Astray(x)  == {v \in Variant : /\ PutsIn(x)[v] # Orphan
                               /\ Lower[CallsIn(x)[v]] # Lower[HeadsIn(x)[PutsIn(x)[v]]]}
Spelled(x) == \A f \in ThereIn(x), n \in Name :
                 /\ ShowsIn(x)[f] /\ MembersIn(x, f) # {}
                 /\ \A v \in MembersIn(x, f) : CallsIn(x)[v] = n
                 => HeadsIn(x)[f] = n
Filled(x)  == \A f \in ThereIn(x) : ShowsIn(x)[f] => MembersIn(x, f) # {}
Needless(x) == {f \in ThereIn(x) \ TheTrail : ~ShowsIn(x)[f] /\ MembersIn(x, f) = {}}
TidiesOK(x) ==
    /\ x.at = "filing" => x.family \in ThereIn(x) /\ Lower[HeadsIn(x)[x.family]] = Lower[x.name]
    /\ x.at \in {"looking", "filing"} /\ x.back # "promoting" => CallsIn(x)[x.variant] = x.name
    /\ x.at = "deleting" => x.doomed \subseteq Needless(x)
    /\ x.back = "misfiled" /\ ~x.cut =>
          /\ \A v \in Astray(x) : v \in x.todo \/ (x.at \in {"looking", "filing"} /\ v = x.variant)
          /\ x.at \in Late => Spelled(x)
          /\ x.at \in Late \ {"respelled"} => Filled(x)
          /\ x.at = "deleting" => x.doomed = Needless(x)
          /\ x.at = "committing" => Needless(x) = {}

FamInv == /\ TablesOK /\ LocksOK /\ AloneOK
          /\ \A s \in Session : ~crossed => ShownOK(session[s])
          /\ ~crossed => ShownOK(Closed)
          /\ \A s \in Session : session[s].alone => TidiesOK(session[s])
          /\ FamiliesFollow

-----------------------------------------------------------------------------
(* What a transaction sees. *)

LEMMA Seen ==
    ASSUME NEW w, NEW table
    PROVE  /\ DOMAIN SeenOver(w, table) = DOMAIN table
           /\ \A z \in DOMAIN table :
                 SeenOver(w, table)[z] = IF z \in DOMAIN w THEN w[z] ELSE table[z]
  BY DEF SeenOver

LEMMA Written ==
    ASSUME NEW w, NEW more
    PROVE  /\ DOMAIN Wrote(w, more) = DOMAIN w \cup DOMAIN more
           /\ \A z \in DOMAIN more : Wrote(w, more)[z] = more[z]
           /\ \A z \in DOMAIN w \ DOMAIN more : Wrote(w, more)[z] = w[z]
  BY DEF Wrote

LEMMA SeenWritten ==
    ASSUME NEW w, NEW more, NEW table, NEW z \in DOMAIN table
    PROVE  SeenOver(Wrote(w, more), table)[z]
               = IF z \in DOMAIN more THEN more[z] ELSE SeenOver(w, table)[z]
<1>1. SeenOver(w, table)[z] = IF z \in DOMAIN w THEN w[z] ELSE table[z]
  BY Seen
<1>2. SeenOver(Wrote(w, more), table)[z]
        = IF z \in DOMAIN Wrote(w, more) THEN Wrote(w, more)[z] ELSE table[z]
  BY Seen
<1>3. Wrote(w, more) = [y \in DOMAIN w \cup DOMAIN more |-> IF y \in DOMAIN more THEN more[y] ELSE w[y]]
  BY DEF Wrote
<1>4. DOMAIN Wrote(w, more) = DOMAIN w \cup DOMAIN more
  BY <1>3
<1>5. z \in DOMAIN Wrote(w, more) => Wrote(w, more)[z] = IF z \in DOMAIN more THEN more[z] ELSE w[z]
  BY <1>3
<1>. QED
  BY <1>1, <1>2, <1>4, <1>5

LEMMA OneRow ==
    ASSUME NEW x, NEW w
    PROVE  DOMAIN ARow(x, w) = {x} /\ ARow(x, w)[x] = w
  BY DEF ARow

LEMMA NoRowsYet == DOMAIN NoRows = {}
  BY DEF NoRows

LEMMA Views ==
    ASSUME TablesOK, NEW x, Typed(x)
    PROVE  /\ \A f \in Family :
                 /\ HeadsIn(x)[f] = IF f \in DOMAIN x.heads THEN x.heads[f] ELSE headed[f]
                 /\ HeadsIn(x)[f] \in Name \cup {Unmade, Deleted}
                 /\ ShowsIn(x)[f] = IF f \in DOMAIN x.shows THEN x.shows[f] ELSE visible[f]
                 /\ ShowsIn(x)[f] \in BOOLEAN
           /\ \A v \in Variant :
                 /\ CallsIn(x)[v] = IF v \in DOMAIN x.calls THEN x.calls[v] ELSE called[v]
                 /\ CallsIn(x)[v] \in Name \cup {Unmade, Deleted}
                 /\ PutsIn(x)[v] = IF v \in DOMAIN x.puts THEN x.puts[v] ELSE under[v]
                 /\ PutsIn(x)[v] \in Family \cup {Orphan}
<1>1. /\ \A z \in Family : HeadsIn(x)[z] = IF z \in DOMAIN x.heads THEN x.heads[z] ELSE headed[z]
      /\ \A z \in Family : ShowsIn(x)[z] = IF z \in DOMAIN x.shows THEN x.shows[z] ELSE visible[z]
      /\ \A z \in Variant : CallsIn(x)[z] = IF z \in DOMAIN x.calls THEN x.calls[z] ELSE called[z]
      /\ \A z \in Variant : PutsIn(x)[z] = IF z \in DOMAIN x.puts THEN x.puts[z] ELSE under[z]
  BY Seen DEF HeadsIn, ShowsIn, CallsIn, PutsIn, TablesOK
<1>2. /\ \A z \in Family : HeadsIn(x)[z] \in Name \cup {Unmade, Deleted}
      /\ \A z \in Variant : CallsIn(x)[z] \in Name \cup {Unmade, Deleted}
      /\ \A z \in Variant : PutsIn(x)[z] \in Family \cup {Orphan}
  BY <1>1 DEF Typed, SomeRows, TablesOK
<1>3. \A z \in Family : ShowsIn(x)[z] \in BOOLEAN
  BY <1>1 DEF Typed, SomeRows, TablesOK
<1>. QED
  BY <1>1, <1>2, <1>3

(* Rows that are the same show the same. *)
SameSight(x, y) ==
    /\ HeadsIn(x) = HeadsIn(y) /\ ShowsIn(x) = ShowsIn(y)
    /\ CallsIn(x) = CallsIn(y) /\ PutsIn(x) = PutsIn(y)
SameRows(x, y) ==
    x.heads = y.heads /\ x.shows = y.shows /\ x.calls = y.calls /\ x.puts = y.puts

LEMMA SameShow ==
    ASSUME NEW x, NEW y, SameRows(x, y)
    PROVE  SameSight(x, y)
  BY DEF SameRows, SameSight, HeadsIn, ShowsIn, CallsIn, PutsIn

LEMMA SightDecides ==
    ASSUME NEW x, NEW y, SameSight(x, y)
    PROVE  /\ ThereIn(x) = ThereIn(y) /\ \A f : MembersIn(x, f) = MembersIn(y, f)
           /\ FiledOK(x) <=> FiledOK(y)
           /\ Astray(x) = Astray(y) /\ Needless(x) = Needless(y)
           /\ Spelled(x) <=> Spelled(y)
           /\ Filled(x) <=> Filled(y)
<1>1. ThereIn(x) = ThereIn(y) /\ \A f : MembersIn(x, f) = MembersIn(y, f)
  BY DEF SameSight, ThereIn, MembersIn
<1>2. FiledOK(x) <=> FiledOK(y)
  BY DEF SameSight, FiledOK
<1>3. Astray(x) = Astray(y) /\ Needless(x) = Needless(y)
  BY <1>1 DEF SameSight, Astray, Needless
<1>4. (Spelled(x) <=> Spelled(y)) /\ (Filled(x) <=> Filled(y))
  BY <1>1 DEF SameSight, Spelled, Filled
<1>. QED
  BY <1>1, <1>2, <1>3, <1>4

LEMMA StillTables ==
    ASSUME UNCHANGED families
    PROVE  \A y : /\ SessionOK(y)' <=> SessionOK(y)
                  /\ ShownOK(y)' <=> ShownOK(y)
                  /\ TidiesOK(y)' <=> TidiesOK(y)
                  /\ FiledOK(y)' <=> FiledOK(y)
<1>. SUFFICES ASSUME NEW y
              PROVE  /\ SessionOK(y)' <=> SessionOK(y)
                     /\ ShownOK(y)' <=> ShownOK(y)
                     /\ TidiesOK(y)' <=> TidiesOK(y)
                     /\ FiledOK(y)' <=> FiledOK(y)
  OBVIOUS
<1>1. HeadsIn(y)' = HeadsIn(y) /\ ShowsIn(y)' = ShowsIn(y) /\ CallsIn(y)' = CallsIn(y)
      /\ PutsIn(y)' = PutsIn(y) /\ called' = called
  BY DEF families, HeadsIn, ShowsIn, CallsIn, PutsIn
<1>2. ThereIn(y)' = ThereIn(y) /\ \A f : MembersIn(y, f)' = MembersIn(y, f)
  BY <1>1 DEF ThereIn, MembersIn
<1>3. FiledOK(y)' <=> FiledOK(y)
  BY <1>1 DEF FiledOK
<1>4. SessionOK(y)' <=> SessionOK(y)
  BY <1>1, <1>3 DEF SessionOK, TouchOK, TouchedBy, NewOK, families
<1>5. ShownOK(y)' <=> ShownOK(y)
  BY <1>1 DEF ShownOK
<1>6. Astray(y)' = Astray(y) /\ Needless(y)' = Needless(y)
  BY <1>1, <1>2 DEF Astray, Needless
<1>7. (Spelled(y)' <=> Spelled(y)) /\ (Filled(y)' <=> Filled(y))
  BY <1>1, <1>2 DEF Spelled, Filled
<1>8. TidiesOK(y)' <=> TidiesOK(y)
  BY <1>1, <1>2, <1>6, <1>7 DEF TidiesOK
<1>. QED
  BY <1>3, <1>4, <1>5, <1>8

(* A transaction that has not begun wrote nothing. *)
LEMMA ClosedOK ==
    ASSUME TablesOK, FiledOK(Closed)
    PROVE  /\ SessionOK(Closed) /\ ~Closed.alone
           /\ \A y : ApartOK(Closed, y) /\ ApartOK(y, Closed)
<1>1. Closed.heads = NoRows /\ Closed.shows = NoRows /\ Closed.calls = NoRows
      /\ Closed.puts = NoRows /\ Closed.at = "idle" /\ Closed.back = "idle"
      /\ Closed.todo = {} /\ Closed.doomed = {} /\ Closed.alone = FALSE
      /\ Closed.cut = FALSE /\ Closed.left \in 0..ListLimit
  BY FamiliesAssumption DEF Closed
<1>2. Typed(Closed)
  <2>1. Closed = [at |-> Closed.at, back |-> Closed.back, variant |-> Closed.variant,
            name |-> Closed.name, family |-> Closed.family, todo |-> Closed.todo,
            doomed |-> Closed.doomed, heads |-> Closed.heads, shows |-> Closed.shows,
            calls |-> Closed.calls, puts |-> Closed.puts, alone |-> Closed.alone,
            left |-> Closed.left, cut |-> Closed.cut]
    BY DEF Closed
  <2>. QED
    BY <1>1, <2>1, NoRowsYet DEF Typed, SomeRows, Stages
<1>3. StageOK(Closed)
  BY <1>1 DEF StageOK, Late
<1>4. TouchOK(Closed)
  BY <1>1, NoRowsYet DEF TouchOK, TouchedBy
<1>5. \A y : ApartOK(Closed, y) /\ ApartOK(y, Closed)
  BY <1>1, NoRowsYet DEF ApartOK, TouchedBy, Deletes
<1>6. NewOK(Closed)
  BY <1>1, NoRowsYet DEF NewOK
<1>. QED
  BY <1>1, <1>2, <1>3, <1>4, <1>5, <1>6 DEF SessionOK

(* One transaction goes on, and the tables stay. *)
LEMMA StepWithin ==
    ASSUME FamInv, NEW s \in Session, NEW x, session' = [session EXCEPT ![s] = x],
           UNCHANGED families, UNCHANGED <<crossed, tidied>>, acts' \in 0..MaxActs,
           session[s].at # "idle", x.at # "idle", x.alone = session[s].alone,
           SessionOK(x),
           \A t \in Others(s) : ApartOK(x, session[t]) /\ ApartOK(session[t], x),
           ~crossed => ShownOK(x),
           x.alone => TidiesOK(x)
    PROVE  FamInv'
<1>1. /\ session'[s] = x
      /\ \A t \in Session \ {s} : session'[t] = session[t]
      /\ DOMAIN session' = Session
  BY DEF FamInv, TablesOK
<1>2. TablesOK'
  BY <1>1 DEF FamInv, TablesOK, families
<1>3. \A t \in Session : SessionOK(session[t])'
  BY <1>1, StillTables DEF FamInv, LocksOK
<1>4. LocksOK'
  <2>1. \A t, u \in Session : t # u => ApartOK(session'[t], session'[u])
    BY <1>1 DEF FamInv, LocksOK, Others
  <2>2. \A t, u \in Session : t # u => ApartOK(session[t], session[u])'
    BY <2>1 DEF ApartOK, Deletes, TouchedBy
  <2>3. FiledOK(Closed)'
    BY StillTables DEF FamInv, LocksOK
  <2>4. (\A f \in Family : headed[f] = Unmade => visible[f])'
    BY DEF FamInv, LocksOK, families
  <2>. QED
    BY <1>3, <2>2, <2>3, <2>4 DEF LocksOK
<1>5. AloneOK' /\ Busy' = Busy
  <2>1. Busy' = Busy
    BY <1>1 DEF Busy, Doing
  <2>. QED
    BY <1>1, <2>1 DEF FamInv, AloneOK
<1>6. \A t \in Session : ~crossed' => ShownOK(session[t])'
  BY <1>1, StillTables DEF FamInv
<1>7. ~crossed' => ShownOK(Closed)'
  BY StillTables DEF FamInv
<1>8. \A t \in Session : session'[t].alone => TidiesOK(session[t])'
  BY <1>1, StillTables DEF FamInv
<1>9. FamiliesFollow'
  BY DEF FamInv, FamiliesFollow, families, Made, Stands, In
<1>. QED
  BY <1>2, <1>3, <1>4, <1>5, <1>6, <1>7, <1>8, <1>9 DEF FamInv

-----------------------------------------------------------------------------
(* The steps that write no row. *)

LEMMA Reads ==
    ASSUME NEW s
    PROVE  /\ HeadsOf(s) = HeadsIn(session[s]) /\ ShowsOf(s) = ShowsIn(session[s])
           /\ CallsOf(s) = CallsIn(session[s]) /\ PutsOf(s) = PutsIn(session[s])
           /\ There(s) = ThereIn(session[s])
           /\ \A f : Members(s, f) = MembersIn(session[s], f)
  BY DEF HeadsOf, ShowsOf, CallsOf, PutsOf, HeadsIn, ShowsIn, CallsIn, PutsIn,
         There, ThereIn, Members, MembersIn

LEMMA OpenOnes ==
    ASSUME FamInv, NEW s \in Session, NEW y, y = session[s]
    PROVE  /\ Typed(y) /\ StageOK(y) /\ FiledOK(y) /\ TouchOK(y) /\ NewOK(y) /\ TablesOK
           /\ ~crossed => ShownOK(y)
           /\ y.alone => TidiesOK(y)
           /\ ~crossed /\ y.at # "idle" => y.alone
           /\ \A t \in Others(s) : SessionOK(session[t]) /\ ApartOK(y, session[t])
                                                         /\ ApartOK(session[t], y)
  BY DEF FamInv, LocksOK, SessionOK, AloneOK, Busy, Doing, Others

LEMMA OnlyStage ==
    ASSUME FamInv, NEW s \in Session, NEW x, SameRows(x, session[s]), Typed(x), StageOK(x),
           session[s].at # "committing",
           (x.back = "promoting") <=> (session[s].back = "promoting"),
           x.back = "promoting" => x.variant = session[s].variant
    PROVE  /\ SessionOK(x)
           /\ \A t \in Others(s) : ApartOK(x, session[t]) /\ ApartOK(session[t], x)
<1>. PICK y : y = session[s]
  OBVIOUS
<1>1. FiledOK(x)
  BY OpenOnes, SameShow, SightDecides
<1>2. TouchOK(x) /\ NewOK(x)
  BY OpenOnes DEF TouchOK, TouchedBy, SameRows, NewOK
<1>3. \A t \in Others(s) : ApartOK(x, session[t]) /\ ApartOK(session[t], x)
  BY OpenOnes DEF ApartOK, TouchedBy, SameRows, Deletes
<1>. QED
  BY <1>1, <1>2, <1>3 DEF SessionOK

LEMMA ActsStay == ASSUME FamInv, acts' = acts PROVE acts' \in 0..MaxActs
  BY DEF FamInv, TablesOK

(* A list that was not cut is all there is. *)
LEMMA CutOrAll ==
    ASSUME NEW all, NEW k, NEW list \in Cuts(all, k)
    PROVE  list \subseteq all
  BY DEF Cuts

LEMMA ListMisfiledStep ==
    ASSUME FamInv, NEW s \in Session, ListMisfiled(s)
    PROVE  FamInv'
<1>. PICK y : y = session[s]
  OBVIOUS
<1>1. PICK c : c = Misfiled(s)
  OBVIOUS
<1>a. PICK k \in 0..session[s].left : \E list \in Cuts(c, k) :
         Continue(s, [y EXCEPT !.at = "misfiled", !.back = "misfiled",
                               !.todo = list, !.cut = list # c])
  BY <1>1 DEF ListMisfiled
<1>b. PICK list \in Cuts(c, k) :
         Continue(s, [y EXCEPT !.at = "misfiled", !.back = "misfiled",
                               !.todo = list, !.cut = list # c])
  BY <1>a
<1>2. PICK x : x = [y EXCEPT !.at = "misfiled", !.back = "misfiled", !.todo = list, !.cut = list # c]
  OBVIOUS
<1>3. y.at = "naming" /\ session' = [session EXCEPT ![s] = x] /\ UNCHANGED families
      /\ UNCHANGED <<crossed, tidied>> /\ acts' = acts
  BY <1>b, <1>2 DEF ListMisfiled, Doing, Continue, Inside, families
<1>4. Typed(y) /\ StageOK(y) /\ FiledOK(y) /\ TablesOK
  BY OpenOnes
<1>5. /\ x.at = "misfiled" /\ x.back = "misfiled" /\ x.todo = list /\ x.alone = y.alone
      /\ (~x.cut => list = c) /\ SameRows(x, y) /\ Typed(x)
  BY <1>b, <1>1, <1>2, <1>4, CutOrAll DEF Misfiled, Typed, SameRows, Stages
<1>6. StageOK(x)
  BY <1>5 DEF StageOK, Late
<1>7. SessionOK(x) /\ \A t \in Others(s) : ApartOK(x, session[t]) /\ ApartOK(session[t], x)
  BY <1>3, <1>4, <1>5, <1>6, OnlyStage DEF StageOK
<1>8. SameSight(x, y)
  BY <1>5, SameShow
<1>9. ~crossed => ShownOK(x)
  BY <1>5, <1>8, OpenOnes DEF ShownOK, SameSight
<1>10. Astray(x) \subseteq c
  <2>1. c = {v \in Variant : \E f \in ThereIn(y) :
                v \in MembersIn(y, f) /\ Lower[CallsIn(y)[v]] # Lower[HeadsIn(y)[f]]}
    BY <1>1, Reads DEF Misfiled
  <2>2. Astray(y) \subseteq c
    BY <1>4, <2>1, Views DEF Astray, FiledOK, ThereIn, MembersIn
  <2>. QED
    BY <1>8, <2>2, SightDecides
<1>11. TidiesOK(x)
  BY <1>5, <1>10 DEF TidiesOK, Late
<1>. QED
  BY <1>3, <1>5, <1>7, <1>9, <1>11, StepWithin, ActsStay

LEMMA TakeMisfiledStep ==
    ASSUME FamInv, NEW s \in Session, TakeMisfiled(s)
    PROVE  FamInv'
<1>. PICK y : y = session[s]
  OBVIOUS
<1>1. PICK v \in y.todo :
        Continue(s, [y EXCEPT !.at   = IF CallsOf(s)[v] \in Name THEN "looking" ELSE "misfiled",
                              !.todo = @ \ {v}, !.variant = v, !.name = CallsOf(s)[v]])
  BY DEF TakeMisfiled
<1>2. PICK a, n : n = CallsIn(y)[v] /\ a = IF n \in Name THEN "looking" ELSE "misfiled"
  OBVIOUS
<1>3. PICK x : x = [y EXCEPT !.at = a, !.todo = @ \ {v}, !.variant = v, !.name = n]
  OBVIOUS
<1>4. y.at = "misfiled" /\ session' = [session EXCEPT ![s] = x] /\ UNCHANGED families
      /\ UNCHANGED <<crossed, tidied>> /\ acts' = acts
  <2>1. CallsOf(s)[v] = n
    BY <1>2, Reads
  <2>2. [y EXCEPT !.at = IF CallsOf(s)[v] \in Name THEN "looking" ELSE "misfiled",
                  !.todo = @ \ {v}, !.variant = v, !.name = CallsOf(s)[v]] = x
    BY <1>2, <1>3, <2>1
  <2>3. session' = [session EXCEPT ![s] = x]
    BY <1>1, <2>2 DEF Continue
  <2>. QED
    BY <2>3 DEF TakeMisfiled, Doing, Inside, families
<1>5. Typed(y) /\ StageOK(y) /\ FiledOK(y) /\ TablesOK
  BY OpenOnes
<1>6. y.back = "misfiled" /\ v \in Variant
  BY <1>4, <1>5 DEF StageOK, Typed
<1>7. /\ x.at = a /\ x.back = "misfiled" /\ x.todo = y.todo \ {v} /\ x.alone = y.alone /\ x.cut = y.cut
      /\ x.variant = v /\ x.name = n /\ SameRows(x, y) /\ Typed(x)
  BY <1>2, <1>3, <1>5, <1>6 DEF Typed, SameRows, Stages
<1>8. StageOK(x) /\ x.at \in {"looking", "misfiled"}
  BY <1>2, <1>6, <1>7 DEF StageOK, Late
<1>9. SessionOK(x) /\ \A t \in Others(s) : ApartOK(x, session[t]) /\ ApartOK(session[t], x)
  BY <1>4, <1>6, <1>7, <1>8, OnlyStage
<1>10. SameSight(x, y)
  BY <1>7, SameShow
<1>11. ~crossed => ShownOK(x)
  BY <1>8, <1>10, OpenOnes DEF ShownOK, SameSight
<1>12. ASSUME y.alone PROVE TidiesOK(x)
  <2>1. ~y.cut => \A w \in Astray(y) : w \in y.todo
    BY <1>4, <1>6, <1>12, OpenOnes DEF TidiesOK
  <2>2. v \in Astray(y) => a = "looking"
    BY <1>2, <1>5 DEF FiledOK, Astray
  <2>3. ~x.cut => \A w \in Astray(x) : w \in x.todo \/ (x.at = "looking" /\ w = x.variant)
    BY <1>7, <1>10, <2>1, <2>2, SightDecides
  <2>4. CallsIn(x)[x.variant] = x.name
    BY <1>2, <1>7, <1>10 DEF SameSight
  <2>. QED
    BY <1>7, <1>8, <2>3, <2>4 DEF TidiesOK, Late
<1>. QED
  BY <1>4, <1>7, <1>8, <1>9, <1>11, <1>12, StepWithin, ActsStay

LEMMA SelectHiddenStep ==
    ASSUME FamInv, NEW s \in Session, SelectHidden(s)
    PROVE  FamInv'
<1>. PICK y : y = session[s]
  OBVIOUS
<1>1. PICK d : d = {f \in There(s) \ TheTrail : ~ShowsOf(s)[f] /\ Members(s, f) = {}}
  OBVIOUS
<1>a. PICK list \in Cuts(d, ListLimit) :
         Continue(s, [y EXCEPT !.at = "deleting", !.doomed = list, !.cut = @ \/ list # d])
  BY <1>1 DEF SelectHidden
<1>2. PICK x : x = [y EXCEPT !.at = "deleting", !.doomed = list, !.cut = @ \/ list # d]
  OBVIOUS
<1>3. y.at = "hidden" /\ session' = [session EXCEPT ![s] = x] /\ UNCHANGED families
      /\ UNCHANGED <<crossed, tidied>> /\ acts' = acts
  BY <1>a, <1>2 DEF SelectHidden, Doing, Continue, Inside, families
<1>4. Typed(y) /\ StageOK(y) /\ y.back = "misfiled"
  BY <1>3, OpenOnes DEF StageOK
<1>5. d = Needless(y) /\ d \subseteq Family
  BY <1>1, Reads DEF Needless, ThereIn
<1>6. /\ x.at = "deleting" /\ x.back = "misfiled" /\ x.todo = y.todo /\ x.doomed = list
      /\ (~x.cut => ~y.cut /\ list = d) /\ list \subseteq d /\ x.alone = y.alone /\ SameRows(x, y) /\ Typed(x)
  BY <1>a, <1>2, <1>4, <1>5, CutOrAll DEF Typed, SameRows, Stages
<1>7. StageOK(x)
  BY <1>3, <1>4, <1>6 DEF StageOK, Late
<1>8. SessionOK(x) /\ \A t \in Others(s) : ApartOK(x, session[t]) /\ ApartOK(session[t], x)
  BY <1>3, <1>4, <1>6, <1>7, OnlyStage
<1>9. SameSight(x, y)
  BY <1>6, SameShow
<1>10. ~crossed => ShownOK(x)
  BY <1>6, <1>9, OpenOnes DEF ShownOK, SameSight
<1>11. ASSUME y.alone PROVE TidiesOK(x)
  BY <1>3, <1>4, <1>5, <1>6, <1>9, <1>11, OpenOnes, SightDecides DEF TidiesOK, Late
<1>. QED
  BY <1>3, <1>6, <1>8, <1>10, <1>11, StepWithin, ActsStay

-----------------------------------------------------------------------------
(* The steps that write. *)

LEMMA MoreRows ==
    ASSUME NEW D, NEW V, NEW w, NEW more, SomeRows(w, D, V), SomeRows(more, D, V)
    PROVE  SomeRows(Wrote(w, more), D, V)
<1>. PICK both : both = Wrote(w, more)
  OBVIOUS
<1>1. /\ DOMAIN both = DOMAIN w \cup DOMAIN more
      /\ \A z \in DOMAIN more : both[z] = more[z]
      /\ \A z \in DOMAIN w \ DOMAIN more : both[z] = w[z]
  BY DEF Wrote
<1>2. SomeRows(both, D, V)
  BY <1>1 DEF SomeRows
<1>. QED
  BY <1>2

(* The rows of x are those of y and some more, and so is what it sees.     *)
HeadsGo(x, y, more) ==
    /\ SomeRows(x.heads, Family, Name \cup {Deleted})
    /\ DOMAIN x.heads = DOMAIN y.heads \cup DOMAIN more
    /\ \A f \in DOMAIN x.heads : x.heads[f] = IF f \in DOMAIN more THEN more[f] ELSE y.heads[f]
    /\ \A f \in Family : HeadsIn(x)[f] = IF f \in DOMAIN more THEN more[f] ELSE HeadsIn(y)[f]
ShowsGo(x, y, more) ==
    /\ SomeRows(x.shows, Family, BOOLEAN)
    /\ DOMAIN x.shows = DOMAIN y.shows \cup DOMAIN more
    /\ \A f \in DOMAIN x.shows : x.shows[f] = IF f \in DOMAIN more THEN more[f] ELSE y.shows[f]
    /\ \A f \in Family : ShowsIn(x)[f] = IF f \in DOMAIN more THEN more[f] ELSE ShowsIn(y)[f]
CallsGo(x, y, more) ==
    /\ SomeRows(x.calls, Variant, Name)
    /\ DOMAIN x.calls = DOMAIN y.calls \cup DOMAIN more
    /\ \A v \in Variant : CallsIn(x)[v] = IF v \in DOMAIN more THEN more[v] ELSE CallsIn(y)[v]
PutsGo(x, y, more) ==
    /\ SomeRows(x.puts, Variant, Family \cup {Orphan})
    /\ DOMAIN x.puts = DOMAIN y.puts \cup DOMAIN more
    /\ \A v \in DOMAIN x.puts : x.puts[v] = IF v \in DOMAIN more THEN more[v] ELSE y.puts[v]
    /\ \A v \in Variant : PutsIn(x)[v] = IF v \in DOMAIN more THEN more[v] ELSE PutsIn(y)[v]

LEMMA HeadsAfter ==
    ASSUME TablesOK, NEW y, Typed(y), NEW more, SomeRows(more, Family, Name \cup {Deleted}),
           NEW x, x.heads = Wrote(y.heads, more)
    PROVE  HeadsGo(x, y, more)
<1>1. SomeRows(y.heads, Family, Name \cup {Deleted}) /\ DOMAIN headed = Family
  BY DEF Typed, TablesOK
<1>2. SomeRows(x.heads, Family, Name \cup {Deleted})
  BY <1>1, MoreRows
<1>3. \A f \in Family : HeadsIn(x)[f] = IF f \in DOMAIN more THEN more[f] ELSE HeadsIn(y)[f]
  BY <1>1, SeenWritten DEF HeadsIn
<1>4. \A f \in DOMAIN x.heads : x.heads[f] = IF f \in DOMAIN more THEN more[f] ELSE y.heads[f]
  BY DEF Wrote
<1>5. DOMAIN x.heads = DOMAIN y.heads \cup DOMAIN more
  BY DEF Wrote
<1>. QED
  BY <1>2, <1>3, <1>4, <1>5 DEF HeadsGo

LEMMA ShowsAfter ==
    ASSUME TablesOK, NEW y, Typed(y), NEW more, SomeRows(more, Family, BOOLEAN),
           NEW x, x.shows = Wrote(y.shows, more)
    PROVE  ShowsGo(x, y, more)
<1>1. SomeRows(y.shows, Family, BOOLEAN) /\ DOMAIN visible = Family
  BY DEF Typed, TablesOK
<1>2. SomeRows(x.shows, Family, BOOLEAN)
  BY <1>1, MoreRows
<1>3. \A f \in Family : ShowsIn(x)[f] = IF f \in DOMAIN more THEN more[f] ELSE ShowsIn(y)[f]
  BY <1>1, SeenWritten DEF ShowsIn
<1>4. \A f \in DOMAIN x.shows : x.shows[f] = IF f \in DOMAIN more THEN more[f] ELSE y.shows[f]
  BY DEF Wrote
<1>5. DOMAIN x.shows = DOMAIN y.shows \cup DOMAIN more
  BY DEF Wrote
<1>. QED
  BY <1>2, <1>3, <1>4, <1>5 DEF ShowsGo

LEMMA CallsAfter ==
    ASSUME TablesOK, NEW y, Typed(y), NEW more, SomeRows(more, Variant, Name),
           NEW x, x.calls = Wrote(y.calls, more)
    PROVE  CallsGo(x, y, more)
<1>1. SomeRows(y.calls, Variant, Name) /\ DOMAIN called = Variant
  BY DEF Typed, TablesOK
<1>2. SomeRows(x.calls, Variant, Name)
  BY <1>1, MoreRows
<1>3. \A v \in Variant : CallsIn(x)[v] = IF v \in DOMAIN more THEN more[v] ELSE CallsIn(y)[v]
  BY <1>1, SeenWritten DEF CallsIn
<1>5. DOMAIN x.calls = DOMAIN y.calls \cup DOMAIN more
  BY DEF Wrote
<1>. QED
  BY <1>2, <1>3, <1>5 DEF CallsGo

LEMMA PutsAfter ==
    ASSUME TablesOK, NEW y, Typed(y), NEW more, SomeRows(more, Variant, Family \cup {Orphan}),
           NEW x, x.puts = Wrote(y.puts, more)
    PROVE  PutsGo(x, y, more)
<1>1. SomeRows(y.puts, Variant, Family \cup {Orphan}) /\ DOMAIN under = Variant
  BY DEF Typed, TablesOK
<1>2. SomeRows(x.puts, Variant, Family \cup {Orphan})
  BY <1>1, MoreRows
<1>3. \A v \in Variant : PutsIn(x)[v] = IF v \in DOMAIN more THEN more[v] ELSE PutsIn(y)[v]
  BY <1>1, SeenWritten DEF PutsIn
<1>4. \A v \in DOMAIN x.puts : x.puts[v] = IF v \in DOMAIN more THEN more[v] ELSE y.puts[v]
  BY DEF Wrote
<1>5. DOMAIN x.puts = DOMAIN y.puts \cup DOMAIN more
  BY DEF Wrote
<1>. QED
  BY <1>2, <1>3, <1>4, <1>5 DEF PutsGo

LEMMA FindFamilyStep ==
    ASSUME FamInv, NEW s \in Session, FindFamily(s)
    PROVE  FamInv'
<1>. PICK y : y = session[s]
  OBVIOUS
<1>1. y.at = "looking" /\ UNCHANGED families /\ UNCHANGED <<crossed, tidied>> /\ acts' = acts
  BY DEF FindFamily, Doing, Inside, families
<1>2. Typed(y) /\ StageOK(y) /\ FiledOK(y) /\ TouchOK(y) /\ NewOK(y) /\ TablesOK
  BY OpenOnes
<1>3. y.variant \in Variant /\ y.name \in Name /\ y.back # "idle"
  BY <1>1, <1>2 DEF StageOK
<1>4. CASE \E f \in Namesakes(s) : ShowsOf(s)[f] /\ Continue(s, [y EXCEPT !.at = "filing", !.family = f])
  <2>1. PICK f \in Namesakes(s) : ShowsOf(s)[f] /\ Continue(s, [y EXCEPT !.at = "filing", !.family = f])
    BY <1>4
  <2>2. PICK x : x = [y EXCEPT !.at = "filing", !.family = f]
    OBVIOUS
  <2>3. f \in ThereIn(y) /\ Lower[HeadsIn(y)[f]] = Lower[y.name] /\ f \in Family /\ ShowsIn(y)[f]
    BY <2>1, Reads DEF Namesakes, ThereIn
  <2>4. /\ x.at = "filing" /\ x.back = y.back /\ x.todo = y.todo /\ x.variant = y.variant
        /\ x.name = y.name /\ x.family = f
        /\ x.alone = y.alone /\ x.cut = y.cut /\ SameRows(x, y) /\ Typed(x)
    BY <1>2, <2>2, <2>3 DEF Typed, SameRows, Stages
  <2>5. StageOK(x)
    BY <1>1, <1>2, <2>3, <2>4 DEF StageOK, Late
  <2>6. SessionOK(x) /\ \A t \in Others(s) : ApartOK(x, session[t]) /\ ApartOK(session[t], x)
    BY <1>1, <2>4, <2>5, OnlyStage
  <2>7. SameSight(x, y)
    BY <2>4, SameShow
  <2>8. ~crossed => ShownOK(x)
    BY <2>3, <2>4, <2>7, OpenOnes DEF ShownOK, SameSight
  <2>9. ASSUME y.alone PROVE TidiesOK(x)
    BY <1>1, <2>3, <2>4, <2>7, <2>9, OpenOnes, SightDecides DEF TidiesOK, Late, SameSight
  <2>. QED
    BY <1>1, <2>1, <2>2, <2>4, <2>6, <2>8, <2>9, StepWithin, ActsStay DEF Continue
<1>5. CASE \E f \in Namesakes(s) :
              /\ Writable(s, f) /\ ~ShowsOf(s)[f]
              /\ Continue(s, [y EXCEPT !.at = "filing", !.family = f,
                                       !.shows = Wrote(@, ARow(f, TRUE))])
  <2>1. PICK f \in Namesakes(s) :
              /\ Writable(s, f) /\ ~ShowsOf(s)[f]
              /\ Continue(s, [y EXCEPT !.at = "filing", !.family = f,
                                       !.shows = Wrote(@, ARow(f, TRUE))])
    BY <1>5
  <2>2. PICK more : more = ARow(f, TRUE)
    OBVIOUS
  <2>3. PICK x : x = [y EXCEPT !.at = "filing", !.family = f, !.shows = Wrote(@, more)]
    OBVIOUS
  <2>4. f \in ThereIn(y) /\ Lower[HeadsIn(y)[f]] = Lower[y.name] /\ f \in Family
    BY <2>1, Reads DEF Namesakes, ThereIn
  <2>5. DOMAIN more = {f} /\ more[f] = TRUE /\ x.shows = Wrote(y.shows, more)
        /\ SomeRows(more, Family, BOOLEAN)
    BY <1>2, <2>2, <2>3, <2>4 DEF Typed, ARow, SomeRows
  <2>a. /\ SomeRows(x.shows, Family, BOOLEAN) /\ DOMAIN x.shows = DOMAIN y.shows \cup {f}
        /\ \A g \in Family : ShowsIn(x)[g] = IF g = f THEN TRUE ELSE ShowsIn(y)[g]
    <3>1. ShowsGo(x, y, more)
      BY <1>2, <2>5, ShowsAfter
    <3>. QED
      BY <2>5, <3>1 DEF ShowsGo
  <2>6. /\ x.at = "filing" /\ x.back = y.back /\ x.todo = y.todo /\ x.variant = y.variant
        /\ x.name = y.name /\ x.family = f /\ x.alone = y.alone /\ x.cut = y.cut /\ x.heads = y.heads
        /\ x.calls = y.calls /\ x.puts = y.puts /\ Typed(x)
    BY <1>2, <2>3, <2>4, <2>a DEF Typed, Stages
  <2>7. StageOK(x)
    BY <1>1, <1>2, <2>4, <2>6 DEF StageOK, Late
  <2>8. /\ HeadsIn(x) = HeadsIn(y) /\ CallsIn(x) = CallsIn(y) /\ PutsIn(x) = PutsIn(y)
        /\ \A g \in Family : ShowsIn(x)[g] = IF g = f THEN TRUE ELSE ShowsIn(y)[g]
    <3>1. HeadsIn(x) = HeadsIn(y) /\ CallsIn(x) = CallsIn(y) /\ PutsIn(x) = PutsIn(y)
      BY <2>6 DEF HeadsIn, CallsIn, PutsIn
    <3>. QED
      BY <2>a, <3>1
  <2>9. SessionOK(x)
    <3>1. headed[f] # Unmade \/ f \in DOMAIN y.heads
      BY <1>2, <2>4, Views, FamiliesAssumption DEF ThereIn
    <3>2. NewOK(x)
      BY <1>1, <1>2, <2>a, <2>6, <3>1 DEF NewOK
    <3>. QED
      BY <1>2, <2>6, <2>7, <2>8, <3>2 DEF SessionOK, FiledOK, TouchOK, TouchedBy
  <2>10. \A t \in Others(s) : ApartOK(x, session[t]) /\ ApartOK(session[t], x)
    BY <2>1, <2>a, <2>6, OpenOnes DEF ApartOK, Writable, WritesRow, TouchedBy, Deletes
  <2>11. ~crossed => ShownOK(x)
    <3>1. \A g \in Family : ShowsIn(y)[g] => ShowsIn(x)[g]
      BY <2>8
    <3>2. \A v \in Variant : PutsIn(y)[v] # Orphan => PutsIn(y)[v] \in Family
      BY <1>2, Views
    <3>3. ShowsIn(x)[x.family]
      BY <2>4, <2>6, <2>8
    <3>4. ~crossed => ShownOK(y)
      BY OpenOnes
    <3>. QED
      BY <2>8, <3>1, <3>2, <3>3, <3>4 DEF ShownOK
  <2>12. ASSUME y.alone PROVE TidiesOK(x)
    <3>1. ThereIn(x) = ThereIn(y) /\ Astray(x) = Astray(y)
      BY <2>8 DEF ThereIn, Astray
    <3>. QED
      BY <1>1, <2>4, <2>6, <2>8, <2>12, <3>1, OpenOnes DEF TidiesOK, Late
  <2>. QED
    BY <1>1, <2>1, <2>2, <2>3, <2>6, <2>9, <2>10, <2>11, <2>12, StepWithin, ActsStay DEF Continue
<1>6. CASE \E f \in Family :
                /\ headed[f] = Unmade /\ Writable(s, f) /\ f \notin There(s)
                /\ Continue(s, [y EXCEPT !.at = "filing", !.family = f,
                                         !.heads = Wrote(@, ARow(f, y.name))])
  <2>1. PICK f \in Family :
                /\ headed[f] = Unmade /\ Writable(s, f) /\ f \notin There(s)
                /\ Continue(s, [y EXCEPT !.at = "filing", !.family = f,
                                         !.heads = Wrote(@, ARow(f, y.name))])
    BY <1>6
  <2>2. PICK more : more = ARow(f, y.name)
    OBVIOUS
  <2>3. PICK x : x = [y EXCEPT !.at = "filing", !.family = f, !.heads = Wrote(@, more)]
    OBVIOUS
  <2>4. f \notin ThereIn(y)
    BY <2>1, Reads
  <2>5. DOMAIN more = {f} /\ more[f] = y.name /\ x.heads = Wrote(y.heads, more)
        /\ SomeRows(more, Family, Name \cup {Deleted})
    BY <1>2, <1>3, <2>2, <2>3 DEF Typed, ARow, SomeRows
  <2>a. /\ SomeRows(x.heads, Family, Name \cup {Deleted}) /\ DOMAIN x.heads = DOMAIN y.heads \cup {f}
        /\ \A g \in DOMAIN x.heads : x.heads[g] = IF g = f THEN y.name ELSE y.heads[g]
        /\ \A g \in Family : HeadsIn(x)[g] = IF g = f THEN y.name ELSE HeadsIn(y)[g]
    <3>1. HeadsGo(x, y, more)
      BY <1>2, <2>5, HeadsAfter
    <3>. QED
      BY <2>5, <3>1 DEF HeadsGo
  <2>6. /\ x.at = "filing" /\ x.back = y.back /\ x.todo = y.todo /\ x.variant = y.variant
        /\ x.name = y.name /\ x.family = f /\ x.alone = y.alone /\ x.cut = y.cut
        /\ x.calls = y.calls /\ x.puts = y.puts /\ x.shows = y.shows /\ Typed(x)
    BY <1>2, <2>3, <2>4, <2>a DEF Typed, Stages
  <2>7. StageOK(x)
    BY <1>1, <1>2, <2>6 DEF StageOK, Late
  <2>8. /\ ShowsIn(x) = ShowsIn(y) /\ CallsIn(x) = CallsIn(y) /\ PutsIn(x) = PutsIn(y)
        /\ \A g \in Family : HeadsIn(x)[g] = IF g = f THEN y.name ELSE HeadsIn(y)[g]
    <3>1. ShowsIn(x) = ShowsIn(y) /\ CallsIn(x) = CallsIn(y) /\ PutsIn(x) = PutsIn(y)
      BY <2>6 DEF ShowsIn, CallsIn, PutsIn
    <3>. QED
      BY <2>a, <3>1
  <2>9. \A v \in Variant : PutsIn(y)[v] # Orphan => PutsIn(y)[v] \in Family /\ PutsIn(y)[v] # f
    BY <1>2, <2>4, Views DEF FiledOK, ThereIn
  <2>10. SessionOK(x)
    <3>1. NewOK(x)
      BY <1>1, <1>2, <1>3, <2>a, <2>6, FamiliesAssumption DEF NewOK
    <3>. QED
      BY <1>2, <1>3, <2>6, <2>7, <2>8, <2>9, <3>1 DEF SessionOK, FiledOK, TouchOK, TouchedBy
  <2>11. \A t \in Others(s) : ApartOK(x, session[t]) /\ ApartOK(session[t], x)
    <3>1. \A g : Deletes(x, g) => Deletes(y, g)
      BY <1>3, <2>a, <2>6, FamiliesAssumption DEF Deletes
    <3>2. TouchedBy(x) = TouchedBy(y) /\ DOMAIN x.shows = DOMAIN y.shows
          /\ DOMAIN x.heads = DOMAIN y.heads \cup {f} /\ x.puts = y.puts
          /\ x.back = y.back /\ x.variant = y.variant
      BY <2>a, <2>6 DEF TouchedBy
    <3>3. \A t \in Others(s) : f \notin DOMAIN session[t].heads \cup DOMAIN session[t].shows
      BY <2>1 DEF Writable, WritesRow
    <3>4. \A t \in Others(s) : ApartOK(y, session[t]) /\ ApartOK(session[t], y)
      BY OpenOnes
    <3>. QED
      BY <3>1, <3>2, <3>3, <3>4 DEF ApartOK
  <2>12. ~crossed => ShownOK(x)
    <3>. SUFFICES ASSUME ~crossed PROVE ShownOK(x)
      OBVIOUS
    <3>1. f \notin DOMAIN y.heads
      BY <1>1, <1>2, <2>4, Views DEF NewOK, ThereIn, Typed, SomeRows
    <3>2. f \notin DOMAIN y.shows /\ visible[f]
      BY <1>2, <2>1, <3>1 DEF NewOK, FamInv, LocksOK
    <3>3. ShowsIn(y)[f]
      BY <1>2, <3>2, Views
    <3>. QED
      BY <2>6, <2>8, <3>3, OpenOnes DEF ShownOK
  <2>13. ASSUME y.alone PROVE TidiesOK(x)
    <3>1. f \in ThereIn(x) /\ HeadsIn(x)[f] = y.name
      BY <1>3, <2>8 DEF ThereIn
    <3>2. Astray(x) = Astray(y)
      BY <2>8, <2>9 DEF Astray
    <3>. QED
      BY <1>1, <2>6, <2>8, <2>13, <3>1, <3>2, OpenOnes DEF TidiesOK, Late
  <2>. QED
    BY <1>1, <2>1, <2>2, <2>3, <2>6, <2>10, <2>11, <2>12, <2>13, StepWithin, ActsStay DEF Continue
<1>. QED
  BY <1>4, <1>5, <1>6 DEF FindFamily

(* Nobody files under a family that another deletes.                       *)
LEMMA Kept ==
    ASSUME FamInv, NEW s \in Session, NEW f, Referable(s, f)
    PROVE  /\ f \in Family /\ f \in ThereIn(session[s])
           /\ \A t \in Others(s) : ~Deletes(session[t], f)
<1>. PICK y : y = session[s]
  OBVIOUS
<1>1. f \in ThereIn(y) /\ f \in Family
  BY Reads DEF Referable, ThereIn
<1>. SUFFICES ASSUME NEW t \in Others(s), Deletes(session[t], f) PROVE FALSE
  BY <1>1
<1>. PICK z : z = session[t]
  OBVIOUS
<1>2. Typed(y) /\ TablesOK /\ Typed(z) /\ ApartOK(y, z)
  BY OpenOnes DEF SessionOK
<1>3. f \in DOMAIN z.heads /\ HeadsIn(z)[f] = Deleted
  BY <1>1, <1>2, Views DEF Deletes
<1>4. f \notin ThereIn(z)
  BY <1>3, FamiliesAssumption DEF ThereIn
<1>5. headed[f] = Unmade
  BY <1>4, Reads DEF Referable
<1>6. f \in DOMAIN y.heads
  BY <1>1, <1>2, <1>5, Views, FamiliesAssumption DEF ThereIn
<1>. QED
  BY <1>1, <1>2, <1>3, <1>6 DEF ApartOK

LEMMA FileNewStep ==
    ASSUME FamInv, NEW s \in Session, FileNew(s)
    PROVE  FamInv'
<1>. PICK y : y = session[s]
  OBVIOUS
<1>1. /\ y.at = "filing" /\ y.back = "promoting" /\ UNCHANGED families
      /\ UNCHANGED <<crossed, tidied>> /\ acts' = acts
      /\ Referable(s, y.family)
  BY DEF FileNew, Doing, Inside, families
<1>2. Typed(y) /\ StageOK(y) /\ FiledOK(y) /\ TouchOK(y) /\ NewOK(y) /\ TablesOK
  BY OpenOnes
<1>. PICK v : v = y.variant
  OBVIOUS
<1>. PICK f : f = y.family
  OBVIOUS
<1>3. v \in Variant /\ y.name \in Name /\ f \in Family /\ called[v] = Unmade
  BY <1>1, <1>2 DEF StageOK, TouchOK
<1>4. PICK c, p : c = ARow(v, y.name) /\ p = ARow(v, f)
  OBVIOUS
<1>5. PICK x : x = [y EXCEPT !.at = "committing", !.calls = Wrote(@, c), !.puts = Wrote(@, p)]
  OBVIOUS
<1>6. session' = [session EXCEPT ![s] = x]
  BY <1>4, <1>5 DEF FileNew, Continue
<1>7. /\ DOMAIN c = {v} /\ c[v] = y.name /\ SomeRows(c, Variant, Name)
      /\ DOMAIN p = {v} /\ p[v] = f /\ SomeRows(p, Variant, Family \cup {Orphan})
  BY <1>3, <1>4 DEF ARow, SomeRows
<1>8. x.calls = Wrote(y.calls, c) /\ x.puts = Wrote(y.puts, p)
  BY <1>2, <1>5 DEF Typed
<1>9. CallsGo(x, y, c) /\ PutsGo(x, y, p)
  BY <1>2, <1>7, <1>8, CallsAfter, PutsAfter
<1>10. /\ x.at = "committing" /\ x.back = "promoting" /\ x.todo = y.todo /\ x.variant = v
       /\ x.name = y.name /\ x.family = f /\ x.alone = y.alone /\ x.cut = y.cut
       /\ x.heads = y.heads /\ x.shows = y.shows /\ Typed(x)
  BY <1>1, <1>2, <1>5, <1>9 DEF Typed, Stages, CallsGo, PutsGo
<1>11. StageOK(x)
  BY <1>3, <1>10 DEF StageOK, Late
<1>12. /\ ShowsIn(x) = ShowsIn(y) /\ HeadsIn(x) = HeadsIn(y)
       /\ DOMAIN x.calls = DOMAIN y.calls \cup {v} /\ DOMAIN x.puts = DOMAIN y.puts \cup {v}
       /\ \A w \in Variant : CallsIn(x)[w] = IF w = v THEN y.name ELSE CallsIn(y)[w]
       /\ \A w \in Variant : PutsIn(x)[w] = IF w = v THEN f ELSE PutsIn(y)[w]
       /\ \A w \in DOMAIN x.puts : x.puts[w] = IF w = v THEN f ELSE y.puts[w]
  <2>1. ShowsIn(x) = ShowsIn(y) /\ HeadsIn(x) = HeadsIn(y)
    BY <1>10 DEF ShowsIn, HeadsIn
  <2>. QED
    BY <1>7, <1>9, <2>1 DEF CallsGo, PutsGo
<1>13. f \in ThereIn(y) /\ \A t \in Others(s) : ~Deletes(session[t], f)
  BY <1>1, Kept
<1>14. SessionOK(x)
  <2>1. FiledOK(x)
    BY <1>2, <1>3, <1>12, <1>13 DEF FiledOK, ThereIn
  <2>2. TouchOK(x)
    BY <1>2, <1>1, <1>3, <1>10, <1>12 DEF TouchOK, TouchedBy
  <2>3. NewOK(x)
    BY <1>2, <1>10 DEF NewOK
  <2>. QED
    BY <1>10, <1>11, <2>1, <2>2, <2>3 DEF SessionOK
<1>15. \A t \in Others(s) : ApartOK(x, session[t]) /\ ApartOK(session[t], x)
  <2>. SUFFICES ASSUME NEW t \in Others(s)
                PROVE  ApartOK(x, session[t]) /\ ApartOK(session[t], x)
    OBVIOUS
  <2>. PICK z : z = session[t]
    OBVIOUS
  <2>1. TouchOK(z) /\ ApartOK(y, z) /\ ApartOK(z, y) /\ ~Deletes(z, f)
    BY <1>13, OpenOnes DEF SessionOK
  <2>2. v \notin TouchedBy(z)
    BY <1>1, <1>3, <2>1, FamiliesAssumption DEF TouchOK, ApartOK
  <2>3. TouchedBy(x) = TouchedBy(y) \cup {v}
    BY <1>12 DEF TouchedBy
  <2>4. \A w \in DOMAIN x.puts : ~Deletes(z, x.puts[w])
    BY <1>12, <2>1 DEF ApartOK
  <2>5. \A g : Deletes(x, g) <=> Deletes(y, g)
    BY <1>10 DEF Deletes
  <2>. QED
    BY <1>1, <1>10, <2>1, <2>2, <2>3, <2>4, <2>5 DEF ApartOK
<1>16. ASSUME ~crossed PROVE ShownOK(x)
  <2>1. ShownOK(y) /\ ShowsIn(y)[f]
    BY <1>1, <1>16, OpenOnes DEF ShownOK
  <2>2. f # Orphan
    BY <1>3, FamiliesAssumption
  <2>. QED
    BY <1>10, <1>12, <2>1, <2>2 DEF ShownOK
<1>17. TidiesOK(x)
  BY <1>10 DEF TidiesOK
<1>. QED
  BY <1>1, <1>6, <1>10, <1>14, <1>15, <1>16, <1>17, StepWithin, ActsStay

LEMMA RehomeStep ==
    ASSUME FamInv, NEW s \in Session, Rehome(s)
    PROVE  FamInv'
<1>. PICK y : y = session[s]
  OBVIOUS
<1>1. /\ y.at = "filing" /\ y.back # "promoting" /\ UNCHANGED families
      /\ UNCHANGED <<crossed, tidied>> /\ acts' = acts
  BY DEF Rehome, Doing, Inside, families
<1>2. Typed(y) /\ StageOK(y) /\ FiledOK(y) /\ TouchOK(y) /\ NewOK(y) /\ TablesOK
  BY OpenOnes
<1>. PICK v : v = y.variant
  OBVIOUS
<1>. PICK f : f = y.family
  OBVIOUS
<1>. PICK left : left = PutsIn(y)[v]
  OBVIOUS
<1>3. v \in Variant /\ y.name \in Name /\ f \in Family /\ y.back \in {"naming", "misfiled"}
      /\ left \in Family \cup {Orphan}
  BY <1>1, <1>2, Views DEF StageOK, Typed
<1>4. CASE left = f
  <2>1. PICK x : x = [y EXCEPT !.at = y.back]
    OBVIOUS
  <2>2. session' = [session EXCEPT ![s] = x]
    BY <1>4, <2>1, Reads DEF Rehome, Continue
  <2>3. /\ x.at = y.back /\ x.back = y.back /\ x.todo = y.todo
        /\ x.alone = y.alone /\ x.cut = y.cut /\ SameRows(x, y) /\ Typed(x)
    BY <1>2, <1>3, <2>1 DEF Typed, SameRows, Stages
  <2>4. StageOK(x)
    BY <1>3, <2>3 DEF StageOK, Late
  <2>5. SessionOK(x) /\ \A t \in Others(s) : ApartOK(x, session[t]) /\ ApartOK(session[t], x)
    BY <1>1, <2>3, <2>4, OnlyStage
  <2>6. SameSight(x, y)
    BY <2>3, SameShow
  <2>7. ~crossed => ShownOK(x)
    BY <1>3, <2>3, <2>6, OpenOnes DEF ShownOK, SameSight
  <2>8. ASSUME y.alone PROVE TidiesOK(x)
    <3>1. y.back = "misfiled" => v \notin Astray(y)
      <4>1. Lower[HeadsIn(y)[f]] = Lower[y.name] /\ CallsIn(y)[v] = y.name
        BY <1>1, <2>8, OpenOnes DEF TidiesOK
      <4>. QED
        BY <1>4, <4>1 DEF Astray
    <3>2. y.back = "misfiled" /\ ~y.cut => \A w \in Astray(y) : w \in y.todo
      BY <1>1, <2>8, <3>1, OpenOnes DEF TidiesOK
    <3>3. Astray(x) = Astray(y)
      BY <2>6, SightDecides
    <3>. QED
      BY <1>3, <2>3, <3>2, <3>3 DEF TidiesOK, Late
  <2>. QED
    BY <1>1, <1>3, <2>2, <2>3, <2>5, <2>7, <2>8, StepWithin, ActsStay
<1>5. CASE left # f
  <2>1. PICK bare \in BOOLEAN : bare = (left # Orphan /\ MembersIn(y, left) \subseteq {v})
    OBVIOUS
  <2>2. PICK p, h : p = ARow(v, f) /\ h = IF bare THEN ARow(left, FALSE) ELSE NoRows
    OBVIOUS
  <2>3. PICK x : x = [y EXCEPT !.at = y.back, !.puts = Wrote(@, p),
                               !.shows = IF bare THEN Wrote(@, ARow(left, FALSE)) ELSE @]
    OBVIOUS
  <2>4. /\ session' = [session EXCEPT ![s] = x]
        /\ CallsIn(y)[v] \in Name /\ Referable(s, f) /\ FreeRow(s, v)
        /\ bare => Writable(s, left)
    <3>1. PutsOf(s)[v] = left /\ CallsOf(s)[v] = CallsIn(y)[v]
          /\ Members(s, left) = MembersIn(y, left)
      BY Reads
    <3>2. /\ CallsOf(s)[v] \in Name /\ Referable(s, f) /\ FreeRow(s, v)
          /\ left # Orphan /\ Members(s, left) \subseteq {v} => Writable(s, left)
          /\ Continue(s, [y EXCEPT !.at = y.back, !.puts = Wrote(@, ARow(v, f)),
                !.shows = IF left # Orphan /\ Members(s, left) \subseteq {v}
                          THEN Wrote(@, ARow(left, FALSE)) ELSE @])
      BY <1>5, <3>1 DEF Rehome
    <3>3. bare <=> (left # Orphan /\ Members(s, left) \subseteq {v})
      BY <2>1, <3>1
    <3>4. [y EXCEPT !.at = y.back, !.puts = Wrote(@, ARow(v, f)),
                !.shows = IF left # Orphan /\ Members(s, left) \subseteq {v}
                          THEN Wrote(@, ARow(left, FALSE)) ELSE @] = x
      BY <2>2, <2>3, <3>3
    <3>. QED
      BY <3>1, <3>2, <3>3, <3>4 DEF Continue
  <2>5. /\ DOMAIN p = {v} /\ p[v] = f /\ SomeRows(p, Variant, Family \cup {Orphan})
        /\ DOMAIN h = IF bare THEN {left} ELSE {}
        /\ \A g \in DOMAIN h : h[g] = FALSE
        /\ SomeRows(h, Family, BOOLEAN)
    <3>1. DOMAIN p = {v} /\ p[v] = f /\ SomeRows(p, Variant, Family \cup {Orphan})
      BY <1>3, <2>2 DEF ARow, SomeRows
    <3>2. CASE bare
      <4>1. DOMAIN h = {left} /\ h[left] = FALSE /\ left \in Family
        BY <1>3, <2>1, <2>2, <3>2 DEF ARow
      <4>. QED
        BY <3>1, <3>2, <4>1 DEF SomeRows
    <3>3. CASE ~bare
      <4>1. DOMAIN h = {}
        BY <2>2, <3>3, NoRowsYet
      <4>. QED
        BY <3>1, <3>3, <4>1 DEF SomeRows
    <3>. QED
      BY <3>2, <3>3
  <2>6. x.puts = Wrote(y.puts, p) /\ (bare => x.shows = Wrote(y.shows, h))
        /\ (~bare => x.shows = y.shows)
    BY <1>2, <2>2, <2>3 DEF Typed
  <2>7. PutsGo(x, y, p)
    BY <1>2, <2>5, <2>6, PutsAfter
  <2>8. ShowsGo(x, y, h)
    <3>1. CASE bare
      BY <1>2, <2>5, <2>6, <3>1, ShowsAfter
    <3>2. CASE ~bare
      <4>1. x.shows = y.shows /\ ShowsIn(x) = ShowsIn(y) /\ DOMAIN h = {}
        BY <2>5, <2>6, <3>2 DEF ShowsIn
      <4>2. SomeRows(x.shows, Family, BOOLEAN)
        BY <1>2, <4>1 DEF Typed
      <4>. QED
        BY <4>1, <4>2 DEF ShowsGo
    <3>. QED
      BY <3>1, <3>2
  <2>9. /\ x.at = y.back /\ x.back = y.back /\ x.todo = y.todo /\ x.variant = v
        /\ x.name = y.name /\ x.family = f /\ x.alone = y.alone /\ x.cut = y.cut
        /\ x.heads = y.heads /\ x.calls = y.calls /\ Typed(x)
    BY <1>2, <1>3, <2>3, <2>7, <2>8 DEF Typed, Stages, ShowsGo, PutsGo
  <2>10. StageOK(x)
    BY <1>3, <2>9 DEF StageOK, Late
  <2>11. /\ CallsIn(x) = CallsIn(y) /\ HeadsIn(x) = HeadsIn(y)
         /\ DOMAIN x.puts = DOMAIN y.puts \cup {v}
         /\ \A w \in Variant : PutsIn(x)[w] = IF w = v THEN f ELSE PutsIn(y)[w]
         /\ \A w \in DOMAIN x.puts : x.puts[w] = IF w = v THEN f ELSE y.puts[w]
    <3>1. CallsIn(x) = CallsIn(y) /\ HeadsIn(x) = HeadsIn(y)
      BY <2>9 DEF CallsIn, HeadsIn
    <3>. QED
      BY <2>5, <2>7, <3>1 DEF PutsGo
  <2>12. /\ \A g \in DOMAIN x.shows : g \in DOMAIN y.shows \/ (bare /\ g = left)
         /\ \A g \in Family : ShowsIn(y)[g] => ShowsIn(x)[g] \/ (bare /\ g = left)
    BY <2>5, <2>8 DEF ShowsGo
  <2>13. f \in ThereIn(y) /\ \A t \in Others(s) : ~Deletes(session[t], f)
    BY <2>4, Kept
  <2>14. SessionOK(x)
    <3>1. FiledOK(x)
      BY <1>2, <1>3, <2>4, <2>11, <2>13 DEF FiledOK, ThereIn
    <3>2. v \in DOMAIN y.calls => called[v] \in Name
      BY <1>1, <1>2 DEF TouchOK, TouchedBy
    <3>3. called[v] \in Name
      BY <1>2, <1>3, <2>4, <3>2, Views
    <3>4. TouchOK(x)
      BY <1>1, <1>2, <2>9, <2>11, <3>3 DEF TouchOK, TouchedBy
    <3>5. bare => HeadsIn(y)[left] \in Name /\ left \in Family
      BY <1>2, <1>3, <2>1 DEF FiledOK
    <3>6. bare => headed[left] # Unmade \/ left \in DOMAIN y.heads
      BY <1>2, <3>5, Views, FamiliesAssumption
    <3>7. NewOK(x)
      BY <1>1, <1>2, <2>9, <2>12, <3>6 DEF NewOK
    <3>. QED
      BY <2>9, <2>10, <3>1, <3>4, <3>7 DEF SessionOK
  <2>15. \A t \in Others(s) : ApartOK(x, session[t]) /\ ApartOK(session[t], x)
    <3>. SUFFICES ASSUME NEW t \in Others(s)
                  PROVE  ApartOK(x, session[t]) /\ ApartOK(session[t], x)
      OBVIOUS
    <3>. PICK z : z = session[t]
      OBVIOUS
    <3>1. ApartOK(y, z) /\ ApartOK(z, y) /\ ~Deletes(z, f)
      BY <2>13, OpenOnes
    <3>2. v \notin TouchedBy(z)
      BY <2>4 DEF FreeRow, TouchedBy
    <3>3. TouchedBy(x) = TouchedBy(y) \cup {v}
      BY <2>9, <2>11 DEF TouchedBy
    <3>4. \A w \in DOMAIN x.puts : ~Deletes(z, x.puts[w])
      BY <2>11, <3>1 DEF ApartOK
    <3>5. \A g : Deletes(x, g) <=> Deletes(y, g)
      BY <2>9 DEF Deletes
    <3>6. bare => left \notin DOMAIN z.heads \cup DOMAIN z.shows
      BY <2>4 DEF Writable, WritesRow
    <3>7. \A g \in Family : ~(/\ g \in DOMAIN x.heads \cup DOMAIN x.shows
                              /\ g \in DOMAIN z.heads \cup DOMAIN z.shows)
      BY <2>9, <2>12, <3>1, <3>6 DEF ApartOK
    <3>. QED
      BY <1>1, <2>9, <3>1, <3>2, <3>3, <3>4, <3>5, <3>7 DEF ApartOK
  <2>16. ASSUME ~crossed PROVE ShownOK(x)
    <3>1. ShownOK(y) /\ ShowsIn(y)[f] /\ f # Orphan
      BY <1>1, <1>3, <2>16, OpenOnes, FamiliesAssumption DEF ShownOK
    <3>2. \A w \in Variant : w # v /\ CallsIn(x)[w] \in Name =>
             PutsIn(x)[w] # Orphan /\ ShowsIn(x)[PutsIn(x)[w]]
      <4>. SUFFICES ASSUME NEW w \in Variant, w # v, CallsIn(x)[w] \in Name
                    PROVE  PutsIn(x)[w] # Orphan /\ ShowsIn(x)[PutsIn(x)[w]]
        OBVIOUS
      <4>. PICK g : g = PutsIn(y)[w]
        OBVIOUS
      <4>1. g # Orphan /\ ShowsIn(y)[g] /\ g \in Family /\ w \in MembersIn(y, g) /\ PutsIn(x)[w] = g
        BY <1>2, <2>11, <3>1, Views DEF ShownOK, MembersIn
      <4>2. ~(bare /\ g = left)
        BY <2>1, <4>1
      <4>. QED
        BY <2>12, <4>1, <4>2
    <3>3. PutsIn(x)[v] = f /\ ShowsIn(x)[f]
      BY <1>3, <1>5, <2>11, <2>12, <3>1
    <3>. QED
      BY <1>3, <2>9, <3>1, <3>2, <3>3 DEF ShownOK
  <2>17. ASSUME y.alone PROVE TidiesOK(x)
    <3>1. Lower[HeadsIn(y)[f]] = Lower[y.name] /\ CallsIn(y)[v] = y.name
      BY <1>1, <2>17, OpenOnes DEF TidiesOK
    <3>2. y.back = "misfiled" /\ ~y.cut => \A w \in Astray(y) : w \in y.todo \/ w = v
      BY <1>1, <2>17, OpenOnes DEF TidiesOK
    <3>3. v \notin Astray(x) /\ Astray(x) \subseteq Astray(y)
      BY <1>3, <2>11, <3>1 DEF Astray
    <3>. QED
      BY <1>3, <2>9, <3>2, <3>3 DEF TidiesOK, Late
  <2>. QED
    BY <1>1, <1>3, <2>4, <2>9, <2>14, <2>15, <2>16, <2>17, StepWithin, ActsStay
<1>. QED
  BY <1>4, <1>5

LEMMA FamilyGoneStep ==
    ASSUME FamInv, NEW s \in Session, FamilyGone(s)
    PROVE  FamInv'
<1>. PICK y : y = session[s]
  OBVIOUS
<1>1. /\ y.at = "filing" /\ y.back # "promoting" /\ UNCHANGED families
      /\ UNCHANGED <<crossed, tidied>> /\ acts' = acts
      /\ y.family \notin ThereIn(y)
  BY Reads DEF FamilyGone, Doing, Inside, families
<1>2. Typed(y) /\ StageOK(y) /\ FiledOK(y) /\ TouchOK(y) /\ NewOK(y) /\ TablesOK
  BY OpenOnes
<1>. PICK v : v = y.variant
  OBVIOUS
<1>3. v \in Variant /\ y.back \in {"naming", "misfiled"}
  BY <1>1, <1>2 DEF StageOK, Typed
<1>. PICK c : c = IF y.back = "naming" THEN [w \in DOMAIN y.calls \ {v} |-> y.calls[w]] ELSE y.calls
  OBVIOUS
<1>4. PICK x : x = [y EXCEPT !.at = y.back, !.calls = c]
  OBVIOUS
<1>5. session' = [session EXCEPT ![s] = x]
  BY <1>4 DEF FamilyGone, Continue
<1>6. DOMAIN c \subseteq DOMAIN y.calls /\ \A w \in DOMAIN c : c[w] = y.calls[w]
  OBVIOUS
<1>7. /\ x.at = y.back /\ x.back = y.back /\ x.todo = y.todo /\ x.variant = v
      /\ x.name = y.name /\ x.family = y.family /\ x.alone = y.alone /\ x.cut = y.cut
      /\ x.heads = y.heads /\ x.shows = y.shows /\ x.puts = y.puts /\ x.calls = c /\ Typed(x)
  <2>1. SomeRows(c, Variant, Name)
    BY <1>2, <1>6 DEF Typed, SomeRows
  <2>. QED
    BY <1>2, <1>3, <1>4, <2>1 DEF Typed, Stages
<1>8. StageOK(x)
  BY <1>3, <1>7 DEF StageOK, Late
<1>9. ShowsIn(x) = ShowsIn(y) /\ HeadsIn(x) = HeadsIn(y) /\ PutsIn(x) = PutsIn(y)
  BY <1>7 DEF ShowsIn, HeadsIn, PutsIn
<1>10. \A w \in Variant : CallsIn(y)[w] \in Name => CallsIn(x)[w] \in Name
  BY <1>1, <1>2, <1>6, <1>7, Views DEF TouchOK, TouchedBy
<1>11. SessionOK(x)
  <2>1. FiledOK(x)
    BY <1>2, <1>9, <1>10 DEF FiledOK
  <2>2. TouchOK(x)
    BY <1>1, <1>2, <1>6, <1>7 DEF TouchOK, TouchedBy
  <2>3. NewOK(x)
    BY <1>1, <1>2, <1>7 DEF NewOK
  <2>. QED
    BY <1>7, <1>8, <2>1, <2>2, <2>3 DEF SessionOK
<1>12. \A t \in Others(s) : ApartOK(x, session[t]) /\ ApartOK(session[t], x)
  <2>1. TouchedBy(x) \subseteq TouchedBy(y) /\ \A g : Deletes(x, g) <=> Deletes(y, g)
    BY <1>6, <1>7 DEF TouchedBy, Deletes
  <2>. QED
    BY <1>1, <1>7, <2>1, OpenOnes DEF ApartOK
<1>13. ~y.alone
  BY <1>1, OpenOnes DEF TidiesOK
<1>14. crossed
  BY <1>1, <1>13, OpenOnes
<1>. QED
  BY <1>1, <1>3, <1>5, <1>7, <1>11, <1>12, <1>13, <1>14, StepWithin, ActsStay

LEMMA RenameStaleStep ==
    ASSUME FamInv, NEW s \in Session, NEW v \in Variant, NEW n \in Name, RenameStale(s, v, n)
    PROVE  FamInv'
<1>. PICK y : y = session[s]
  OBVIOUS
<1>1. /\ y.at = "naming" /\ UNCHANGED families /\ UNCHANGED <<crossed, tidied>>
      /\ called[v] \in Name /\ FreeRow(s, v) /\ v \notin DOMAIN y.calls
  BY DEF RenameStale, Doing
<1>2. acts' \in 0..MaxActs
  BY FamiliesAssumption DEF RenameStale, Counted, FamInv, TablesOK
<1>3. Typed(y) /\ StageOK(y) /\ FiledOK(y) /\ TouchOK(y) /\ NewOK(y) /\ TablesOK /\ y.back = "naming"
  BY <1>1, OpenOnes DEF StageOK
<1>. PICK c : c = ARow(v, n)
  OBVIOUS
<1>. PICK x : x = [y EXCEPT !.at = "looking", !.variant = v, !.name = n, !.calls = Wrote(@, c),
                       !.left = @ - 1]
  OBVIOUS
<1>4. session' = [session EXCEPT ![s] = x]
  BY DEF RenameStale, Continue
<1>5. DOMAIN c = {v} /\ c[v] = n /\ SomeRows(c, Variant, Name) /\ x.calls = Wrote(y.calls, c)
  BY <1>3 DEF ARow, SomeRows, Typed
<1>6. CallsGo(x, y, c)
  BY <1>3, <1>5, CallsAfter
<1>a. y.left - 1 \in 0..ListLimit
  BY <1>3, FamiliesAssumption DEF RenameStale, Typed
<1>7. /\ x.at = "looking" /\ x.back = "naming" /\ x.todo = y.todo /\ x.variant = v
      /\ x.name = n /\ x.family = y.family /\ x.alone = y.alone /\ x.cut = y.cut
      /\ x.heads = y.heads /\ x.shows = y.shows /\ x.puts = y.puts /\ Typed(x)
  BY <1>3, <1>6, <1>a DEF Typed, Stages, CallsGo
<1>8. StageOK(x)
  BY <1>7 DEF StageOK, Late
<1>9. ShowsIn(x) = ShowsIn(y) /\ HeadsIn(x) = HeadsIn(y) /\ PutsIn(x) = PutsIn(y)
  BY <1>7 DEF ShowsIn, HeadsIn, PutsIn
<1>10. /\ DOMAIN x.calls = DOMAIN y.calls \cup {v}
       /\ \A w \in Variant : CallsIn(x)[w] = IF w = v THEN n ELSE CallsIn(y)[w]
  BY <1>5, <1>6 DEF CallsGo
<1>11. SessionOK(x)
  <2>1. FiledOK(x)
    BY <1>3, <1>9, <1>10 DEF FiledOK
  <2>2. TouchOK(x)
    BY <1>1, <1>3, <1>7, <1>10 DEF TouchOK, TouchedBy
  <2>3. NewOK(x)
    BY <1>1, <1>3, <1>7 DEF NewOK
  <2>. QED
    BY <1>7, <1>8, <2>1, <2>2, <2>3 DEF SessionOK
<1>12. \A t \in Others(s) : ApartOK(x, session[t]) /\ ApartOK(session[t], x)
  <2>1. TouchedBy(x) = TouchedBy(y) \cup {v} /\ \A g : Deletes(x, g) <=> Deletes(y, g)
    BY <1>7, <1>10 DEF TouchedBy, Deletes
  <2>2. \A t \in Others(s) : v \notin TouchedBy(session[t])
    BY <1>1 DEF FreeRow, TouchedBy
  <2>. QED
    BY <1>3, <1>7, <2>1, <2>2, OpenOnes DEF ApartOK
<1>13. ASSUME ~crossed PROVE ShownOK(x)
  <2>1. ShownOK(y)
    BY <1>13, OpenOnes
  <2>2. CallsIn(y)[v] \in Name
    BY <1>1, <1>3, Views
  <2>. QED
    BY <1>7, <1>9, <1>10, <2>1, <2>2 DEF ShownOK
<1>14. TidiesOK(x)
  BY <1>7, <1>10 DEF TidiesOK
<1>. QED
  BY <1>1, <1>2, <1>4, <1>7, <1>11, <1>12, <1>13, <1>14, StepWithin

(* The entries of a family that all go by one name name it.                *)
Agree(x, f, n) == /\ MembersIn(x, f) # {} /\ n # HeadsIn(x)[f]
                  /\ Lower[n] = Lower[HeadsIn(x)[f]]
                  /\ \A v \in MembersIn(x, f) : CallsIn(x)[v] = n

LEMMA Respellings ==
    ASSUME NEW s, NEW y, y = session[s], NEW r, r = Respelled(s)
    PROVE  /\ DOMAIN r = {f \in ThereIn(y) : ShowsIn(y)[f] /\ \E n \in Name : Agree(y, f, n)}
           /\ \A f \in DOMAIN r : r[f] \in Name /\ Agree(y, f, r[f])
<1>1. /\ HeadsOf(s) = HeadsIn(y) /\ ShowsOf(s) = ShowsIn(y) /\ CallsOf(s) = CallsIn(y)
      /\ There(s) = ThereIn(y) /\ \A f : Members(s, f) = MembersIn(y, f)
  BY Reads
<1>2. r = [f \in {f \in ThereIn(y) : ShowsIn(y)[f] /\ \E n \in Name : Agree(y, f, n)}
             |-> CHOOSE n \in Name : Agree(y, f, n)]
  BY <1>1 DEF Respelled, Agree
<1>3. \A f : (\E n \in Name : Agree(y, f, n)) =>
          /\ (CHOOSE n \in Name : Agree(y, f, n)) \in Name
          /\ Agree(y, f, CHOOSE n \in Name : Agree(y, f, n))
  OBVIOUS
<1>. QED
  BY <1>2, <1>3

LEMMA RespellStep ==
    ASSUME FamInv, NEW s \in Session, Respell(s)
    PROVE  FamInv'
<1>. PICK y : y = session[s]
  OBVIOUS
<1>c. PICK all : all = Respelled(s)
  OBVIOUS
<1>a. PICK list \in Cuts(DOMAIN all, ListLimit) :
         /\ \A f \in list : Writable(s, f)
         /\ Continue(s, [y EXCEPT !.at = "respelled", !.heads = Wrote(@, [f \in list |-> all[f]]),
                                  !.cut = @ \/ list # DOMAIN all])
  BY <1>c DEF Respell
<1>d. PICK r : r = [f \in list |-> all[f]]
  OBVIOUS
<1>b. list \subseteq DOMAIN all /\ DOMAIN r = list /\ \A f \in list : r[f] = all[f]
  BY <1>d, CutOrAll
<1>1. /\ y.at = "misfiled" /\ y.todo = {} /\ UNCHANGED families /\ UNCHANGED <<crossed, tidied>>
      /\ acts' = acts /\ \A f \in DOMAIN r : Writable(s, f)
  BY <1>a, <1>b DEF Respell, Doing, Inside, families
<1>2. Typed(y) /\ StageOK(y) /\ FiledOK(y) /\ TouchOK(y) /\ NewOK(y) /\ TablesOK /\ y.back = "misfiled"
  BY <1>1, OpenOnes DEF StageOK
<1>e. PICK x : x = [y EXCEPT !.at = "respelled", !.heads = Wrote(@, r), !.cut = @ \/ list # DOMAIN all]
  OBVIOUS
<1>3. session' = [session EXCEPT ![s] = x]
  BY <1>a, <1>d, <1>e DEF Continue
<1>4. /\ DOMAIN all = {f \in ThereIn(y) : ShowsIn(y)[f] /\ \E n \in Name : Agree(y, f, n)}
      /\ DOMAIN r \subseteq DOMAIN all
      /\ \A f \in DOMAIN r : r[f] \in Name /\ Agree(y, f, r[f])
  BY <1>b, <1>c, Respellings
<1>5. SomeRows(r, Family, Name \cup {Deleted}) /\ x.heads = Wrote(y.heads, r)
  BY <1>2, <1>4, <1>e DEF SomeRows, ThereIn, Typed
<1>6. HeadsGo(x, y, r)
  BY <1>2, <1>5, HeadsAfter
<1>7. /\ x.at = "respelled" /\ x.back = "misfiled" /\ x.todo = {} /\ x.variant = y.variant
      /\ x.alone = y.alone /\ (~x.cut => ~y.cut /\ DOMAIN r = DOMAIN all)
      /\ x.calls = y.calls /\ x.shows = y.shows /\ x.puts = y.puts /\ Typed(x)
  BY <1>1, <1>2, <1>6, <1>b, <1>e DEF Typed, Stages, HeadsGo
<1>8. StageOK(x)
  BY <1>7 DEF StageOK, Late
<1>9. ShowsIn(x) = ShowsIn(y) /\ CallsIn(x) = CallsIn(y) /\ PutsIn(x) = PutsIn(y)
  BY <1>7 DEF ShowsIn, CallsIn, PutsIn
<1>10. \A f \in Family : /\ HeadsIn(x)[f] \in Name <=> HeadsIn(y)[f] \in Name
                         /\ Lower[HeadsIn(x)[f]] = Lower[HeadsIn(y)[f]]
                         /\ f \notin DOMAIN r => HeadsIn(x)[f] = HeadsIn(y)[f]
                         /\ f \in DOMAIN r => HeadsIn(x)[f] = r[f]
  <2>. SUFFICES ASSUME NEW f \in Family
                PROVE  /\ HeadsIn(x)[f] \in Name <=> HeadsIn(y)[f] \in Name
                       /\ Lower[HeadsIn(x)[f]] = Lower[HeadsIn(y)[f]]
                       /\ f \notin DOMAIN r => HeadsIn(x)[f] = HeadsIn(y)[f]
                       /\ f \in DOMAIN r => HeadsIn(x)[f] = r[f]
    OBVIOUS
  <2>1. HeadsIn(x)[f] = IF f \in DOMAIN r THEN r[f] ELSE HeadsIn(y)[f]
    BY <1>6 DEF HeadsGo
  <2>2. f \in DOMAIN r => r[f] \in Name /\ HeadsIn(y)[f] \in Name /\ Lower[r[f]] = Lower[HeadsIn(y)[f]]
    BY <1>4 DEF Agree, ThereIn
  <2>. QED
    BY <2>1, <2>2
<1>11. ThereIn(x) = ThereIn(y) /\ \A f : MembersIn(x, f) = MembersIn(y, f)
  BY <1>9, <1>10 DEF ThereIn, MembersIn
<1>12. SessionOK(x)
  <2>1. FiledOK(x)
    BY <1>2, <1>9, <1>10, Views DEF FiledOK
  <2>2. TouchOK(x)
    BY <1>2, <1>7 DEF TouchOK, TouchedBy
  <2>3. NewOK(x)
    BY <1>1, <1>2, <1>4, <1>6, <1>7, FamiliesAssumption DEF NewOK, HeadsGo
  <2>. QED
    BY <1>7, <1>8, <2>1, <2>2, <2>3 DEF SessionOK
<1>13. \A t \in Others(s) : ApartOK(x, session[t]) /\ ApartOK(session[t], x)
  <2>1. TouchedBy(x) = TouchedBy(y)
    BY <1>7 DEF TouchedBy
  <2>2. \A g : Deletes(x, g) => Deletes(y, g)
    BY <1>4, <1>6, FamiliesAssumption DEF HeadsGo, Deletes
  <2>3. \A g \in DOMAIN x.heads : g \in DOMAIN y.heads \/ g \in DOMAIN r
    BY <1>6 DEF HeadsGo
  <2>. QED
    BY <1>1, <1>2, <1>7, <2>1, <2>2, <2>3, OpenOnes DEF ApartOK, Writable, WritesRow
<1>14. ~crossed => ShownOK(x)
  BY <1>7, <1>9, OpenOnes DEF ShownOK
<1>15. ASSUME y.alone, ~x.cut PROVE Astray(x) = {} /\ Spelled(x)
  <2>1. Astray(y) = {}
    BY <1>1, <1>2, <1>7, <1>15, OpenOnes DEF TidiesOK
  <2>2. Astray(x) = {}
    BY <1>2, <1>9, <1>10, <2>1, Views DEF Astray
  <2>3. Spelled(x)
    <3>. SUFFICES ASSUME NEW f \in ThereIn(x), NEW n \in Name, ShowsIn(x)[f],
                         MembersIn(x, f) # {}, \A v \in MembersIn(x, f) : CallsIn(x)[v] = n
                  PROVE  HeadsIn(x)[f] = n
      BY DEF Spelled
    <3>. PICK w : w \in MembersIn(y, f)
      BY <1>11
    <3>1. f \in ThereIn(y) /\ f \in Family /\ ShowsIn(y)[f] /\ CallsIn(y)[w] = n
          /\ \A v \in MembersIn(y, f) : CallsIn(y)[v] = n
      BY <1>9, <1>11 DEF ThereIn
    <3>2. w \in Variant /\ PutsIn(y)[w] = f /\ f # Orphan
      BY <3>1, FamiliesAssumption DEF MembersIn
    <3>3. Lower[n] = Lower[HeadsIn(y)[f]]
      BY <2>1, <3>1, <3>2 DEF Astray
    <3>4. CASE HeadsIn(y)[f] = n
      <4>1. f \notin DOMAIN r
        BY <1>4, <3>1, <3>4 DEF Agree
      <4>. QED
        BY <1>10, <3>1, <3>4, <4>1
    <3>5. CASE HeadsIn(y)[f] # n
      <4>1. Agree(y, f, n)
        BY <3>1, <3>3, <3>5 DEF Agree
      <4>2. f \in DOMAIN r /\ r[f] = n
        BY <1>4, <1>7, <1>15, <3>1, <4>1 DEF Agree
      <4>. QED
        BY <1>10, <3>1, <4>2
    <3>. QED
      BY <3>4, <3>5
  <2>. QED
    BY <2>2, <2>3
<1>16. y.alone => TidiesOK(x)
  BY <1>7, <1>15 DEF TidiesOK, Late
<1>. QED
  BY <1>1, <1>3, <1>7, <1>12, <1>13, <1>14, <1>16, StepWithin, ActsStay

LEMMA HideEmptyStep ==
    ASSUME FamInv, NEW s \in Session, HideEmpty(s)
    PROVE  FamInv'
<1>. PICK y : y = session[s]
  OBVIOUS
<1>a. PICK empty : empty = {f \in ThereIn(y) : ShowsIn(y)[f] /\ MembersIn(y, f) = {}}
  OBVIOUS
<1>d. PICK list \in Cuts(empty, ListLimit) :
         /\ \A f \in list : Writable(s, f)
         /\ Continue(s, [y EXCEPT !.at = "hidden", !.shows = Wrote(@, [f \in list |-> FALSE]),
                                  !.cut = @ \/ list # empty])
  <2>1. empty = {f \in There(s) : ShowsOf(s)[f] /\ Members(s, f) = {}}
    BY <1>a, Reads
  <2>. QED
    BY <2>1 DEF HideEmpty
<1>b. PICK h : h = [f \in list |-> FALSE]
  OBVIOUS
<1>c. PICK x : x = [y EXCEPT !.at = "hidden", !.shows = Wrote(@, h), !.cut = @ \/ list # empty]
  OBVIOUS
<1>1. /\ y.at = "respelled" /\ UNCHANGED families /\ UNCHANGED <<crossed, tidied>>
      /\ acts' = acts /\ \A f \in list : Writable(s, f)
      /\ session' = [session EXCEPT ![s] = x]
  BY <1>b, <1>c, <1>d DEF HideEmpty, Doing, Inside, families, Continue
<1>2. Typed(y) /\ StageOK(y) /\ FiledOK(y) /\ TouchOK(y) /\ NewOK(y) /\ TablesOK
      /\ y.back = "misfiled" /\ y.todo = {}
  BY <1>1, OpenOnes DEF StageOK, Late
<1>3. DOMAIN h = list /\ (\A f \in list : h[f] = FALSE) /\ list \subseteq empty /\ empty \subseteq Family
      /\ \A f : f \in empty <=> f \in ThereIn(y) /\ ShowsIn(y)[f] /\ MembersIn(y, f) = {}
  BY <1>a, <1>b, CutOrAll DEF ThereIn
<1>4. SomeRows(h, Family, BOOLEAN) /\ x.shows = Wrote(y.shows, h)
  BY <1>2, <1>3, <1>c DEF SomeRows, Typed
<1>5. ShowsGo(x, y, h)
  BY <1>2, <1>4, ShowsAfter
<1>6. /\ x.at = "hidden" /\ x.back = "misfiled" /\ x.todo = {} /\ x.variant = y.variant
      /\ x.alone = y.alone /\ (~x.cut => ~y.cut /\ list = empty)
      /\ x.calls = y.calls /\ x.heads = y.heads /\ x.puts = y.puts /\ Typed(x)
  BY <1>2, <1>5, <1>c DEF Typed, Stages, ShowsGo
<1>7. StageOK(x)
  BY <1>6 DEF StageOK, Late
<1>8. HeadsIn(x) = HeadsIn(y) /\ CallsIn(x) = CallsIn(y) /\ PutsIn(x) = PutsIn(y)
  BY <1>6 DEF HeadsIn, CallsIn, PutsIn
<1>9. /\ DOMAIN x.shows = DOMAIN y.shows \cup list
      /\ \A f \in Family : ShowsIn(x)[f] <=> ShowsIn(y)[f] /\ f \notin list
  BY <1>2, <1>3, <1>5, Views DEF ShowsGo
<1>10. ThereIn(x) = ThereIn(y) /\ (\A f : MembersIn(x, f) = MembersIn(y, f)) /\ Astray(x) = Astray(y)
  BY <1>8 DEF ThereIn, MembersIn, Astray
<1>11. SessionOK(x)
  <2>1. FiledOK(x)
    BY <1>2, <1>8 DEF FiledOK
  <2>2. TouchOK(x)
    BY <1>2, <1>6 DEF TouchOK, TouchedBy
  <2>3. \A f \in list : headed[f] # Unmade \/ f \in DOMAIN y.heads
    BY <1>2, <1>3, Views, FamiliesAssumption DEF ThereIn
  <2>4. NewOK(x)
    BY <1>1, <1>2, <1>6, <1>9, <2>3 DEF NewOK
  <2>. QED
    BY <1>6, <1>7, <2>1, <2>2, <2>4 DEF SessionOK
<1>12. \A t \in Others(s) : ApartOK(x, session[t]) /\ ApartOK(session[t], x)
  <2>1. TouchedBy(x) = TouchedBy(y) /\ \A g : Deletes(x, g) <=> Deletes(y, g)
    BY <1>6 DEF TouchedBy, Deletes
  <2>. QED
    BY <1>1, <1>2, <1>6, <1>9, <2>1, OpenOnes DEF ApartOK, Writable, WritesRow
<1>13. ASSUME ~crossed PROVE ShownOK(x)
  <2>1. ShownOK(y)
    BY <1>13, OpenOnes
  <2>2. \A v \in Variant : CallsIn(y)[v] \in Name =>
           PutsIn(y)[v] \in Family /\ PutsIn(y)[v] \notin list
    BY <1>2, <1>3, <2>1, Views DEF ShownOK, MembersIn
  <2>. QED
    BY <1>6, <1>8, <1>9, <2>1, <2>2 DEF ShownOK
<1>14. ASSUME y.alone, ~x.cut PROVE Astray(x) = {} /\ Spelled(x) /\ Filled(x)
  <2>1. Astray(y) = {} /\ Spelled(y)
    BY <1>1, <1>2, <1>6, <1>14, OpenOnes DEF TidiesOK, Late
  <2>2. Spelled(x)
    BY <1>8, <1>9, <1>10, <2>1 DEF Spelled, ThereIn
  <2>3. Filled(x)
    BY <1>3, <1>6, <1>9, <1>10, <1>14 DEF Filled, ThereIn
  <2>. QED
    BY <1>10, <2>1, <2>2, <2>3
<1>15. y.alone => TidiesOK(x)
  BY <1>6, <1>14 DEF TidiesOK, Late
<1>. QED
  BY <1>1, <1>6, <1>11, <1>12, <1>13, <1>15, StepWithin, ActsStay

LEMMA DeleteHiddenStep ==
    ASSUME FamInv, NEW s \in Session, DeleteHidden(s)
    PROVE  FamInv'
<1>. PICK y : y = session[s]
  OBVIOUS
<1>a. PICK gone : gone = y.doomed \cap ThereIn(y)
  OBVIOUS
<1>b. PICK bare : bare = UNION {MembersIn(y, f) : f \in gone}
  OBVIOUS
<1>c. PICK h, p : h = [f \in gone |-> Deleted] /\ p = [v \in bare |-> Orphan]
  OBVIOUS
<1>d. PICK x : x = [y EXCEPT !.at = "committing", !.doomed = {}, !.heads = Wrote(@, h),
                            !.puts = Wrote(@, p)]
  OBVIOUS
<1>1. /\ y.at = "deleting" /\ UNCHANGED families /\ UNCHANGED <<crossed, tidied>> /\ acts' = acts
      /\ \A f \in gone : Removable(s, f)
      /\ \A v \in bare : FreeRow(s, v)
      /\ session' = [session EXCEPT ![s] = x]
  <2>1. gone = session[s].doomed \cap There(s) /\ bare = UNION {Members(s, f) : f \in gone}
    BY <1>a, <1>b, Reads
  <2>. QED
    BY <1>c, <1>d, <2>1 DEF DeleteHidden, Doing, Inside, families, Continue
<1>2. Typed(y) /\ StageOK(y) /\ FiledOK(y) /\ TouchOK(y) /\ NewOK(y) /\ TablesOK
      /\ y.back = "misfiled" /\ y.todo = {}
  BY <1>1, OpenOnes DEF StageOK, Late
<1>3. /\ DOMAIN h = gone /\ \A f \in gone : h[f] = Deleted
      /\ DOMAIN p = bare /\ \A v \in bare : p[v] = Orphan
      /\ gone \subseteq ThereIn(y) /\ gone \subseteq Family
      /\ \A v : v \in bare <=> v \in Variant /\ CallsIn(y)[v] \in Name /\ PutsIn(y)[v] \in gone
      /\ bare \subseteq Variant
  <2>1. DOMAIN h = gone /\ \A f \in gone : h[f] = Deleted
    BY <1>c
  <2>2. DOMAIN p = bare /\ \A v \in bare : p[v] = Orphan
    BY <1>c
  <2>3. gone \subseteq ThereIn(y) /\ gone \subseteq Family
    BY <1>a DEF ThereIn
  <2>4. \A v : v \in bare <=> \E f \in gone : v \in MembersIn(y, f)
    BY <1>b
  <2>5. \A v : v \in bare <=> v \in Variant /\ CallsIn(y)[v] \in Name /\ PutsIn(y)[v] \in gone
    BY <2>4 DEF MembersIn
  <2>. QED
    BY <2>1, <2>2, <2>3, <2>5
<1>4. /\ SomeRows(h, Family, Name \cup {Deleted}) /\ x.heads = Wrote(y.heads, h)
      /\ SomeRows(p, Variant, Family \cup {Orphan}) /\ x.puts = Wrote(y.puts, p)
  BY <1>2, <1>3, <1>d DEF SomeRows, Typed
<1>5. HeadsGo(x, y, h) /\ PutsGo(x, y, p)
  BY <1>2, <1>4, HeadsAfter, PutsAfter
<1>6. /\ x.at = "committing" /\ x.back = "misfiled" /\ x.todo = {} /\ x.variant = y.variant
      /\ x.alone = y.alone /\ x.cut = y.cut /\ x.calls = y.calls /\ x.shows = y.shows /\ Typed(x)
  BY <1>2, <1>5, <1>d DEF Typed, Stages, HeadsGo, PutsGo
<1>7. StageOK(x)
  BY <1>6 DEF StageOK, Late
<1>8. ShowsIn(x) = ShowsIn(y) /\ CallsIn(x) = CallsIn(y)
  BY <1>6 DEF ShowsIn, CallsIn
<1>9. /\ DOMAIN x.heads = DOMAIN y.heads \cup gone /\ DOMAIN x.puts = DOMAIN y.puts \cup bare
      /\ \A f \in Family : HeadsIn(x)[f] = IF f \in gone THEN Deleted ELSE HeadsIn(y)[f]
      /\ \A v \in Variant : PutsIn(x)[v] = IF v \in bare THEN Orphan ELSE PutsIn(y)[v]
      /\ \A v \in DOMAIN x.puts : x.puts[v] = IF v \in bare THEN Orphan ELSE y.puts[v]
  BY <1>3, <1>5 DEF HeadsGo, PutsGo
<1>10. \A v \in Variant : PutsIn(x)[v] # Orphan =>
          /\ v \notin bare /\ PutsIn(y)[v] = PutsIn(x)[v] /\ CallsIn(y)[v] \in Name
          /\ PutsIn(x)[v] \in Family /\ PutsIn(x)[v] \notin gone
          /\ HeadsIn(x)[PutsIn(x)[v]] = HeadsIn(y)[PutsIn(y)[v]]
          /\ HeadsIn(y)[PutsIn(y)[v]] \in Name
  BY <1>2, <1>3, <1>9, Views DEF FiledOK
<1>11. SessionOK(x)
  <2>1. FiledOK(x)
    BY <1>8, <1>10 DEF FiledOK
  <2>2. \A v \in bare : v \notin DOMAIN y.calls => called[v] \in Name
    BY <1>2, <1>3, Views
  <2>3. TouchOK(x)
    BY <1>2, <1>6, <1>9, <2>2 DEF TouchOK, TouchedBy
  <2>4. NewOK(x)
    BY <1>2, <1>6, <1>9 DEF NewOK
  <2>. QED
    BY <1>6, <1>7, <2>1, <2>3, <2>4 DEF SessionOK
<1>12. \A t \in Others(s) : ApartOK(x, session[t]) /\ ApartOK(session[t], x)
  <2>. SUFFICES ASSUME NEW t \in Others(s)
                PROVE  ApartOK(x, session[t]) /\ ApartOK(session[t], x)
    OBVIOUS
  <2>. PICK z : z = session[t]
    OBVIOUS
  <2>1. ApartOK(y, z) /\ ApartOK(z, y) /\ Typed(z)
    BY OpenOnes DEF SessionOK
  <2>2. \A f \in gone : f \notin DOMAIN z.heads \cup DOMAIN z.shows
                        /\ \A v \in DOMAIN z.puts : z.puts[v] # f
    BY <1>1 DEF Removable, Writable, WritesRow, HoldsOn
  <2>3. \A v \in bare : v \notin TouchedBy(z)
    BY <1>1 DEF FreeRow, TouchedBy
  <2>4. \A f \in Family : ~(/\ f \in DOMAIN x.heads \cup DOMAIN x.shows
                            /\ f \in DOMAIN z.heads \cup DOMAIN z.shows)
    BY <1>6, <1>9, <2>1, <2>2 DEF ApartOK
  <2>5. TouchedBy(x) \cap TouchedBy(z) = {}
    BY <1>6, <1>9, <2>1, <2>3 DEF ApartOK, TouchedBy
  <2>6. ~Deletes(z, Orphan)
    BY <2>1, FamiliesAssumption DEF Typed, SomeRows, Deletes
  <2>7. \A v \in DOMAIN x.puts : ~Deletes(z, x.puts[v])
    BY <1>9, <2>1, <2>6 DEF ApartOK
  <2>8. \A f : Deletes(x, f) => f \in gone \/ Deletes(y, f)
    BY <1>3, <1>5 DEF Deletes, HeadsGo
  <2>9. \A v \in DOMAIN z.puts : ~Deletes(x, z.puts[v])
    BY <2>1, <2>2, <2>8 DEF ApartOK
  <2>10. ApartOK(x, z)
    BY <1>6, <2>4, <2>5, <2>7 DEF ApartOK
  <2>11. ApartOK(z, x)
    BY <1>6, <2>4, <2>5, <2>9 DEF ApartOK
  <2>. QED
    BY <2>10, <2>11
<1>13. ASSUME y.alone PROVE bare = {} /\ (~y.cut => gone = Needless(y))
  <2>1. y.doomed \subseteq Needless(y) /\ (~y.cut => y.doomed = Needless(y))
    BY <1>1, <1>2, <1>13, OpenOnes DEF TidiesOK
  <2>. QED
    BY <1>a, <1>3, <2>1 DEF Needless, MembersIn
<1>14. ASSUME ~crossed PROVE ShownOK(x)
  <2>1. ShownOK(y) /\ bare = {}
    BY <1>1, <1>13, <1>14, OpenOnes
  <2>. QED
    BY <1>6, <1>8, <1>9, <2>1 DEF ShownOK
<1>15. ASSUME y.alone, ~x.cut
       PROVE  Astray(x) = {} /\ Spelled(x) /\ Filled(x) /\ Needless(x) = {}
  <2>1. Astray(y) = {} /\ Spelled(y) /\ Filled(y)
    BY <1>1, <1>2, <1>6, <1>15, OpenOnes DEF TidiesOK, Late
  <2>2. \A f : MembersIn(x, f) = MembersIn(y, f)
    BY <1>8, <1>9, <1>13, <1>15 DEF MembersIn
  <2>3. \A f \in ThereIn(x) : f \in ThereIn(y) /\ f \notin gone /\ HeadsIn(x)[f] = HeadsIn(y)[f]
    BY <1>9, FamiliesAssumption DEF ThereIn
  <2>4. Astray(x) = {}
    BY <1>8, <1>10, <2>1 DEF Astray
  <2>5. Spelled(x) /\ Filled(x)
    BY <1>8, <2>1, <2>2, <2>3 DEF Spelled, Filled
  <2>6. Needless(x) = {}
    BY <1>6, <1>8, <1>13, <1>15, <2>2, <2>3 DEF Needless
  <2>. QED
    BY <2>4, <2>5, <2>6
<1>16. y.alone => TidiesOK(x)
  BY <1>6, <1>15 DEF TidiesOK, Late
<1>. QED
  BY <1>1, <1>6, <1>11, <1>12, <1>14, <1>16, StepWithin, ActsStay

-----------------------------------------------------------------------------
(* Transactions begin and end. *)

(* One that is no longer alone is otherwise as it was.                     *)
Like(x, y) == SameRows(x, y) /\ x.at = y.at /\ x.back = y.back /\ x.variant = y.variant

LEMMA LikeApart ==
    ASSUME NEW x, NEW y, NEW z, NEW w, Like(x, y), Like(z, w), ApartOK(y, w)
    PROVE  ApartOK(x, z)
  BY DEF Like, SameRows, ApartOK, TouchedBy, Deletes

AsWas(z, y) == /\ SessionOK(z) /\ Like(z, y)
               /\ ShownOK(z) <=> ShownOK(y)
               /\ TidiesOK(z) <=> TidiesOK(y)

LEMMA Aside ==
    ASSUME NEW y, SessionOK(y), NEW b \in BOOLEAN, y.at # "idle" \/ b = FALSE,
           NEW z, z = [y EXCEPT !.alone = b]
    PROVE  AsWas(z, y) /\ z.alone = b
<1>1. Typed(y) /\ StageOK(y) /\ FiledOK(y) /\ TouchOK(y) /\ NewOK(y)
  BY DEF SessionOK
<1>2. /\ z.at = y.at /\ z.back = y.back /\ z.variant = y.variant /\ z.name = y.name
      /\ z.family = y.family /\ z.todo = y.todo /\ z.doomed = y.doomed /\ SameRows(z, y)
      /\ z.alone = b /\ z.cut = y.cut /\ z.left = y.left
  BY <1>1 DEF Typed, SameRows
<1>3. Typed(z)
  BY <1>1, <1>2 DEF Typed, SameRows
<1>4. y.at = "idle" => z = Closed
  <2>. SUFFICES ASSUME y.at = "idle" PROVE z = Closed
    OBVIOUS
  <2>1. y = Closed /\ b = FALSE
    BY <1>1 DEF StageOK
  <2>. QED
    BY <2>1 DEF Closed
<1>5. StageOK(z)
  BY <1>1, <1>2, <1>4 DEF StageOK
<1>6. SameSight(z, y)
  BY <1>2, SameShow
<1>7. TouchOK(z) /\ NewOK(z)
  BY <1>1, <1>2 DEF TouchOK, TouchedBy, NewOK, SameRows
<1>8. SessionOK(z)
  BY <1>1, <1>3, <1>5, <1>6, <1>7, SightDecides DEF SessionOK
<1>9. ShownOK(z) <=> ShownOK(y)
  BY <1>2, <1>6 DEF ShownOK, SameSight
<1>10. TidiesOK(z) <=> TidiesOK(y)
  <2>1. ThereIn(z) = ThereIn(y) /\ Astray(z) = Astray(y) /\ Needless(z) = Needless(y)
        /\ (Spelled(z) <=> Spelled(y)) /\ (Filled(z) <=> Filled(y))
    BY <1>6, SightDecides
  <2>. QED
    BY <1>2, <1>6, <2>1 DEF TidiesOK, SameSight
<1>. QED
  BY <1>2, <1>8, <1>9, <1>10 DEF Like, AsWas

LEMMA OpensStep ==
    ASSUME FamInv, NEW s \in Session, NEW x, Opens(s, x), Typed(x), StageOK(x),
           SameRows(x, Closed),
           \/ x.at = "looking" /\ x.back = "promoting"
           \/ x.at = "naming" /\ x.back = "naming",
           x.back = "promoting" => called[x.variant] = Unmade
                                   /\ \A t \in Busy : session[t].variant # x.variant
    PROVE  FamInv'
<1>. PICK b \in BOOLEAN : b = (Busy = {})
  OBVIOUS
<1>1. /\ session[s].at = "idle" /\ acts < MaxActs /\ acts' = acts + 1
      /\ session' = [t \in Session |-> IF t = s THEN [x EXCEPT !.alone = b]
                                                ELSE [session[t] EXCEPT !.alone = FALSE]]
      /\ crossed' = (crossed \/ Busy # {})
      /\ UNCHANGED families /\ UNCHANGED tidied
  BY DEF Opens, Doing, Counted
<1>2. TablesOK /\ FiledOK(Closed) /\ (~crossed => ShownOK(Closed))
  BY DEF FamInv, LocksOK
<1>3. \A t \in Session : SessionOK(session[t])
  BY DEF FamInv, LocksOK
<1>4. Closed.heads = NoRows /\ Closed.shows = NoRows /\ Closed.calls = NoRows
      /\ Closed.puts = NoRows /\ Closed.back = "idle"
  BY DEF Closed
<1>5. SessionOK(x)
  <2>1. FiledOK(x)
    BY <1>2, SameShow, SightDecides
  <2>2. TouchOK(x) /\ NewOK(x)
    BY <1>4, NoRowsYet DEF TouchOK, NewOK, TouchedBy, SameRows
  <2>. QED
    BY <2>1, <2>2 DEF SessionOK
<1>6. \A t \in Session \ {s} : ApartOK(x, session[t]) /\ ApartOK(session[t], x)
  <2>. SUFFICES ASSUME NEW t \in Session \ {s}
                PROVE  ApartOK(x, session[t]) /\ ApartOK(session[t], x)
    OBVIOUS
  <2>. PICK y : y = session[t]
    OBVIOUS
  <2>1. y.back = "promoting" => t \in Busy
    BY <1>3, <1>4 DEF SessionOK, StageOK, Busy, Doing
  <2>2. x.heads = NoRows /\ x.shows = NoRows /\ TouchedBy(x) = {} /\ DOMAIN x.puts = {}
    BY <1>4, NoRowsYet DEF SameRows, TouchedBy
  <2>3. \A f : ~Deletes(x, f)
    BY <2>2, NoRowsYet DEF Deletes
  <2>. QED
    BY <2>1, <2>2, <2>3, NoRowsYet DEF ApartOK
<1>7. ASSUME ~crossed' PROVE ShownOK(x)
  <2>1. ShownOK(Closed) /\ SameSight(x, Closed)
    BY <1>1, <1>2, <1>7, SameShow
  <2>. QED
    BY <2>1 DEF ShownOK, SameSight
<1>8. TidiesOK(x)
  BY DEF TidiesOK
<1>. PICK old : old = [t \in Session |-> IF t = s THEN x ELSE session[t]]
  OBVIOUS
<1>9. \A t \in Session : SessionOK(old[t])
  BY <1>3, <1>5
<1>10. \A t \in Session : /\ AsWas(session'[t], old[t])
                          /\ session'[t].alone <=> t = s /\ Busy = {}
  <2>. SUFFICES ASSUME NEW t \in Session
                PROVE  /\ AsWas(session'[t], old[t])
                       /\ session'[t].alone <=> t = s /\ Busy = {}
    OBVIOUS
  <2>. PICK y : y = old[t]
    OBVIOUS
  <2>. PICK c \in BOOLEAN : c = IF t = s THEN b ELSE FALSE
    OBVIOUS
  <2>. PICK z : z = [y EXCEPT !.alone = c]
    OBVIOUS
  <2>1. session'[t] = z
    BY <1>1
  <2>2. SessionOK(y) /\ (y.at # "idle" \/ c = FALSE)
    BY <1>9
  <2>3. AsWas(z, y) /\ z.alone = c
    BY <2>2, Aside
  <2>. QED
    BY <2>1, <2>3
<1>11. Busy' = Busy \cup {s} /\ DOMAIN session' = Session
  BY <1>1, <1>10 DEF Busy, Doing, Like, AsWas
<1>12. TablesOK'
  BY <1>1, <1>2, <1>11, FamiliesAssumption DEF TablesOK, families
<1>13. LocksOK'
  <2>1. \A t \in Session : SessionOK(session[t])'
    BY <1>1, <1>10, StillTables DEF AsWas
  <2>2. \A t, u \in Session : t # u => ApartOK(old[t], old[u])
    BY <1>6 DEF FamInv, LocksOK
  <2>3. \A t, u \in Session : t # u => ApartOK(session'[t], session'[u])
    BY <1>10, <2>2, LikeApart DEF AsWas
  <2>4. \A t, u \in Session : t # u => ApartOK(session[t], session[u])'
    BY <2>3 DEF ApartOK, Deletes, TouchedBy
  <2>5. FiledOK(Closed)' /\ (\A f \in Family : headed[f] = Unmade => visible[f])'
    BY <1>1, StillTables DEF FamInv, LocksOK, families
  <2>. QED
    BY <2>1, <2>4, <2>5 DEF LocksOK
<1>14. AloneOK'
  BY <1>1, <1>10, <1>11 DEF AloneOK
<1>15. ~crossed' => \A t \in Session : ShownOK(session[t])'
  <2>1. ~crossed' => \A t \in Session : ShownOK(old[t])
    BY <1>1, <1>7 DEF FamInv
  <2>2. ~crossed' => \A t \in Session : ShownOK(session'[t])
    BY <1>10, <2>1 DEF AsWas
  <2>. QED
    BY <1>1, <2>2, StillTables
<1>16. ~crossed' => ShownOK(Closed)'
  BY <1>1, <1>2, StillTables
<1>17. \A t \in Session : session'[t].alone => TidiesOK(session[t])'
  <2>1. \A t \in Session : session'[t].alone => TidiesOK(session'[t])
    BY <1>8, <1>10 DEF AsWas
  <2>. QED
    BY <1>1, <2>1, StillTables
<1>18. FamiliesFollow'
  <2>1. (~crossed' => ~crossed) /\ UNCHANGED <<headed, visible, called, under, tidied>>
    BY <1>1 DEF families
  <2>. QED
    BY <2>1 DEF FamInv, FamiliesFollow, Made, Stands, In
<1>. QED
  BY <1>12, <1>13, <1>14, <1>15, <1>16, <1>17, <1>18 DEF FamInv

LEMMA BeginPromotionStep ==
    ASSUME FamInv, NEW s \in Session, NEW v \in Variant, NEW n \in Name, BeginPromotion(s, v, n)
    PROVE  FamInv'
<1>. PICK x : x = [Closed EXCEPT !.at = "looking", !.back = "promoting",
                                 !.variant = v, !.name = n]
  OBVIOUS
<1>1. /\ Opens(s, x) /\ called[v] = Unmade /\ \A t \in Busy : session[t].variant # v
  BY DEF BeginPromotion
<1>2. Typed(Closed)
  BY ClosedOK DEF FamInv, LocksOK, SessionOK
<1>3. /\ Typed(x) /\ SameRows(x, Closed) /\ x.at = "looking" /\ x.back = "promoting"
      /\ x.variant = v /\ x.name = n
  BY <1>2 DEF Typed, SameRows, Stages
<1>4. StageOK(x)
  BY <1>3 DEF StageOK, Late
<1>. QED
  BY <1>1, <1>3, <1>4, OpensStep

LEMMA BeginRebuildStep ==
    ASSUME FamInv, NEW s \in Session, BeginRebuild(s)
    PROVE  FamInv'
<1>. PICK x : x = [Closed EXCEPT !.at = "naming", !.back = "naming"]
  OBVIOUS
<1>1. Opens(s, x)
  BY DEF BeginRebuild
<1>2. Typed(Closed)
  BY ClosedOK DEF FamInv, LocksOK, SessionOK
<1>3. Typed(x) /\ SameRows(x, Closed) /\ x.at = "naming" /\ x.back = "naming"
  BY <1>2 DEF Typed, SameRows, Stages
<1>4. StageOK(x)
  BY <1>3 DEF StageOK, Late
<1>. QED
  BY <1>1, <1>3, <1>4, OpensStep

LEMMA CutOffStep ==
    ASSUME FamInv, NEW s \in Session, CutOff(s)
    PROVE  FamInv'
<1>1. /\ session' = [session EXCEPT ![s] = Closed] /\ UNCHANGED families
      /\ UNCHANGED <<acts, crossed, tidied>>
      /\ session'[s] = Closed /\ DOMAIN session' = Session
      /\ \A t \in Session \ {s} : session'[t] = session[t]
  BY DEF CutOff, families, FamInv, TablesOK
<1>2. /\ TablesOK /\ FiledOK(Closed) /\ (~crossed => ShownOK(Closed))
      /\ \A t \in Session : SessionOK(session[t])
  BY DEF FamInv, LocksOK
<1>3. /\ SessionOK(Closed) /\ ~Closed.alone /\ Closed.at = "idle"
      /\ \A t \in Session : ApartOK(Closed, session[t]) /\ ApartOK(session[t], Closed)
  <2>1. Closed.at = "idle"
    BY DEF Closed
  <2>. QED
    BY <1>2, <2>1, ClosedOK
<1>4. TablesOK'
  BY <1>1, <1>2 DEF TablesOK, families
<1>5. LocksOK'
  <2>1. \A t \in Session : SessionOK(session[t])'
    BY <1>1, <1>2, <1>3, StillTables
  <2>2. \A t, u \in Session : t # u => ApartOK(session'[t], session'[u])
    BY <1>1, <1>3 DEF FamInv, LocksOK
  <2>3. \A t, u \in Session : t # u => ApartOK(session[t], session[u])'
    BY <2>2 DEF ApartOK, Deletes, TouchedBy
  <2>4. FiledOK(Closed)' /\ (\A f \in Family : headed[f] = Unmade => visible[f])'
    BY <1>1, StillTables DEF FamInv, LocksOK, families
  <2>. QED
    BY <2>1, <2>3, <2>4 DEF LocksOK
<1>6. AloneOK'
  <2>1. Busy' = Busy \ {s}
    BY <1>1, <1>3 DEF Busy, Doing
  <2>. QED
    BY <1>1, <1>3, <2>1 DEF FamInv, AloneOK
<1>7. \A t \in Session : ~crossed' => ShownOK(session[t])'
  BY <1>1, <1>2, StillTables DEF FamInv
<1>8. ~crossed' => ShownOK(Closed)'
  BY <1>1, <1>2, StillTables
<1>9. \A t \in Session : session'[t].alone => TidiesOK(session[t])'
  BY <1>1, <1>3, StillTables DEF FamInv
<1>10. FamiliesFollow'
  BY <1>1 DEF FamInv, FamiliesFollow, families, Made, Stands, In
<1>. QED
  BY <1>4, <1>5, <1>6, <1>7, <1>8, <1>9, <1>10 DEF FamInv

(* What another sees of the tables once they have changed.                 *)
LEMMA ViewsNext ==
    ASSUME TablesOK', NEW x, Typed(x)
    PROVE  /\ \A f \in Family :
                 /\ HeadsIn(x)'[f] = IF f \in DOMAIN x.heads THEN x.heads[f] ELSE headed'[f]
                 /\ ShowsIn(x)'[f] = IF f \in DOMAIN x.shows THEN x.shows[f] ELSE visible'[f]
           /\ \A v \in Variant :
                 /\ CallsIn(x)'[v] = IF v \in DOMAIN x.calls THEN x.calls[v] ELSE called'[v]
                 /\ PutsIn(x)'[v] = IF v \in DOMAIN x.puts THEN x.puts[v] ELSE under'[v]
                 /\ PutsIn(x)'[v] \in Family \cup {Orphan}
<1>1. /\ \A z \in Family : HeadsIn(x)'[z] = IF z \in DOMAIN x.heads THEN x.heads[z] ELSE headed'[z]
      /\ \A z \in Family : ShowsIn(x)'[z] = IF z \in DOMAIN x.shows THEN x.shows[z] ELSE visible'[z]
      /\ \A z \in Variant : CallsIn(x)'[z] = IF z \in DOMAIN x.calls THEN x.calls[z] ELSE called'[z]
      /\ \A z \in Variant : PutsIn(x)'[z] = IF z \in DOMAIN x.puts THEN x.puts[z] ELSE under'[z]
  BY Seen DEF HeadsIn, ShowsIn, CallsIn, PutsIn, TablesOK
<1>2. \A z \in Variant : PutsIn(x)'[z] \in Family \cup {Orphan}
  BY <1>1 DEF Typed, SomeRows, TablesOK
<1>. QED
  BY <1>1, <1>2

(* One that wrote nothing sees the tables as they are.                     *)
LEMMA ClosedSees ==
    ASSUME NEW table, NEW D, NEW V, table \in [D -> V]
    PROVE  SeenOver(NoRows, table) = table
  BY NoRowsYet DEF SeenOver

(* The tables are what x saw, and the others are apart from it.            *)
LEMMA OverCommit ==
    ASSUME TablesOK, NEW x, SessionOK(x), TablesOK',
           headed' = HeadsIn(x), visible' = ShowsIn(x), called' = CallsIn(x), under' = PutsIn(x),
           NEW y, SessionOK(y), ApartOK(x, y), ApartOK(y, x)
    PROVE  SessionOK(y)'
<1>1. Typed(x) /\ FiledOK(x) /\ TouchOK(x) /\ NewOK(x)
      /\ Typed(y) /\ StageOK(y) /\ FiledOK(y) /\ TouchOK(y) /\ NewOK(y)
  BY DEF SessionOK
<1>2. FiledOK(y)'
  <2>. SUFFICES ASSUME NEW v \in Variant, PutsIn(y)'[v] # Orphan
                PROVE  CallsIn(y)'[v] \in Name /\ HeadsIn(y)'[PutsIn(y)'[v]] \in Name
    BY DEF FiledOK
  <2>. PICK g : g = PutsIn(y)'[v]
    OBVIOUS
  <2>1. g \in Family
    BY <1>1, ViewsNext
  <2>2. HeadsIn(y)'[g] = IF g \in DOMAIN y.heads THEN y.heads[g] ELSE HeadsIn(x)[g]
    BY <1>1, <2>1, ViewsNext
  <2>3. CASE v \in TouchedBy(y)
    <3>1. v \notin TouchedBy(x)
      BY <2>3 DEF ApartOK
    <3>2. called'[v] = called[v] /\ under'[v] = under[v]
      BY <1>1, <3>1, Views DEF TouchedBy
    <3>3. CallsIn(y)'[v] = CallsIn(y)[v] /\ PutsIn(y)[v] = g
      BY <1>1, <3>2, Views, ViewsNext
    <3>4. CallsIn(y)[v] \in Name /\ HeadsIn(y)[g] \in Name
      BY <1>1, <3>3 DEF FiledOK
    <3>5. g \in DOMAIN y.heads => HeadsIn(y)'[g] \in Name
      BY <1>1, <2>1, <2>2, <3>4, Views
    <3>6. ASSUME g \notin DOMAIN y.heads PROVE HeadsIn(x)[g] \in Name
      <4>1. headed[g] \in Name
        BY <1>1, <2>1, <3>4, <3>6, Views
      <4>2. ~Deletes(x, g)
        <5>1. CASE v \in DOMAIN y.puts
          <6>1. y.puts[v] = g
            BY <1>1, <3>3, <5>1, Views
          <6>. QED
            BY <5>1, <6>1 DEF ApartOK
        <5>2. CASE v \notin DOMAIN y.puts
          <6>1. under[v] = g /\ PutsIn(x)[v] = g
            BY <1>1, <3>1, <3>3, <5>2, Views DEF TouchedBy
          <6>2. HeadsIn(x)[g] \in Name
            BY <1>1, <6>1 DEF FiledOK
          <6>. QED
            BY <1>1, <2>1, <6>2, Views, FamiliesAssumption DEF Deletes
        <5>. QED
          BY <5>1, <5>2
      <4>3. g \in DOMAIN x.heads => x.heads[g] \in Name
        BY <1>1, <4>2 DEF Typed, SomeRows, Deletes
      <4>. QED
        BY <1>1, <2>1, <4>1, <4>3, Views
    <3>. QED
      BY <2>2, <3>3, <3>4, <3>5, <3>6
  <2>4. CASE v \notin TouchedBy(y)
    <3>1. CallsIn(y)'[v] = CallsIn(x)[v] /\ PutsIn(x)[v] = g
      BY <1>1, <2>4, ViewsNext DEF TouchedBy
    <3>2. CallsIn(x)[v] \in Name /\ HeadsIn(x)[g] \in Name
      BY <1>1, <3>1 DEF FiledOK
    <3>3. ASSUME g \in DOMAIN y.heads PROVE y.heads[g] \in Name
      <4>1. ~Deletes(y, g)
        <5>1. CASE v \in DOMAIN x.puts
          <6>1. x.puts[v] = g
            BY <1>1, <3>1, <5>1, Views
          <6>. QED
            BY <5>1, <6>1 DEF ApartOK
        <5>2. CASE v \notin DOMAIN x.puts
          <6>1. PutsIn(y)[v] = g
            BY <1>1, <2>4, <3>1, <5>2, Views DEF TouchedBy
          <6>2. HeadsIn(y)[g] \in Name
            BY <1>1, <6>1 DEF FiledOK
          <6>. QED
            BY <1>1, <2>1, <6>2, Views, FamiliesAssumption DEF Deletes
        <5>. QED
          BY <5>1, <5>2
      <4>. QED
        BY <1>1, <3>3, <4>1 DEF Typed, SomeRows, Deletes
    <3>. QED
      BY <2>2, <3>1, <3>2, <3>3
  <2>. QED
    BY <2>3, <2>4
<1>3. TouchOK(y)'
  <2>1. \A v \in TouchedBy(y) : v \in Variant /\ called'[v] = called[v]
    <3>. SUFFICES ASSUME NEW v \in TouchedBy(y) PROVE v \in Variant /\ called'[v] = called[v]
      OBVIOUS
    <3>1. v \in Variant /\ v \notin TouchedBy(x)
      BY <1>1 DEF Typed, SomeRows, TouchedBy, ApartOK
    <3>. QED
      BY <1>1, <3>1, Views DEF TouchedBy
  <2>2. ASSUME y.back = "promoting" PROVE called'[y.variant] = Unmade
    <3>1. y.variant \in Variant /\ called[y.variant] = Unmade
      BY <1>1, <2>2 DEF StageOK, TouchOK
    <3>2. y.variant \notin DOMAIN x.calls
      BY <1>1, <2>2, <3>1, FamiliesAssumption DEF TouchOK, TouchedBy, ApartOK
    <3>. QED
      BY <1>1, <3>1, <3>2, Views
  <2>. QED
    BY <1>1, <2>1, <2>2 DEF TouchOK, TouchedBy
<1>4. NewOK(y)'
  <2>1. \A f \in DOMAIN y.shows : f \in Family /\ (headed'[f] # Unmade \/ f \in DOMAIN y.heads)
    <3>. SUFFICES ASSUME NEW f \in DOMAIN y.shows
                  PROVE  f \in Family /\ (headed'[f] # Unmade \/ f \in DOMAIN y.heads)
      OBVIOUS
    <3>1. f \in Family /\ f \notin DOMAIN x.heads
      BY <1>1 DEF Typed, SomeRows, ApartOK
    <3>. QED
      BY <1>1, <3>1, Views DEF NewOK
  <2>. QED
    BY <1>1, <2>1 DEF NewOK
<1>. QED
  BY <1>1, <1>2, <1>3, <1>4 DEF SessionOK

LEMMA CommitsStep ==
    ASSUME FamInv, NEW s \in Session, Commits(s)
    PROVE  FamInv'
<1>. PICK x : x = session[s]
  OBVIOUS
<1>1. /\ x.at = "committing"
      /\ headed' = HeadsIn(x) /\ visible' = ShowsIn(x)
      /\ called' = CallsIn(x) /\ under' = PutsIn(x)
      /\ tidied' = (x.alone /\ x.back = "misfiled" /\ ~x.cut)
      /\ session' = [session EXCEPT ![s] = Closed] /\ UNCHANGED <<acts, crossed>>
  BY Reads DEF Commits, Doing
<1>2. /\ SessionOK(x) /\ TablesOK /\ FiledOK(Closed)
      /\ Typed(x) /\ StageOK(x) /\ FiledOK(x) /\ NewOK(x)
      /\ \A t \in Session : SessionOK(session[t])
  BY DEF FamInv, LocksOK, SessionOK
<1>3. /\ session'[s] = Closed /\ DOMAIN session' = Session
      /\ \A t \in Session \ {s} : session'[t] = session[t]
  BY <1>1, <1>2 DEF TablesOK
<1>4. /\ SessionOK(Closed) /\ ~Closed.alone /\ Closed.at = "idle"
      /\ ApartOK(Closed, x) /\ ApartOK(x, Closed)
      /\ \A t \in Session : ApartOK(Closed, session[t]) /\ ApartOK(session[t], Closed)
  <2>1. Closed.at = "idle"
    BY DEF Closed
  <2>. QED
    BY <1>2, <2>1, ClosedOK
<1>5. TablesOK'
  <2>1. /\ HeadsIn(x) = [f \in Family |-> HeadsIn(x)[f]]
        /\ ShowsIn(x) = [f \in Family |-> ShowsIn(x)[f]]
        /\ CallsIn(x) = [v \in Variant |-> CallsIn(x)[v]]
        /\ PutsIn(x) = [v \in Variant |-> PutsIn(x)[v]]
    BY <1>2 DEF HeadsIn, ShowsIn, CallsIn, PutsIn, SeenOver, TablesOK
  <2>2. HeadsIn(x) \in [Family -> Name \cup {Unmade, Deleted}]
    BY <1>2, <2>1, Views
  <2>3. ShowsIn(x) \in [Family -> BOOLEAN]
    BY <1>2, <2>1, Views
  <2>4. CallsIn(x) \in [Variant -> Name \cup {Unmade, Deleted}]
    BY <1>2, <2>1, Views
  <2>5. PutsIn(x) \in [Variant -> Family \cup {Orphan}]
    BY <1>2, <2>1, Views
  <2>6. tidied' \in BOOLEAN
    BY <1>1
  <2>. QED
    BY <1>1, <1>2, <1>3, <2>2, <2>3, <2>4, <2>5, <2>6 DEF TablesOK
<1>6. SessionOK(Closed)' /\ FiledOK(Closed)'
  <2>1. SessionOK(Closed)'
    BY <1>1, <1>2, <1>4, <1>5, OverCommit
  <2>. QED
    BY <2>1 DEF SessionOK
<1>7. \A t \in Session : SessionOK(session[t])'
  <2>. SUFFICES ASSUME NEW t \in Session PROVE SessionOK(session[t])'
    OBVIOUS
  <2>1. CASE t = s
    BY <1>3, <1>6, <2>1
  <2>2. CASE t # s
    <3>. PICK y : y = session[t]
      OBVIOUS
    <3>1. SessionOK(y) /\ ApartOK(x, y) /\ ApartOK(y, x) /\ session'[t] = y
      BY <1>2, <1>3, <2>2 DEF FamInv, LocksOK
    <3>2. SessionOK(y)'
      BY <1>1, <1>2, <1>5, <3>1, OverCommit
    <3>. QED
      BY <3>1, <3>2
  <2>. QED
    BY <2>1, <2>2
<1>8. LocksOK'
  <2>1. \A t, u \in Session : t # u => ApartOK(session'[t], session'[u])
    BY <1>3, <1>4 DEF FamInv, LocksOK
  <2>2. \A t, u \in Session : t # u => ApartOK(session[t], session[u])'
    BY <2>1 DEF ApartOK, Deletes, TouchedBy
  <2>3. \A f \in Family : headed'[f] = Unmade => visible'[f]
    <3>. SUFFICES ASSUME NEW f \in Family, headed'[f] = Unmade PROVE visible'[f]
      OBVIOUS
    <3>1. f \notin DOMAIN x.heads /\ headed[f] = Unmade
      BY <1>1, <1>2, Views, FamiliesAssumption DEF Typed, SomeRows
    <3>2. f \notin DOMAIN x.shows /\ visible[f]
      BY <1>2, <3>1 DEF NewOK, FamInv, LocksOK
    <3>. QED
      BY <1>1, <1>2, <3>2, Views
  <2>. QED
    BY <1>6, <1>7, <2>2, <2>3 DEF LocksOK
<1>9. s \in Busy /\ Busy' = Busy \ {s}
  BY <1>1, <1>3, <1>4 DEF Busy, Doing
<1>10. AloneOK'
  BY <1>1, <1>3, <1>4, <1>9 DEF FamInv, AloneOK
<1>11. /\ HeadsIn(Closed)' = HeadsIn(x) /\ ShowsIn(Closed)' = ShowsIn(x)
       /\ CallsIn(Closed)' = CallsIn(x) /\ PutsIn(Closed)' = PutsIn(x)
  <2>1. Closed.heads = NoRows /\ Closed.shows = NoRows /\ Closed.calls = NoRows /\ Closed.puts = NoRows
    BY DEF Closed
  <2>. QED
    BY <1>1, <1>5, <2>1, ClosedSees DEF HeadsIn, ShowsIn, CallsIn, PutsIn, TablesOK
<1>12. ASSUME ~crossed PROVE ShownOK(x) /\ ShownOK(Closed)' /\ Busy' = {}
  <2>1. ShownOK(x)
    BY <1>12 DEF FamInv
  <2>2. Busy' = {}
    BY <1>9, <1>12 DEF FamInv, AloneOK
  <2>. QED
    BY <1>4, <1>11, <2>1, <2>2 DEF ShownOK
<1>13. ASSUME NEW t \in Session, ~crossed PROVE ShownOK(session[t])'
  <2>1. session'[t].at = "idle"
    BY <1>12, <1>13 DEF Busy, Doing
  <2>2. StageOK(session[t])'
    BY <1>7 DEF SessionOK
  <2>3. session'[t] = Closed
    BY <2>1, <2>2 DEF StageOK
  <2>. QED
    BY <1>12, <1>13, <2>3
<1>14. \A t \in Session : ~session'[t].alone \/ t = s
  BY <1>3, <1>9 DEF FamInv, AloneOK
<1>15. \A t \in Session : session'[t].alone => TidiesOK(session[t])'
  BY <1>3, <1>4, <1>14
<1>16. FamiliesFollow'
  <2>1. ASSUME ~crossed', NEW v \in Variant, Made(v)'
        PROVE  under'[v] # Orphan /\ visible'[under'[v]]
    BY <1>1, <1>12, <2>1 DEF ShownOK, Made
  <2>2. ASSUME tidied' PROVE Astray(x) = {} /\ Spelled(x) /\ Filled(x) /\ Needless(x) = {}
    <3>1. x.alone /\ x.back = "misfiled" /\ ~x.cut /\ x.todo = {}
      BY <1>1, <1>2, <2>2 DEF StageOK, Late
    <3>2. TidiesOK(x)
      BY <3>1 DEF FamInv
    <3>. QED
      BY <1>1, <3>1, <3>2 DEF TidiesOK, Late
  <2>3. /\ \A f \in Family : In(f)' = MembersIn(x, f)
        /\ \A f \in Family : Stands(f)' <=> f \in ThereIn(x)
    BY <1>1 DEF In, Made, Stands, MembersIn, ThereIn
  <2>4. ASSUME tidied', NEW v \in Variant, under'[v] # Orphan
        PROVE  Lower[called'[v]] = Lower[headed'[under'[v]]]
    BY <1>1, <2>2, <2>4 DEF Astray
  <2>5. ASSUME tidied', NEW f \in Family, Stands(f)', visible'[f] PROVE In(f)' # {}
    BY <1>1, <2>2, <2>3, <2>5 DEF Filled
  <2>6. ASSUME tidied', NEW f \in Family, Stands(f)', visible'[f],
               NEW n \in Name, \A v \in In(f)' : called'[v] = n
        PROVE  headed'[f] = n
    BY <1>1, <2>2, <2>3, <2>5, <2>6 DEF Spelled
  <2>7. ASSUME tidied', NEW f \in Family \ TheTrail, Stands(f)' PROVE In(f)' # {}
    <3>1. CASE visible'[f]
      BY <2>5, <2>7, <3>1
    <3>2. CASE ~visible'[f]
      BY <1>1, <2>2, <2>3, <2>7, <3>2 DEF Needless
    <3>. QED
      BY <3>1, <3>2
  <2>. QED
    BY <2>1, <2>4, <2>5, <2>6, <2>7 DEF FamiliesFollow
<1>. QED
  BY <1>1, <1>5, <1>8, <1>10, <1>12, <1>13, <1>15, <1>16 DEF FamInv

-----------------------------------------------------------------------------
(* The requests of people. *)

LEMMA HandStep ==
    ASSUME FamInv, ByHand, UNCHANGED visible,
           headed' \in [Family -> Name \cup {Unmade, Deleted}],
           called' \in [Variant -> Name \cup {Unmade, Deleted}],
           under' \in [Variant -> Family \cup {Orphan}],
           \A f \in Family : headed'[f] = Unmade => headed[f] = Unmade,
           \A z : SessionOK(z) /\ (z = Closed \/ \E t \in Session : Like(z, session[t]))
                     => SessionOK(z)',
           ~crossed => ShownOK(Closed)'
    PROVE  FamInv'
<1>1. /\ session' = [t \in Session |-> [session[t] EXCEPT !.alone = FALSE]]
      /\ crossed' = (crossed \/ Busy # {}) /\ tidied' = FALSE /\ acts' = acts + 1 /\ acts < MaxActs
  BY DEF ByHand, Counted
<1>2. /\ TablesOK /\ FiledOK(Closed) /\ \A f \in Family : headed[f] = Unmade => visible[f]
      /\ \A t \in Session : SessionOK(session[t])
  BY DEF FamInv, LocksOK
<1>3. TablesOK'
  <2>1. acts' \in 0..MaxActs /\ crossed' \in BOOLEAN /\ tidied' \in BOOLEAN /\ DOMAIN session' = Session
    <3>1. MaxActs \in Nat
      BY FamiliesAssumption
    <3>2. acts \in 0..MaxActs
      BY <1>2 DEF TablesOK
    <3>3. acts' \in 0..MaxActs
      BY <1>1, <3>1, <3>2
    <3>4. crossed' \in BOOLEAN /\ tidied' \in BOOLEAN
      BY <1>1
    <3>5. DOMAIN session' = Session
      BY <1>1
    <3>. QED
      BY <3>3, <3>4, <3>5
  <2>. QED
    BY <1>2, <2>1 DEF TablesOK
<1>4. \A t \in Session : AsWas(session'[t], session[t]) /\ ~session'[t].alone
  <2>. SUFFICES ASSUME NEW t \in Session
                PROVE  AsWas(session'[t], session[t]) /\ ~session'[t].alone
    OBVIOUS
  <2>. PICK y : y = session[t]
    OBVIOUS
  <2>. PICK c \in BOOLEAN : c = FALSE
    OBVIOUS
  <2>. PICK z : z = [y EXCEPT !.alone = c]
    OBVIOUS
  <2>1. session'[t] = z
    BY <1>1
  <2>2. SessionOK(y)
    BY <1>2
  <2>3. AsWas(z, y) /\ z.alone = c
    BY <2>2, Aside
  <2>. QED
    BY <2>1, <2>3
<1>5. FiledOK(Closed)'
  <2>1. SessionOK(Closed)'
    BY <1>2, ClosedOK
  <2>. QED
    BY <2>1 DEF SessionOK
<1>6. \A t \in Session : SessionOK(session[t])'
  <2>. SUFFICES ASSUME NEW t \in Session PROVE SessionOK(session[t])'
    OBVIOUS
  <2>. PICK z : z = session'[t]
    OBVIOUS
  <2>1. SessionOK(z) /\ Like(z, session[t])
    BY <1>4 DEF AsWas
  <2>2. SessionOK(z)'
    BY <2>1
  <2>. QED
    BY <2>2
<1>7. LocksOK'
  <2>1. \A t, u \in Session : t # u => ApartOK(session'[t], session'[u])
    BY <1>4, LikeApart DEF FamInv, LocksOK, AsWas
  <2>2. \A t, u \in Session : t # u => ApartOK(session[t], session[u])'
    BY <2>1 DEF ApartOK, Deletes, TouchedBy
  <2>3. (\A f \in Family : headed[f] = Unmade => visible[f])'
    BY <1>2
  <2>. QED
    BY <1>5, <1>6, <2>2, <2>3 DEF LocksOK
<1>8. Busy' = Busy /\ (~crossed' => ~crossed /\ Busy = {})
  BY <1>1, <1>4 DEF Busy, Doing, AsWas, Like
<1>9. AloneOK'
  BY <1>4, <1>8 DEF AloneOK
<1>10. ASSUME ~crossed', NEW t \in Session PROVE ShownOK(session[t])'
  <2>1. session'[t].at = "idle"
    BY <1>8, <1>10 DEF Busy, Doing
  <2>2. StageOK(session[t])'
    BY <1>6 DEF SessionOK
  <2>3. session'[t] = Closed
    BY <2>1, <2>2 DEF StageOK
  <2>. QED
    BY <1>8, <1>10, <2>3
<1>11. ASSUME ~crossed' PROVE FamiliesFollow'
  <2>1. ShownOK(Closed)'
    BY <1>8, <1>11
  <2>2. /\ ShowsIn(Closed)' = visible' /\ CallsIn(Closed)' = called' /\ PutsIn(Closed)' = under'
    <3>1. Closed.shows = NoRows /\ Closed.calls = NoRows /\ Closed.puts = NoRows
      BY DEF Closed
    <3>. QED
      BY <1>3, <3>1, ClosedSees DEF ShowsIn, CallsIn, PutsIn, TablesOK
  <2>. QED
    BY <1>1, <2>1, <2>2 DEF FamiliesFollow, ShownOK, Made
<1>12. FamiliesFollow'
  BY <1>1, <1>11 DEF FamiliesFollow
<1>. QED
  BY <1>3, <1>4, <1>7, <1>8, <1>9, <1>10, <1>12 DEF FamInv

LEMMA ClosedTouches == TouchedBy(Closed) = {} /\ Closed.back = "idle"
  BY NoRowsYet DEF Closed, TouchedBy

(* Whoever is under way does not touch v, and does not make it either.     *)
LEMMA Untouched ==
    ASSUME FamInv, NEW v, called[v] \in Name,
           \A t \in Busy : v \notin DOMAIN session[t].calls /\ v \notin DOMAIN session[t].puts,
           NEW z, SessionOK(z), z = Closed \/ \E t \in Session : Like(z, session[t])
    PROVE  v \notin TouchedBy(z) /\ (z.back = "promoting" => z.variant # v)
<1>1. \A t \in Session \ Busy : session[t] = Closed
  BY DEF Busy, Doing, FamInv, LocksOK, SessionOK, StageOK
<1>2. \A t \in Session : v \notin TouchedBy(session[t])
  BY <1>1, ClosedTouches DEF TouchedBy
<1>3. v \notin TouchedBy(z)
  BY <1>2, ClosedTouches DEF Like, SameRows, TouchedBy
<1>4. z.back = "promoting" => z.variant # v
  BY FamiliesAssumption DEF SessionOK, TouchOK
<1>. QED
  BY <1>3, <1>4

LEMMA RenameVariantStep ==
    ASSUME FamInv, NEW v \in Variant, NEW n \in Name, RenameVariant(v, n)
    PROVE  FamInv'
<1>1. /\ ByHand /\ called[v] \in Name /\ called' = [called EXCEPT ![v] = n]
      /\ \A t \in Busy : v \notin DOMAIN session[t].calls /\ v \notin DOMAIN session[t].puts
      /\ UNCHANGED <<headed, visible, under>>
  BY DEF RenameVariant
<1>2. /\ TablesOK /\ SessionOK(Closed) /\ (~crossed => ShownOK(Closed))
  BY ClosedOK DEF FamInv, LocksOK
<1>3. \A y : /\ HeadsIn(y)' = HeadsIn(y) /\ ShowsIn(y)' = ShowsIn(y) /\ PutsIn(y)' = PutsIn(y)
             /\ \A w \in Variant : CallsIn(y)[w] \in Name <=> CallsIn(y)'[w] \in Name
  <2>. SUFFICES ASSUME NEW y
                PROVE  /\ HeadsIn(y)' = HeadsIn(y) /\ ShowsIn(y)' = ShowsIn(y) /\ PutsIn(y)' = PutsIn(y)
                       /\ \A w \in Variant : CallsIn(y)[w] \in Name <=> CallsIn(y)'[w] \in Name
    OBVIOUS
  <2>1. HeadsIn(y)' = HeadsIn(y) /\ ShowsIn(y)' = ShowsIn(y) /\ PutsIn(y)' = PutsIn(y)
    BY <1>1 DEF HeadsIn, ShowsIn, PutsIn
  <2>2. /\ \A w \in Variant : CallsIn(y)[w] = IF w \in DOMAIN y.calls THEN y.calls[w] ELSE called[w]
        /\ \A w \in Variant : CallsIn(y)'[w] = IF w \in DOMAIN y.calls THEN y.calls[w] ELSE called'[w]
    <3>1. DOMAIN called = Variant /\ DOMAIN called' = Variant
      BY <1>1, <1>2 DEF TablesOK
    <3>2. \A w \in Variant : CallsIn(y)[w] = IF w \in DOMAIN y.calls THEN y.calls[w] ELSE called[w]
      BY <3>1, Seen DEF CallsIn
    <3>3. \A w \in Variant : CallsIn(y)'[w] = IF w \in DOMAIN y.calls THEN y.calls[w] ELSE called'[w]
      BY <3>1, Seen DEF CallsIn
    <3>. QED
      BY <3>2, <3>3
  <2>3. \A w \in Variant : called[w] \in Name <=> called'[w] \in Name
    BY <1>1, <1>2 DEF TablesOK
  <2>. QED
    BY <2>1, <2>2, <2>3
<1>4. ASSUME NEW z, SessionOK(z), z = Closed \/ \E t \in Session : Like(z, session[t])
      PROVE  SessionOK(z)'
  <2>1. v \notin TouchedBy(z) /\ (z.back = "promoting" => z.variant # v)
    BY <1>1, <1>4, Untouched
  <2>2. Typed(z) /\ StageOK(z) /\ FiledOK(z) /\ TouchOK(z) /\ NewOK(z)
    BY <1>4 DEF SessionOK
  <2>3. FiledOK(z)'
    BY <1>3, <2>2 DEF FiledOK
  <2>4. TouchOK(z)'
    BY <1>1, <1>2, <2>1, <2>2 DEF TouchOK, TouchedBy, TablesOK
  <2>5. NewOK(z)'
    BY <1>1, <2>2 DEF NewOK
  <2>. QED
    BY <2>2, <2>3, <2>4, <2>5 DEF SessionOK
<1>5. ~crossed => ShownOK(Closed)'
  BY <1>2, <1>3 DEF ShownOK
<1>6. /\ headed' \in [Family -> Name \cup {Unmade, Deleted}]
      /\ called' \in [Variant -> Name \cup {Unmade, Deleted}]
      /\ under' \in [Variant -> Family \cup {Orphan}]
  BY <1>1, <1>2 DEF TablesOK
<1>. QED
  BY <1>1, <1>4, <1>5, <1>6, HandStep

LEMMA RenameFamilyStep ==
    ASSUME FamInv, NEW f \in Family, NEW n \in Name, RenameFamily(f, n)
    PROVE  FamInv'
<1>1. /\ ByHand /\ headed[f] \in Name /\ headed' = [headed EXCEPT ![f] = n]
      /\ UNCHANGED <<visible, called, under>>
  BY DEF RenameFamily
<1>2. /\ TablesOK /\ SessionOK(Closed) /\ (~crossed => ShownOK(Closed))
  BY ClosedOK DEF FamInv, LocksOK
<1>3. \A g \in Family : /\ headed[g] \in Name <=> headed'[g] \in Name
                        /\ headed[g] = Unmade <=> headed'[g] = Unmade
  BY <1>1, <1>2, FamiliesAssumption DEF TablesOK
<1>4. \A y : /\ CallsIn(y)' = CallsIn(y) /\ ShowsIn(y)' = ShowsIn(y) /\ PutsIn(y)' = PutsIn(y)
             /\ \A g \in Family : HeadsIn(y)[g] \in Name <=> HeadsIn(y)'[g] \in Name
  <2>. SUFFICES ASSUME NEW y
                PROVE  /\ CallsIn(y)' = CallsIn(y) /\ ShowsIn(y)' = ShowsIn(y) /\ PutsIn(y)' = PutsIn(y)
                       /\ \A g \in Family : HeadsIn(y)[g] \in Name <=> HeadsIn(y)'[g] \in Name
    OBVIOUS
  <2>1. CallsIn(y)' = CallsIn(y) /\ ShowsIn(y)' = ShowsIn(y) /\ PutsIn(y)' = PutsIn(y)
    BY <1>1 DEF CallsIn, ShowsIn, PutsIn
  <2>2. /\ \A g \in Family : HeadsIn(y)[g] = IF g \in DOMAIN y.heads THEN y.heads[g] ELSE headed[g]
        /\ \A g \in Family : HeadsIn(y)'[g] = IF g \in DOMAIN y.heads THEN y.heads[g] ELSE headed'[g]
    <3>1. DOMAIN headed = Family /\ DOMAIN headed' = Family
      BY <1>1, <1>2 DEF TablesOK
    <3>2. \A g \in Family : HeadsIn(y)[g] = IF g \in DOMAIN y.heads THEN y.heads[g] ELSE headed[g]
      BY <3>1, Seen DEF HeadsIn
    <3>3. \A g \in Family : HeadsIn(y)'[g] = IF g \in DOMAIN y.heads THEN y.heads[g] ELSE headed'[g]
      BY <3>1, Seen DEF HeadsIn
    <3>. QED
      BY <3>2, <3>3
  <2>. QED
    BY <1>3, <2>1, <2>2
<1>5. ASSUME NEW z, SessionOK(z) PROVE SessionOK(z)'
  <2>1. Typed(z) /\ StageOK(z) /\ FiledOK(z) /\ TouchOK(z) /\ NewOK(z)
    BY <1>5 DEF SessionOK
  <2>2. FiledOK(z)'
    BY <1>2, <1>4, <2>1, Views DEF FiledOK
  <2>3. TouchOK(z)'
    BY <1>1, <2>1 DEF TouchOK, TouchedBy
  <2>4. NewOK(z)'
    BY <1>3, <2>1 DEF NewOK, Typed, SomeRows
  <2>. QED
    BY <2>1, <2>2, <2>3, <2>4 DEF SessionOK
<1>6. ~crossed => ShownOK(Closed)'
  BY <1>2, <1>4 DEF ShownOK
<1>7. /\ headed' \in [Family -> Name \cup {Unmade, Deleted}]
      /\ called' \in [Variant -> Name \cup {Unmade, Deleted}]
      /\ under' \in [Variant -> Family \cup {Orphan}]
  BY <1>1, <1>2 DEF TablesOK
<1>. QED
  BY <1>1, <1>3, <1>5, <1>6, <1>7, HandStep

LEMMA FoldAwayStep ==
    ASSUME FamInv, NEW v \in Variant, FoldAway(v)
    PROVE  FamInv'
<1>1. /\ ByHand /\ called[v] \in Name
      /\ called' = [called EXCEPT ![v] = Deleted] /\ under' = [under EXCEPT ![v] = Orphan]
      /\ \A t \in Busy : v \notin DOMAIN session[t].calls /\ v \notin DOMAIN session[t].puts
      /\ UNCHANGED <<headed, visible>>
  BY DEF FoldAway
<1>2. /\ TablesOK /\ SessionOK(Closed) /\ (~crossed => ShownOK(Closed))
  BY ClosedOK DEF FamInv, LocksOK
<1>3. \A y : v \notin TouchedBy(y) =>
             /\ HeadsIn(y)' = HeadsIn(y) /\ ShowsIn(y)' = ShowsIn(y)
             /\ CallsIn(y)'[v] = Deleted /\ PutsIn(y)'[v] = Orphan
             /\ \A w \in Variant \ {v} : CallsIn(y)'[w] = CallsIn(y)[w] /\ PutsIn(y)'[w] = PutsIn(y)[w]
  <2>. SUFFICES ASSUME NEW y, v \notin TouchedBy(y)
                PROVE  /\ HeadsIn(y)' = HeadsIn(y) /\ ShowsIn(y)' = ShowsIn(y)
                       /\ CallsIn(y)'[v] = Deleted /\ PutsIn(y)'[v] = Orphan
                       /\ \A w \in Variant \ {v} :
                             CallsIn(y)'[w] = CallsIn(y)[w] /\ PutsIn(y)'[w] = PutsIn(y)[w]
    OBVIOUS
  <2>1. HeadsIn(y)' = HeadsIn(y) /\ ShowsIn(y)' = ShowsIn(y)
    BY <1>1 DEF HeadsIn, ShowsIn
  <2>2. /\ \A w \in Variant : CallsIn(y)[w] = IF w \in DOMAIN y.calls THEN y.calls[w] ELSE called[w]
        /\ \A w \in Variant : CallsIn(y)'[w] = IF w \in DOMAIN y.calls THEN y.calls[w] ELSE called'[w]
    <3>1. DOMAIN called = Variant /\ DOMAIN called' = Variant
      BY <1>1, <1>2 DEF TablesOK
    <3>2. \A w \in Variant : CallsIn(y)[w] = IF w \in DOMAIN y.calls THEN y.calls[w] ELSE called[w]
      BY <3>1, Seen DEF CallsIn
    <3>3. \A w \in Variant : CallsIn(y)'[w] = IF w \in DOMAIN y.calls THEN y.calls[w] ELSE called'[w]
      BY <3>1, Seen DEF CallsIn
    <3>. QED
      BY <3>2, <3>3
  <2>3. /\ \A w \in Variant : PutsIn(y)[w] = IF w \in DOMAIN y.puts THEN y.puts[w] ELSE under[w]
        /\ \A w \in Variant : PutsIn(y)'[w] = IF w \in DOMAIN y.puts THEN y.puts[w] ELSE under'[w]
    <3>1. DOMAIN under = Variant /\ DOMAIN under' = Variant
      BY <1>1, <1>2 DEF TablesOK
    <3>2. \A w \in Variant : PutsIn(y)[w] = IF w \in DOMAIN y.puts THEN y.puts[w] ELSE under[w]
      BY <3>1, Seen DEF PutsIn
    <3>3. \A w \in Variant : PutsIn(y)'[w] = IF w \in DOMAIN y.puts THEN y.puts[w] ELSE under'[w]
      BY <3>1, Seen DEF PutsIn
    <3>. QED
      BY <3>2, <3>3
  <2>4. /\ called'[v] = Deleted /\ under'[v] = Orphan
        /\ \A w \in Variant \ {v} : called'[w] = called[w] /\ under'[w] = under[w]
    BY <1>1, <1>2 DEF TablesOK
  <2>. QED
    BY <2>1, <2>2, <2>3, <2>4 DEF TouchedBy
<1>4. ASSUME NEW z, SessionOK(z), z = Closed \/ \E t \in Session : Like(z, session[t])
      PROVE  SessionOK(z)'
  <2>1. v \notin TouchedBy(z) /\ (z.back = "promoting" => z.variant # v)
    BY <1>1, <1>4, Untouched
  <2>2. Typed(z) /\ StageOK(z) /\ FiledOK(z) /\ TouchOK(z) /\ NewOK(z)
    BY <1>4 DEF SessionOK
  <2>3. FiledOK(z)'
    BY <1>3, <2>1, <2>2 DEF FiledOK
  <2>4. TouchOK(z)'
    BY <1>1, <1>2, <2>1, <2>2 DEF TouchOK, TouchedBy, TablesOK
  <2>5. NewOK(z)'
    BY <1>1, <2>2 DEF NewOK
  <2>. QED
    BY <2>2, <2>3, <2>4, <2>5 DEF SessionOK
<1>5. ASSUME ~crossed PROVE ShownOK(Closed)'
  <2>1. ShownOK(Closed) /\ v \notin TouchedBy(Closed) /\ Closed.at = "idle"
    BY <1>2, <1>5, ClosedTouches DEF Closed
  <2>. QED
    BY <1>3, <2>1, FamiliesAssumption DEF ShownOK
<1>6. /\ headed' \in [Family -> Name \cup {Unmade, Deleted}]
      /\ called' \in [Variant -> Name \cup {Unmade, Deleted}]
      /\ under' \in [Variant -> Family \cup {Orphan}]
  BY <1>1, <1>2 DEF TablesOK
<1>. QED
  BY <1>1, <1>4, <1>5, <1>6, HandStep

-----------------------------------------------------------------------------
LEMMA FamStart == FamInit => FamInv
<1>. SUFFICES ASSUME FamInit PROVE FamInv
  OBVIOUS
<1>1. /\ session = [s \in Session |-> Closed] /\ acts = 0 /\ crossed = FALSE /\ tidied = FALSE
      /\ headed \in [Family -> Name \cup {Unmade}] /\ called \in [Variant -> Name \cup {Unmade}]
      /\ under \in [Variant -> Family \cup {Orphan}] /\ visible \in [Family -> BOOLEAN]
      /\ \A v \in Variant : /\ called[v] = Unmade => under[v] = Orphan
                            /\ called[v] # Unmade => under[v] # Orphan /\ headed[under[v]] # Unmade
                            /\ under[v] # Orphan => visible[under[v]]
      /\ \A f \in Family : ~visible[f] => headed[f] # Unmade
  BY DEF FamInit
<1>2. TablesOK
  <2>1. /\ headed \in [Family -> Name \cup {Unmade, Deleted}]
        /\ called \in [Variant -> Name \cup {Unmade, Deleted}]
    BY <1>1
  <2>2. acts \in 0..MaxActs /\ crossed \in BOOLEAN /\ tidied \in BOOLEAN /\ DOMAIN session = Session
    <3>1. MaxActs \in Nat
      BY FamiliesAssumption
    <3>2. acts \in 0..MaxActs
      BY <1>1, <3>1
    <3>3. crossed \in BOOLEAN /\ tidied \in BOOLEAN
      BY <1>1
    <3>4. DOMAIN session = Session
      BY <1>1
    <3>. QED
      BY <3>2, <3>3, <3>4
  <2>. QED
    BY <1>1, <2>1, <2>2 DEF TablesOK
<1>3. /\ HeadsIn(Closed) = headed /\ ShowsIn(Closed) = visible
      /\ CallsIn(Closed) = called /\ PutsIn(Closed) = under
      /\ Closed.at = "idle"
  <2>1. Closed.heads = NoRows /\ Closed.shows = NoRows /\ Closed.calls = NoRows
        /\ Closed.puts = NoRows /\ Closed.at = "idle"
    BY DEF Closed
  <2>. QED
    BY <1>2, <2>1, ClosedSees DEF HeadsIn, ShowsIn, CallsIn, PutsIn, TablesOK
<1>4. FiledOK(Closed)
  BY <1>1, <1>3, FamiliesAssumption DEF FiledOK
<1>5. SessionOK(Closed) /\ ~Closed.alone /\ ApartOK(Closed, Closed)
  BY <1>2, <1>4, ClosedOK
<1>6. LocksOK
  BY <1>1, <1>4, <1>5 DEF LocksOK
<1>7. AloneOK
  BY <1>1, <1>3, <1>5 DEF AloneOK, Busy, Doing
<1>8. ShownOK(Closed)
  BY <1>1, <1>3, FamiliesAssumption DEF ShownOK
<1>9. FamiliesFollow
  BY <1>1, <1>3, <1>8 DEF FamiliesFollow, ShownOK, Made
<1>. QED
  BY <1>1, <1>2, <1>5, <1>6, <1>7, <1>8, <1>9 DEF FamInv

LEMMA FamOn == FamInv /\ [FamNext]_famVars => FamInv'
<1>. SUFFICES ASSUME FamInv, [FamNext]_famVars PROVE FamInv'
  OBVIOUS
<1>1. CASE \E s \in Session, v \in Variant, n \in Name : BeginPromotion(s, v, n)
  BY <1>1, BeginPromotionStep
<1>2. CASE \E s \in Session : BeginRebuild(s) \/ Commits(s) \/ CutOff(s)
  BY <1>2, BeginRebuildStep, CommitsStep, CutOffStep
<1>3. CASE \E s \in Session : Files(s)
  BY <1>3, FindFamilyStep, FileNewStep, RehomeStep, FamilyGoneStep DEF Files
<1>4. CASE \E s \in Session : Rebuilds(s)
  BY <1>4, RenameStaleStep, ListMisfiledStep, TakeMisfiledStep, RespellStep, HideEmptyStep,
     SelectHiddenStep, DeleteHiddenStep DEF Rebuilds
<1>5. CASE \E v \in Variant, n \in Name : RenameVariant(v, n)
  BY <1>5, RenameVariantStep
<1>6. CASE \E f \in Family, n \in Name : RenameFamily(f, n)
  BY <1>6, RenameFamilyStep
<1>7. CASE \E v \in Variant : FoldAway(v)
  BY <1>7, FoldAwayStep
<1>8. CASE UNCHANGED famVars
  <2>1. UNCHANGED families /\ UNCHANGED <<session, acts, crossed, tidied>>
    BY <1>8 DEF famVars
  <2>2. TablesOK'
    BY <2>1 DEF FamInv, TablesOK, families
  <2>3. \A s \in Session : /\ SessionOK(session[s])'
                           /\ ~crossed' => ShownOK(session[s])'
                           /\ session'[s].alone => TidiesOK(session[s])'
    BY <2>1, StillTables DEF FamInv, LocksOK
  <2>4. LocksOK'
    <3>1. \A s, t \in Session : s # t => ApartOK(session[s], session[t])'
      BY <2>1 DEF FamInv, LocksOK, ApartOK, Deletes, TouchedBy
    <3>2. FiledOK(Closed)' /\ (\A f \in Family : headed[f] = Unmade => visible[f])'
      BY <2>1, StillTables DEF FamInv, LocksOK, families
    <3>. QED
      BY <2>3, <3>1, <3>2 DEF LocksOK
  <2>5. AloneOK'
    BY <2>1 DEF FamInv, AloneOK, Busy, Doing
  <2>6. ~crossed' => ShownOK(Closed)'
    BY <2>1, StillTables DEF FamInv
  <2>7. FamiliesFollow'
    BY <2>1 DEF FamInv, FamiliesFollow, families, Made, Stands, In
  <2>. QED
    BY <2>2, <2>3, <2>4, <2>5, <2>6, <2>7 DEF FamInv
<1>. QED
  BY <1>1, <1>2, <1>3, <1>4, <1>5, <1>6, <1>7, <1>8 DEF FamNext

LEMMA FamHolds == FamSpec => []FamInv
<1>. QED
  BY FamStart, FamOn, PTL DEF FamSpec

(* Every variable of the families has its type, no two transactions write  *)
(* one row, and every entry is filed under a family that is there.         *)
THEOREM FamTyped == FamSpec => []FamTypeOK
<1>1. ASSUME FamInv PROVE FamTypeOK
  <2>1. TablesOK /\ FiledOK(Closed) /\ \A s \in Session : SessionOK(session[s])
    BY <1>1 DEF FamInv, LocksOK
  <2>2. HeadsIn(Closed) = headed /\ CallsIn(Closed) = called /\ PutsIn(Closed) = under
    <3>1. Closed.heads = NoRows /\ Closed.calls = NoRows /\ Closed.puts = NoRows
      BY DEF Closed
    <3>. QED
      BY <2>1, <3>1, ClosedSees DEF HeadsIn, CallsIn, PutsIn, TablesOK
  <2>3. \A v \in Variant : under[v] # Orphan => Made(v) /\ Stands(under[v])
    BY <2>1, <2>2 DEF FiledOK, Made, Stands
  <2>4. \A s \in Session : Doing(s, "idle") => session[s] = Closed
    BY <2>1 DEF SessionOK, StageOK, Doing
  <2>5. \A s \in Session : \A t \in Others(s) :
           /\ \A f \in Family : ~(WritesRow(s, f) /\ WritesRow(t, f))
           /\ DOMAIN session[s].puts \cap DOMAIN session[t].puts = {}
    BY <1>1 DEF FamInv, LocksOK, ApartOK, Others, WritesRow, TouchedBy
  <2>. QED
    BY <2>1, <2>3, <2>4, <2>5 DEF FamTypeOK, TablesOK
<1>. QED
  BY <1>1, FamHolds, PTL

(* No entry is in a hidden family or in none, unless transactions crossed; *)
(* and a rebuild that nobody crossed, and none of whose lists was longer   *)
(* than its limit allows, leaves each filed entry under a family of its    *)
(* name that is spelled as its entries agree, no visible family empty, and *)
(* no empty one that nothing names: for any families, entries, names,      *)
(* transactions and limit (_family, _rehome, _misfiled, _empty_families,   *)
(* _delete_empty_hidden_families in matching/service.py).                  *)
THEOREM EntriesFollow == FamSpec => []FamiliesFollow
<1>1. FamInv => FamiliesFollow
  BY DEF FamInv
<1>. QED
  BY <1>1, FamHolds, PTL
=============================================================================
