------------------------------ MODULE MCParts -------------------------------
(***************************************************************************)
(* The parts that share no state, side by side in one run: in a behaviour  *)
(* one of them moves and the others stay where they began.                 *)
(***************************************************************************)
EXTENDS Catalogue, Categories, Walk, Snapshots, Fetching, Verdicts, Families, Makers

CONSTANTS
    o1, o2,          \* listings
    m1, m2,          \* models
    a1, a2,          \* axes
    v1, v2,          \* values
    p1, p2, p3, p4,  \* products of a category
    k1, k2, k3,      \* products of a shop's disk
    f1, f2,          \* files
    q1, q2,          \* questions
    h1, h2, h3,      \* families
    b1, b2, b3,      \* makers
    t1, t2,          \* categories
    e1, e2, r1, r2,  \* editors, requests of a run
    j1, j2, s1, s2   \* passes of the judge, transactions

VARIABLE part

Part == {"catalogue", "tree", "walk", "snapshots", "fetching", "verdicts",
         "families", "makers"}

\* Readings of one model, and one of the other with both axes said.
Mixed == {r \in Reading : \/ r.model = m1
                          \/ r = [gtin |-> Unknown, model |-> m2, axes |-> [a \in Axis |-> v1]]}
\* A category of four products and one of three, p4 left out of both.
Categories34 == {<<p1, p2, p3, p4>>, <<p4, p1, p2>>}
\* Two products share a file.
TwoShare == [k \in {k1, k2, k3} |-> IF k = k1 THEN f1 ELSE f2]
\* Two listings ask the same question.
TwoAsk == <<q1, q1, q2>>
\* Two spellings of one model, and another model.
Spellings == {"A", "a", "B"}
LowerOf == [n \in Spellings |-> IF n = "B" THEN "b" ELSE "a"]
\* The second is there only beside the first, the third is yet to be made.
AtMostTwo == {h \in [Family -> {"A", "B", Unmade}] :
                  /\ h[h1] # "B" /\ h[h2] # "A" /\ h[h3] = Unmade
                  /\ h[h2] = "B" => h[h1] = "A"}

\* Two listings whose field says what two makers are called, and one that has
\* its maker at the end of its title.
Fields     == <<<<"delta">>, <<"delta">>, <<>>>>
Titles     == <<<<"fan">>, <<"drill">>, <<"lamp", "osram">>>>
Models     == <<<<"m">>, <<"n">>, <<"k">>>>
Shelves    == <<t1, t1, t2>>
BothDelta  == {<<<<"delta">>, b1>>, <<<<"delta">>, b2>>, <<<<"osram">>, b3>>}
OneLessOrMore == {<<<<"delta">>, b2>>, <<<<"delta">>, b3>>}
FirstMakes == {[maker |-> b1, model |-> <<"o">>, category |-> t1]}
BothMake   == {[maker |-> b2, model |-> <<"o">>, category |-> t1]}

\* Either of two listings, products, editors, ... may be the first. As one part
\* moves, they may all be swapped at once.
AsIn(p, x, y) == IF p[o1] = o1 THEN (x :> x) @@ (y :> y) ELSE (x :> y) @@ (y :> x)
Alike == {p @@ AsIn(p, k2, k3) @@ AsIn(p, e1, e2) @@ AsIn(p, r1, r2)
            @@ AsIn(p, j1, j2) @@ AsIn(p, s1, s2) : p \in Permutations({o1, o2})}

PartsInit ==
    /\ part \in Part
    /\ CatInit      /\ (part # "catalogue" => readings = [o \in Offer |-> CHOOSE r \in AtFirst : TRUE])
    /\ TreeInit
    /\ WalkInit     /\ (part # "walk" => way = "told" /\ shop = <<p4, p1, p2>> /\ size = 1 /\ ~mixed)
    /\ SnapInit
    /\ FetchInit    /\ (part # "fetching" => direct)
    /\ VerdictsInit
    /\ headed \in IF part = "families" THEN AtMostTwo ELSE {[f \in Family |-> Unmade]}
    /\ MakersInit
    /\ FamInit      /\ called[2] = Unmade

PartsNext ==
    \/ /\ part = "catalogue" /\ CatNext
       /\ UNCHANGED <<part, treeVars, walkVars, snapVars, fetchVars, verdictVars, famVars, makerVars>>
    \/ /\ part = "tree" /\ TreeNext
       /\ UNCHANGED <<part, catVars, walkVars, snapVars, fetchVars, verdictVars, famVars, makerVars>>
    \/ /\ part = "walk" /\ WalkNext
       /\ UNCHANGED <<part, catVars, treeVars, snapVars, fetchVars, verdictVars, famVars, makerVars>>
    \/ /\ part = "snapshots" /\ SnapNext
       /\ UNCHANGED <<part, catVars, treeVars, walkVars, fetchVars, verdictVars, famVars, makerVars>>
    \/ /\ part = "fetching" /\ FetchNext
       /\ UNCHANGED <<part, catVars, treeVars, walkVars, snapVars, verdictVars, famVars, makerVars>>
    \/ /\ part = "verdicts" /\ VerdictsNext
       /\ UNCHANGED <<part, catVars, treeVars, walkVars, snapVars, fetchVars, famVars, makerVars>>
    \/ /\ part = "families" /\ FamNext
       /\ UNCHANGED <<part, catVars, treeVars, walkVars, snapVars, fetchVars, verdictVars, makerVars>>
    \/ /\ part = "makers" /\ MakersNext
       /\ UNCHANGED <<part, catVars, treeVars, walkVars, snapVars, fetchVars, verdictVars, famVars>>

PartsSpec ==
    PartsInit /\ [][PartsNext]_<<part, catVars, treeVars, walkVars, snapVars, fetchVars, verdictVars,
                               famVars, makerVars>>

(* Each part is what its module says it is: rows and readings have their   *)
(* types, and the facts each names beside them hold.                       *)
PartsTypeOK ==
    CatTypeOK /\ TreeTypeOK /\ WalkTypeOK /\ SnapTypeOK /\ FetchTypeOK /\ VerdictsTypeOK
    /\ FamTypeOK /\ MakersTypeOK
=============================================================================
