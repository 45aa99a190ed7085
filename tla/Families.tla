------------------------------- MODULE Families -------------------------------
(***************************************************************************)
(* The families (products) that the entries of one maker and category are  *)
(* filed under, by the name of each: a promotion looks its family up,      *)
(* makes it or shows it again, and files its entry; a rebuild moves the    *)
(* entries whose name says another family, then respells, hides and        *)
(* deletes families (matching/service.py).                                 *)
(*                                                                         *)
(* Each is one transaction in READ COMMITTED: a statement sees what has    *)
(* committed and its own writes.  Nothing keeps two families from having  *)
(* one name.  A row that was written is locked until the end; filing an    *)
(* entry holds on to its family, so that nobody deletes it before, and one *)
(* that is deleted leaves its entries without (ondelete SET NULL).  Every  *)
(* list a rebuild makes is cut at its limit.                               *)
(***************************************************************************)
EXTENDS Naturals, FiniteSets

CONSTANTS Family,   \* ids of families
          Variant,  \* ids of entries
          Name,     \* models, as they are spelled
          Lower,    \* a model with its case ignored
          TheTrail, \* families an audit entry or a merge names
          Unmade,   \* the name of what is not there yet
          Deleted,  \* the name of what was there
          Orphan,   \* the family of an entry without one
          Session,  \* transactions that may be open at a time
          ListLimit, \* a rebuild's limit: the most it takes into one list
          MaxActs   \* bound: transactions, and renames in them

ASSUME FamiliesAssumption ==
    /\ Variant \subseteq Nat /\ TheTrail \subseteq Family
    /\ {Unmade, Deleted} \cap Name = {} /\ Unmade # Deleted
    /\ Orphan \notin Family /\ MaxActs \in Nat /\ ListLimit \in Nat

VARIABLES
    headed,   \* the model of a family
    visible,  \* is_visible of a family
    called,   \* the model of an entry
    under,    \* product_id of an entry
    session,  \* the transactions under way
    acts,     \* transactions and renames so far
    crossed,  \* ghost: two transactions were open at once
    tidied    \* ghost: the last thing that committed is a rebuild that nobody
              \* crossed and none of whose lists was cut

families == <<headed, visible, called, under>>
famVars  == <<families, session, acts, crossed, tidied>>

(* The rows a transaction has written, with what it wrote: one more, some  *)
(* more, and as they are seen over the table.                              *)
NoRows     == [x \in {} |-> Unmade]
ARow(x, w) == [y \in {x} |-> w]
Wrote(w, more) ==
    [x \in DOMAIN w \cup DOMAIN more |-> IF x \in DOMAIN more THEN more[x] ELSE w[x]]
SeenOver(w, table) == [x \in DOMAIN table |-> IF x \in DOMAIN w THEN w[x] ELSE table[x]]

(* What it does, for which entry, and under which name and family; the     *)
(* entries and families its list holds; what it has written; and what the  *)
(* limit leaves for the list of misfiled entries, and if a list was cut.   *)
Closed == [at |-> "idle", back |-> "idle", variant |-> 0, name |-> Unmade, family |-> Orphan,
           todo |-> {}, doomed |-> {},
           heads |-> NoRows, shows |-> NoRows, calls |-> NoRows, puts |-> NoRows,
           alone |-> FALSE, left |-> ListLimit, cut |-> FALSE]

(* Entries that were filed one at a time; merges may have emptied          *)
(* families, and a rebuild may have hidden those the trail names.          *)
FamInit == /\ headed \in [Family -> Name \cup {Unmade}]
           /\ \A f, g \in Family : f # g /\ headed[f] # Unmade /\ headed[g] # Unmade
                                    => Lower[headed[f]] # Lower[headed[g]]
           /\ called \in [Variant -> Name \cup {Unmade}]
           /\ under \in [Variant -> Family \cup {Orphan}]
           /\ \A v \in Variant : IF called[v] = Unmade THEN under[v] = Orphan
                                ELSE /\ under[v] # Orphan /\ headed[under[v]] # Unmade
                                     /\ Lower[headed[under[v]]] = Lower[called[v]]
           /\ visible \in [Family -> BOOLEAN]
           /\ \A v \in Variant : under[v] # Orphan => visible[under[v]]
           /\ \A f \in Family : ~visible[f] => f \in TheTrail /\ headed[f] # Unmade
           /\ session = [s \in Session |-> Closed]
           /\ acts = 0 /\ crossed = FALSE /\ tidied = FALSE

-----------------------------------------------------------------------------
(* What a transaction sees, and what it waits for. *)

HeadsOf(s) == SeenOver(session[s].heads, headed)
ShowsOf(s) == SeenOver(session[s].shows, visible)
CallsOf(s) == SeenOver(session[s].calls, called)
PutsOf(s)  == SeenOver(session[s].puts, under)

There(s)     == {f \in Family : HeadsOf(s)[f] \in Name}
Members(s, f) == {v \in Variant : CallsOf(s)[v] \in Name /\ PutsOf(s)[v] = f}

Others(s)       == Session \ {s}
WritesRow(t, f) == f \in DOMAIN session[t].heads \/ f \in DOMAIN session[t].shows
HoldsOn(t, f)   == \E v \in DOMAIN session[t].puts : session[t].puts[v] = f
Writable(s, f)  == \A t \in Others(s) : ~WritesRow(t, f)
Removable(s, f) == Writable(s, f) /\ \A t \in Others(s) : ~HoldsOn(t, f)
Referable(s, f) == f \in There(s) /\ \A t \in Others(s) : f \notin There(t) => headed[f] = Unmade
FreeRow(s, v)      == \A t \in Others(s) : /\ v \notin DOMAIN session[t].calls
                                        /\ v \notin DOMAIN session[t].puts

Doing(s, here) == session[s].at = here
Continue(s, x) == session' = [session EXCEPT ![s] = x]
Inside == UNCHANGED <<families, acts, crossed, tidied>>

-----------------------------------------------------------------------------
(* A transaction begins and ends. *)

Busy == {s \in Session : ~Doing(s, "idle")}
Counted == acts < MaxActs /\ acts' = acts + 1

Opens(s, x) ==
    /\ Doing(s, "idle") /\ Counted
    /\ session' = [t \in Session |-> IF t = s THEN [x EXCEPT !.alone = (Busy = {})]
                                              ELSE [session[t] EXCEPT !.alone = FALSE]]
    /\ crossed' = (crossed \/ Busy # {})
    /\ UNCHANGED <<families, tidied>>

(* promote, or a settling's sweep, at one listing of model n. *)
BeginPromotion(s, v, n) ==
    /\ called[v] = Unmade /\ \A t \in Busy : session[t].variant # v
    /\ Opens(s, [Closed EXCEPT !.at = "looking", !.back = "promoting",
                               !.variant = v, !.name = n])

BeginRebuild(s) == Opens(s, [Closed EXCEPT !.at = "naming", !.back = "naming"])

Commits(s) ==
    /\ Doing(s, "committing")
    /\ headed' = HeadsOf(s) /\ visible' = ShowsOf(s)
    /\ called' = CallsOf(s) /\ under' = PutsOf(s)
    /\ tidied' = /\ session[s].alone /\ session[s].back = "misfiled"
                 /\ ~session[s].cut
    /\ session' = [session EXCEPT ![s] = Closed]
    /\ UNCHANGED <<acts, crossed>>

(* It is cut off, or fails: it waited for a row that is gone by then, or   *)
(* refers to one that is.                                                  *)
CutOff(s) == /\ s \in Busy
             /\ session' = [session EXCEPT ![s] = Closed]
             /\ UNCHANGED <<families, acts, crossed, tidied>>

-----------------------------------------------------------------------------
(* Filing one entry. *)

(* The families of that name, its case ignored. *)
Namesakes(s) == {f \in There(s) : Lower[HeadsOf(s)[f]] = Lower[session[s].name]}

(* Mutant of FindFamily, for FamiliesFollow: a hidden one stays hidden.    *)
FindOnly(s) ==
    /\ Doing(s, "looking") /\ Inside
    /\ \/ \E f \in Namesakes(s) :
             Continue(s, [session[s] EXCEPT !.at = "filing", !.family = f])
       \/ /\ Namesakes(s) = {}
          /\ \E f \in Family :
                /\ headed[f] = Unmade /\ Writable(s, f) /\ f \notin There(s)
                /\ Continue(s, [session[s] EXCEPT !.at = "filing", !.family = f,
                                                  !.heads = Wrote(@, ARow(f, session[s].name))])

(* _family: one of that name, shown again if it was hidden, or a new one.  *)
FindFamily(s) ==
    /\ Doing(s, "looking") /\ Inside
    /\ \/ \E f \in Namesakes(s) :
             IF ShowsOf(s)[f] THEN Continue(s, [session[s] EXCEPT !.at = "filing", !.family = f])
             ELSE /\ Writable(s, f)
                  /\ Continue(s, [session[s] EXCEPT !.at = "filing", !.family = f,
                                                    !.shows = Wrote(@, ARow(f, TRUE))])
       \/ /\ Namesakes(s) = {}
          /\ \E f \in Family :
                /\ headed[f] = Unmade /\ Writable(s, f) /\ f \notin There(s)
                /\ Continue(s, [session[s] EXCEPT !.at = "filing", !.family = f,
                                                  !.heads = Wrote(@, ARow(f, session[s].name))])

(* _variant_from: the entry is inserted under the family it found. *)
FileNew(s) ==
    LET x == session[s]
    IN /\ Doing(s, "filing") /\ x.back = "promoting" /\ Inside
       /\ Referable(s, x.family)
       /\ Continue(s, [x EXCEPT !.at = "committing",
                                !.calls = Wrote(@, ARow(x.variant, x.name)),
                                !.puts  = Wrote(@, ARow(x.variant, x.family))])

(* _rehome: the entry goes over, and a family that nothing is left in is   *)
(* hidden.                                                                 *)
Rehome(s) ==
    LET x    == session[s]
        left == PutsOf(s)[x.variant]
        bare == left # Orphan /\ Members(s, left) \subseteq {x.variant}
    IN /\ Doing(s, "filing") /\ x.back # "promoting" /\ Inside
       /\ IF left = x.family THEN Continue(s, [x EXCEPT !.at = x.back])
          ELSE /\ CallsOf(s)[x.variant] \in Name
               /\ Referable(s, x.family) /\ FreeRow(s, x.variant)
               /\ bare => Writable(s, left)
               /\ Continue(s, [x EXCEPT !.at = x.back,
                                        !.puts  = Wrote(@, ARow(x.variant, x.family)),
                                        !.shows = IF bare THEN Wrote(@, ARow(left, FALSE)) ELSE @])

(* It is gone by then: the savepoint takes the entry's name back, too.     *)
FamilyGone(s) ==
    LET x == session[s]
    IN /\ Doing(s, "filing") /\ x.back # "promoting" /\ Inside
       /\ x.family \notin There(s)
       /\ Continue(s, [x EXCEPT !.at = x.back,
                                !.calls = IF x.back = "naming"
                                          THEN [v \in DOMAIN @ \ {x.variant} |-> @[v]] ELSE @])

-----------------------------------------------------------------------------
(* The rebuild. *)

(* What a limit of k leaves of a list. (The code takes the lowest ids.)    *)
Cuts(list, k) == {part \in SUBSET list : IF Cardinality(list) <= k THEN part = list
                                         ELSE Cardinality(part) = k}

(* An entry takes the name its listings read now, once, and is filed by it. *)
RenameStale(s, v, n) ==
    /\ Doing(s, "naming") /\ Counted /\ session[s].left > 0
    /\ called[v] \in Name \ {n} /\ FreeRow(s, v) /\ v \notin DOMAIN session[s].calls
    /\ Continue(s, [session[s] EXCEPT !.at = "looking", !.variant = v, !.name = n,
                                      !.calls = Wrote(@, ARow(v, n)), !.left = @ - 1])
    /\ UNCHANGED <<families, crossed, tidied>>

(* _misfiled: entries whose family is not the one their own name says, as  *)
(* many as the stale names, those that could not be changed with them,     *)
(* left of the limit.                                                      *)
Misfiled(s) ==
    {v \in Variant : \E f \in There(s) :
        v \in Members(s, f) /\ Lower[CallsOf(s)[v]] # Lower[HeadsOf(s)[f]]}

ListMisfiled(s) ==
    /\ Doing(s, "naming") /\ Inside
    /\ \E k \in 0..session[s].left : \E list \in Cuts(Misfiled(s), k) :
          Continue(s, [session[s] EXCEPT !.at = "misfiled", !.back = "misfiled",
                                         !.todo = list, !.cut = list # Misfiled(s)])

(* The next of them by its id; one that is gone is skipped. *)
TakeMisfiled(s) ==
    /\ Doing(s, "misfiled") /\ Inside
    /\ \E v \in session[s].todo :
          /\ \A w \in session[s].todo : v <= w
          /\ Continue(s, [session[s] EXCEPT
                 !.at   = IF CallsOf(s)[v] \in Name THEN "looking" ELSE "misfiled",
                 !.todo = @ \ {v}, !.variant = v, !.name = CallsOf(s)[v]])

(* _miscased_families: visible ones whose entries all spell their name in  *)
(* one way, which is another.                                              *)
Respelled(s) ==
    LET agree(f, n) == /\ Members(s, f) # {} /\ n # HeadsOf(s)[f]
                       /\ Lower[n] = Lower[HeadsOf(s)[f]]
                       /\ \A v \in Members(s, f) : CallsOf(s)[v] = n
        which == {f \in There(s) : ShowsOf(s)[f] /\ \E n \in Name : agree(f, n)}
    IN [f \in which |-> CHOOSE n \in Name : agree(f, n)]

Respell(s) ==
    /\ Doing(s, "misfiled") /\ session[s].todo = {} /\ Inside
    /\ \E list \in Cuts(DOMAIN Respelled(s), ListLimit) :
          /\ \A f \in list : Writable(s, f)
          /\ Continue(s, [session[s] EXCEPT
                 !.at = "respelled", !.heads = Wrote(@, [f \in list |-> Respelled(s)[f]]),
                 !.cut = @ \/ list # DOMAIN Respelled(s)])

(* _empty_families: visible ones with no entry in them are hidden. *)
HideEmpty(s) ==
    LET empty == {f \in There(s) : ShowsOf(s)[f] /\ Members(s, f) = {}}
    IN /\ Doing(s, "respelled") /\ Inside
       /\ \E list \in Cuts(empty, ListLimit) :
             /\ \A f \in list : Writable(s, f)
             /\ Continue(s, [session[s] EXCEPT
                    !.at = "hidden", !.shows = Wrote(@, [f \in list |-> FALSE]),
                    !.cut = @ \/ list # empty])

(* _delete_empty_hidden_families: they are selected,                       *)
SelectHidden(s) ==
    LET needless == {f \in There(s) \ TheTrail : ~ShowsOf(s)[f] /\ Members(s, f) = {}}
    IN /\ Doing(s, "hidden") /\ Inside
       /\ \E list \in Cuts(needless, ListLimit) :
             Continue(s, [session[s] EXCEPT !.at = "deleting", !.doomed = list,
                                            !.cut = @ \/ list # needless])

(* and then deleted by their ids, once nobody holds on to them, together   *)
(* with what was filed under them by then: those entries have no family.   *)
DeleteHidden(s) ==
    LET gone == session[s].doomed \cap There(s)
        bare == UNION {Members(s, f) : f \in gone}
    IN /\ Doing(s, "deleting") /\ Inside
       /\ \A f \in gone : Removable(s, f)
       /\ \A v \in bare : FreeRow(s, v)
       /\ Continue(s, [session[s] EXCEPT !.at = "committing", !.doomed = {},
                                         !.heads = Wrote(@, [f \in gone |-> Deleted]),
                                         !.puts  = Wrote(@, [v \in bare |-> Orphan])])

-----------------------------------------------------------------------------
(* The requests of people, each a short transaction of its own. *)

ByHand == /\ Counted
          /\ session' = [t \in Session |-> [session[t] EXCEPT !.alone = FALSE]]
          /\ crossed' = (crossed \/ Busy # {})
          /\ tidied' = FALSE

(* update_variant: a new name leaves the entry where it is filed. *)
RenameVariant(v, n) ==
    /\ ByHand
    /\ called[v] \in Name \ {n} /\ \A t \in Busy : v \notin DOMAIN session[t].calls
                                               /\ v \notin DOMAIN session[t].puts
    /\ called' = [called EXCEPT ![v] = n]
    /\ UNCHANGED <<headed, visible, under>>

(* update_product: a new name leaves the entries where they are. *)
RenameFamily(f, n) ==
    /\ ByHand
    /\ headed[f] \in Name \ {n} /\ \A t \in Busy : ~WritesRow(t, f)
    /\ headed' = [headed EXCEPT ![f] = n]
    /\ UNCHANGED <<visible, called, under>>

(* merge_variants: the entry is deleted, and its family stays as it is. *)
FoldAway(v) ==
    /\ ByHand
    /\ called[v] \in Name /\ \A t \in Busy : v \notin DOMAIN session[t].calls
                                         /\ v \notin DOMAIN session[t].puts
    /\ called' = [called EXCEPT ![v] = Deleted]
    /\ under' = [under EXCEPT ![v] = Orphan]
    /\ UNCHANGED <<headed, visible>>

-----------------------------------------------------------------------------
Files(s) == FindFamily(s) \/ FileNew(s) \/ Rehome(s) \/ FamilyGone(s)

Rebuilds(s) ==
    \/ \E v \in Variant, n \in Name : RenameStale(s, v, n)
    \/ ListMisfiled(s) \/ TakeMisfiled(s) \/ Respell(s) \/ HideEmpty(s)
    \/ SelectHidden(s) \/ DeleteHidden(s)

FamNext ==
    \/ \E s \in Session : \/ \E v \in Variant, n \in Name : BeginPromotion(s, v, n)
                          \/ BeginRebuild(s) \/ Files(s) \/ Rebuilds(s) \/ Commits(s) \/ CutOff(s)
    \/ \E v \in Variant, n \in Name : RenameVariant(v, n)
    \/ \E f \in Family, n \in Name : RenameFamily(f, n)
    \/ \E v \in Variant : FoldAway(v)

FamSpec == FamInit /\ [][FamNext]_famVars

-----------------------------------------------------------------------------
Made(v) == called[v] \in Name
Stands(f) == headed[f] \in Name
In(f) == {v \in Variant : Made(v) /\ under[v] = f}

(* Every variable has its type, and no two transactions write one row. *)
FamTypeOK ==
    /\ headed \in [Family -> Name \cup {Unmade, Deleted}] /\ visible \in [Family -> BOOLEAN]
    /\ called \in [Variant -> Name \cup {Unmade, Deleted}]
    /\ under \in [Variant -> Family \cup {Orphan}]
    /\ \A v \in Variant : under[v] # Orphan => Made(v) /\ Stands(under[v])
    /\ acts \in 0..MaxActs /\ crossed \in BOOLEAN /\ tidied \in BOOLEAN
    /\ \A s \in Session :
          /\ Doing(s, "idle") => session[s] = Closed
          /\ \A t \in Others(s) : /\ \A f \in Family : ~(WritesRow(s, f) /\ WritesRow(t, f))
                                  /\ DOMAIN session[s].puts \cap DOMAIN session[t].puts = {}

(* matching/README.md: an entry is filed under the family its name says,   *)
(* and "an entry filed into a hidden family shows it again". No entry is   *)
(* in a hidden family or in none, unless transactions crossed; and a       *)
(* rebuild that nobody crossed and none of whose lists was cut at the      *)
(* limit leaves, whatever was left by others, each filed entry under a     *)
(* family of its name that is spelled as they agree, no visible family     *)
(* empty, and no empty one that nothing names. (A cut list leaves the rest *)
(* to the rebuilds to come.)                                               *)
FamiliesFollow ==
    /\ ~crossed => \A v \in Variant : Made(v) => under[v] # Orphan /\ visible[under[v]]
    /\ tidied =>
          /\ \A v \in Variant : under[v] # Orphan => Lower[called[v]] = Lower[headed[under[v]]]
          /\ \A f \in Family : Stands(f) /\ visible[f] =>
                /\ In(f) # {}
                /\ \A n \in Name : (\A v \in In(f) : called[v] = n) => headed[f] = n
          /\ \A f \in Family \ TheTrail : Stands(f) => In(f) # {}
=============================================================================
