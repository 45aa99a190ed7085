----------------------------- MODULE Categories -----------------------------
(***************************************************************************)
(* The category tree and the visibility that cascades down it, while       *)
(* several people edit it.                                                 *)
(*                                                                         *)
(* An edit is one transaction in READ COMMITTED: it reads its row, looks   *)
(* for a loop, writes the row, then rewrites the visibility of the whole   *)
(* tree from what that statement's snapshot showed.  A row it wrote stays  *)
(* locked until it commits; a reader never waits.                          *)
(***************************************************************************)
EXTENDS Naturals, FiniteSets

CONSTANTS Category,   \* ids of categories
          Seeded,     \* the ones that exist, as visible roots, at first
          Root,       \* the parent of a root: parent_id is null
          Absent,     \* the parent of a category that does not exist
          Keep,       \* a field the request does not send or does not change
          Editor,     \* requests that may be under way at a time
          MaxEdits    \* bound: edits ever begun

ASSUME CategoriesAssumption ==
    /\ IsFiniteSet(Category) /\ Category # {} /\ Seeded \subseteq Category
    /\ Category \cap {Root, Absent, Keep} = {}
    /\ Root # Absent /\ Keep \notin {Root, Absent} \cup BOOLEAN
    /\ MaxEdits \in Nat

VARIABLES
    parent,     \* committed parent_id
    own,        \* committed is_visible
    effective,  \* committed is_visible_effective
    doing,      \* where an edit is
    edit,       \* what it asks: category, parent to take, visibility to take
    news,       \* the columns of its row it writes: those that differ from
                \* what it read
    owes,       \* the visibilities it has still to write, by its snapshot
    wrote,      \* those it wrote and has not committed
    held,       \* rows it has locked
    edits,      \* edits begun so far
    overlapped, \* ghost: two moves were under way at once
    alone,      \* ghost: an edit that had the tree to itself
    dirty       \* ghost: no edit had the tree to itself since one that had not

tree     == <<parent, own, effective>>
requests == <<doing, edit, news, owes, wrote, held>>
ghosts   == <<overlapped, alone, dirty>>
treeVars == <<tree, requests, edits, ghosts>>

-----------------------------------------------------------------------------
(* The shape of a tree `up`, as the recursive queries walk it.             *)

(* The category, its parent, and so on, as far as a walk can go before it  *)
(* repeats itself.                                                         *)
Walk(up, c) ==
    LET at[i \in 0..Cardinality(Category)] ==
            IF i = 0 THEN c ELSE IF at[i - 1] \in Category THEN up[at[i - 1]] ELSE at[i - 1]
    IN at

UpFrom(up, c)   == {Walk(up, c)[i] : i \in 0..Cardinality(Category)} \cap Category
Hangs(up, c)    == Walk(up, c)[Cardinality(Category)] = Root
Rows(up)        == {c \in Category : up[c] # Absent}
Effective(up, shown, c) == \A a \in UpFrom(up, c) : shown[a]

(* Mutant of Tree, for StaleNeedsOverlap: only the branch that was edited  *)
(* is recomputed.                                                          *)
BranchOnly(up, c) == {d \in Rows(up) : Hangs(up, d) /\ c \in UpFrom(up, d)}

(* RECOMPUTE_VISIBILITY starts from the roots, so a loop is never reached. *)
Tree(up, c) == {d \in Rows(up) : Hangs(up, d)}

-----------------------------------------------------------------------------
Nothing == [c \in {} |-> TRUE]

TreeInit ==
    /\ parent    = [c \in Category |-> IF c \in Seeded THEN Root ELSE Absent]
    /\ own       = [c \in Category |-> TRUE]
    /\ effective = [c \in Category |-> TRUE]
    /\ doing = [e \in Editor |-> "idle"]
    /\ edit  = [e \in Editor |-> [cat |-> CHOOSE c \in Category : TRUE,
                                  to |-> Keep, show |-> Keep]]
    /\ news  = [e \in Editor |-> [to |-> Keep, show |-> Keep]]
    /\ owes  = [e \in Editor |-> Nothing]
    /\ wrote = [e \in Editor |-> Nothing]
    /\ held  = [e \in Editor |-> {}]
    /\ edits = 0
    /\ overlapped = FALSE /\ dirty = FALSE
    /\ alone = [e \in Editor |-> FALSE]

UnderWay == {e \in Editor : doing[e] \notin {"idle", "stuck"}}
Moves(e) == edit[e].to # Keep
At(e, here) == doing[e] = here
Goes(e, to) == doing' = [doing EXCEPT ![e] = to]

(* An edit begins: its row is read, and what the request changes of it is  *)
(* known from then on. A new row is one that is not there yet.             *)
BeginEdit(e, what) ==
    LET c     == what.cat
        moves == what.to # Keep /\ what.to # parent[c]
    IN /\ At(e, "idle") /\ edits < MaxEdits
       /\ what.to \in {Root, Keep} \cup Rows(parent)
       /\ what.to # Keep \/ what.show # Keep
       /\ parent[c] = Absent => /\ what.to # Keep /\ what.show # Keep
                                /\ \A f \in UnderWay : edit[f].cat # c
       /\ edits' = edits + 1
       /\ edit' = [edit EXCEPT ![e] = [what EXCEPT !.to = IF moves THEN @ ELSE Keep]]
       /\ news' = [news EXCEPT ![e] =
                     [to   |-> IF moves THEN what.to ELSE Keep,
                      show |-> IF parent[c] # Absent /\ what.show = own[c]
                               THEN Keep ELSE what.show]]
       /\ Goes(e, IF moves /\ what.to \in Category /\ parent[c] # Absent
                  THEN "checking" ELSE "writing")
       /\ alone' = [f \in Editor |-> IF f = e THEN UnderWay = {} ELSE FALSE]
       /\ overlapped' = (overlapped \/ (moves /\ \E f \in UnderWay : Moves(f)))
       /\ UNCHANGED <<tree, owes, wrote, held, dirty>>

Finished(e) == /\ Goes(e, "idle")
               /\ owes'  = [owes EXCEPT ![e] = Nothing]
               /\ wrote' = [wrote EXCEPT ![e] = Nothing]
               /\ held'  = [held EXCEPT ![e] = {}]
               /\ edit'  = [edit EXCEPT ![e] = [@ EXCEPT !.to = Keep, !.show = Keep]]
               /\ news'  = [news EXCEPT ![e] = [to |-> Keep, show |-> Keep]]

(* Mutant of CheckMove, for LoopTakesTwo: nobody walks up. *)
CheckNothing(e) ==
    /\ At(e, "checking")
    /\ Goes(e, "writing")
    /\ UNCHANGED <<tree, edit, news, owes, wrote, held, edits, ghosts>>

(* _require_no_cycle walks up from the new parent, in what is committed by *)
(* now: it meets the category and refuses, comes to a root, or goes round  *)
(* a loop that is there already and never comes back.                      *)
CheckMove(e) ==
    /\ At(e, "checking")
    /\ \/ /\ edit[e].cat \in UpFrom(parent, edit[e].to)
          /\ Finished(e)
       \/ /\ edit[e].cat \notin UpFrom(parent, edit[e].to)
          /\ Goes(e, IF Hangs(parent, edit[e].to) THEN "writing" ELSE "stuck")
          /\ UNCHANGED <<edit, news, owes, wrote, held>>
    /\ UNCHANGED <<tree, edits, ghosts>>

Free(e, c) == \A f \in Editor \ {e} : c \notin held[f]

(* The row is written, when nobody else has it locked. Recomputing depends *)
(* on what was sent, not on what it changed.                               *)
Flush(e) ==
    LET c == edit[e].cat
    IN /\ At(e, "writing")
       /\ Free(e, c)
       /\ held' = [held EXCEPT ![e] =
                     IF news[e] = [to |-> Keep, show |-> Keep] THEN @ ELSE {c}]
       /\ wrote' = [wrote EXCEPT ![e] = IF parent[c] = Absent THEN [x \in {c} |-> TRUE] ELSE @]
       /\ Goes(e, IF Moves(e) \/ edit[e].show # Keep THEN "recomputing" ELSE "committing")
       /\ UNCHANGED <<tree, edit, news, owes, edits, ghosts>>

(* The tree as this transaction sees it: what is committed, and its own.   *)
SeesParent(e) == [parent EXCEPT ![edit[e].cat] = IF news[e].to = Keep THEN @ ELSE news[e].to]
SeesOwn(e)    == [own EXCEPT ![edit[e].cat] = IF news[e].show = Keep THEN @ ELSE news[e].show]
SeesEffective(e, c) == IF c \in DOMAIN wrote[e] THEN wrote[e][c] ELSE effective[c]

(* The recomputing statement takes its snapshot, and with it the answers.  *)
Recompute(e) ==
    LET up    == SeesParent(e)
        right == [c \in Category |-> Effective(up, SeesOwn(e), c)]
    IN /\ At(e, "recomputing")
       /\ owes' = [owes EXCEPT ![e] =
                     [c \in {d \in Tree(up, edit[e].cat) : SeesEffective(e, d) # right[d]}
                        |-> right[c]]]
       /\ Goes(e, "committing")
       /\ UNCHANGED <<tree, edit, news, wrote, held, edits, ghosts>>

(* It comes to a row: once nobody else has it locked, the row as it is by  *)
(* then is compared with the old answer, and written if it differs.        *)
VisitRow(e, c) ==
    /\ At(e, "committing") /\ c \in DOMAIN owes[e]
    /\ Free(e, c)
    /\ held' = [held EXCEPT ![e] = @ \cup {c}]
    /\ wrote' = [wrote EXCEPT ![e] =
                   IF SeesEffective(e, c) = owes[e][c] THEN @
                   ELSE [d \in DOMAIN @ \cup {c} |-> IF d = c THEN owes[e][c] ELSE @[d]]]
    /\ owes' = [owes EXCEPT ![e] = [d \in DOMAIN @ \ {c} |-> @[d]]]
    /\ UNCHANGED <<tree, doing, edit, news, edits, ghosts>>

Commit(e) ==
    /\ At(e, "committing") /\ DOMAIN owes[e] = {}
    /\ parent' = SeesParent(e)
    /\ own' = SeesOwn(e)
    /\ effective' = [c \in Category |-> SeesEffective(e, c)]
    /\ Finished(e)
    /\ dirty' = IF alone[e] /\ (Moves(e) \/ edit[e].show # Keep) THEN FALSE
                ELSE dirty \/ ~alone[e]
    /\ UNCHANGED <<edits, overlapped, alone>>

(* Whom it waits for. *)
WaitsFor(e, f) == \/ At(e, "writing") /\ edit[e].cat \in held[f]
                  \/ At(e, "committing") /\ DOMAIN owes[e] \cap held[f] # {}

(* Edits that wait for one another: the database ends one of them.         *)
DeadlockAbort(e) ==
    /\ \E S \in SUBSET Editor : e \in S /\ \A f \in S : \E g \in S \ {f} : WaitsFor(f, g)
    /\ Finished(e)
    /\ UNCHANGED <<tree, edits, ghosts>>

Advance(e) == \/ CheckMove(e) \/ Flush(e) \/ Recompute(e) \/ Commit(e) \/ DeadlockAbort(e)
              \/ \E c \in Category : VisitRow(e, c)

TreeNext ==
    \E e \in Editor :
        \/ \E c \in Category, to \in Category \cup {Root, Keep}, show \in BOOLEAN \cup {Keep} :
                BeginEdit(e, [cat |-> c, to |-> to, show |-> show])
        \/ Advance(e)

TreeSpec == TreeInit /\ [][TreeNext]_treeVars

-----------------------------------------------------------------------------
(* Every variable has its type, and no row is locked by two edits.         *)
TreeTypeOK ==
    /\ parent \in [Category -> Category \cup {Root, Absent}]
    /\ own \in [Category -> BOOLEAN] /\ effective \in [Category -> BOOLEAN]
    /\ doing \in [Editor -> {"idle", "checking", "writing", "recomputing", "committing",
                            "stuck"}]
    /\ edit \in [Editor -> [cat: Category, to: Category \cup {Root, Keep},
                            show: BOOLEAN \cup {Keep}]]
    /\ news \in [Editor -> [to: Category \cup {Root, Keep}, show: BOOLEAN \cup {Keep}]]
    /\ \A e \in Editor : /\ DOMAIN owes[e] \subseteq Category
                         /\ DOMAIN wrote[e] \subseteq held[e]
                         /\ held[e] \subseteq Category
                         /\ \A f \in Editor \ {e} : held[e] \cap held[f] = {}
    /\ edits \in 0..MaxEdits
    /\ overlapped \in BOOLEAN /\ dirty \in BOOLEAN /\ alone \in [Editor -> BOOLEAN]

(* A loop, which cuts a branch off from every root, is what                *)
(* _require_no_cycle refuses: it takes two moves under way at once, each   *)
(* past the check before the other commits.                                *)
LoopTakesTwo == (\E c \in Rows(parent) : ~Hangs(parent, c)) => overlapped

(* "Recompute everything cannot leave a stale branch behind"               *)
(* (RECOMPUTE_VISIBILITY): what is shown is right of every category that   *)
(* hangs from a root, unless edits overlapped, and the next edit that has  *)
(* the tree to itself sets right whatever they left, wherever it is.       *)
StaleNeedsOverlap ==
    ~dirty => \A c \in Rows(parent) :
                Hangs(parent, c) => effective[c] = Effective(parent, own, c)
=============================================================================
