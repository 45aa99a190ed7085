-------------------------------- MODULE Makers --------------------------------
(***************************************************************************)
(* Whose product a listing is. The string in its brand field, or failing   *)
(* that its title, is looked up in the aliases; a string several makers    *)
(* bear is a question for the judge, whose answer is stored under all that *)
(* was asked: the listing's words, the makers, and the categories the      *)
(* catalogue has each of them in. The ladder asks the same question again  *)
(* and goes by the answer, as long as it is the same question; people's    *)
(* aliases and entries, and the promotion, may have made it another one.   *)
(* Barcodes and part numbers are left out: a listing with a barcode never  *)
(* waits for a maker. So is a field of which nothing is left when it is    *)
(* normalized. Overlapping passes are Verdicts'.                           *)
(***************************************************************************)
EXTENDS Naturals, Sequences, FiniteSets

CONSTANTS Maker,        \* brands
          Stock,        \* listings, 1, 2, ...
          Field,        \* brand_raw of each, normalized: its words, or none
          Heading,      \* the words of its title
          Designation,  \* its model, as words
          Shelf,        \* the category its channel collects
          Alias0,       \* brand_aliases at first: pairs of words and a maker
          AliasNew,     \* those a person may enter
          Entry0,       \* the catalogue at first
          EntryNew,     \* entries a person may make
          Thorough,        \* listings that say every axis, so that they are promoted
          Picks,        \* makers the judge may be sure of
          Cut,          \* limit of a judge pass
          MaxTurns      \* bound: changes of the registry and the catalogue

ASSUME MakersAssumption ==
    /\ IsFiniteSet(Maker) /\ Picks \subseteq Maker /\ IsFiniteSet(Entry0)
    /\ Stock \subseteq Nat /\ Thorough \subseteq Stock
    /\ Cut \in Nat \ {0} /\ MaxTurns \in Nat

VARIABLES
    aliases,   \* rows of brand_aliases
    makes,     \* entries: maker, model, category
    sits,      \* the entry a listing is on
    row,       \* its row in match_queue: why, and between whom
    told,      \* judge_verdicts: what was answered to which question
    pass,      \* a judge pass: the questions it found, by listing
    turns      \* changes so far

makerVars == <<aliases, makes, sits, row, told, pass, turns>>

NotWaiting == [why |-> "none", among |-> {}]
NoPass     == [open |-> FALSE, asks |-> <<>>]
EntryFrom(b, l) == [maker |-> b, model |-> Designation[l], category |-> Shelf[l]]

MakersInit ==
    /\ aliases = Alias0 /\ makes = Entry0
    /\ sits = [l \in Stock |-> {}]
    /\ row = [l \in Stock |-> NotWaiting]
    /\ told = {} /\ pass = NoPass /\ turns = 0

-----------------------------------------------------------------------------
(* The lookups.                                                            *)

Bearers(words) == {b \in Maker : <<words, b>> \in aliases}

(* _named_by: the first two words, or the first, where one maker has them. *)
NamedBy(words) ==
    LET two == IF Len(words) < 2 THEN {} ELSE Bearers(SubSeq(words, 1, 2))
        one == IF words = <<>> THEN {} ELSE Bearers(SubSeq(words, 1, 1))
    IN CASE Cardinality(two) = 1 -> two
         [] Cardinality(two) # 1 /\ Cardinality(one) = 1 -> one
         [] OTHER -> {}

(* _brand_from_title: by how the title begins, or the model, or by the one *)
(* maker named anywhere in the title.                                      *)
NamedIn(words) == UNION {NamedBy(<<words[i]>>) : i \in DOMAIN words}
FromTitle(l) ==
    CASE NamedBy(Heading[l]) # {} -> NamedBy(Heading[l])
      [] NamedBy(Heading[l]) = {} /\ NamedBy(Designation[l]) # {} -> NamedBy(Designation[l])
      [] OTHER -> IF Cardinality(NamedIn(Heading[l])) = 1 THEN NamedIn(Heading[l]) ELSE {}

(* Mutant of Described, for FoundAtItsEntry: by the models, of which there *)
(* is one more for each entry.                                             *)
DescribedByModels(b, es) == {e.model : e \in {f \in es : f.maker = b}}

(* _candidates: a maker is described by the categories it has entries in.  *)
Described(b, es) == {e.category : e \in {f \in es : f.maker = b}}

(* brand_choice and its hash: the words of the listing, and the options as *)
(* they are sent.                                                          *)
QuestionOf(l, among, es) ==
    [about   |-> <<Heading[l], Field[l], Designation[l]>>,
     options |-> {<<b, Described(b, es)>> : b \in among}]

(* _stored and _read: a maker the judge was sure of, "neither", or nothing *)
(* to go by: not asked, or answered without enough certainty.              *)
Known(answers, q) == \E a \in answers : a.q = q
ChoiceOf(answers, q) ==
    IF Known(answers, q) THEN (CHOOSE a \in answers : a.q = q).choice ELSE "unsure"

(* _resolve_brand: the maker if there is one, what came of it, and between *)
(* whom; es is the catalogue and answers the store as the transaction sees *)
(* them.                                                                   *)
Lookup(l, es, answers) ==
    LET heard  == Bearers(Field[l])
        titled == FromTitle(l)
        choice == ChoiceOf(answers, QuestionOf(l, heard, es))
        None(state) == [maker |-> {}, state |-> state, among |-> {}]
        Found(bs)   == [maker |-> bs, state |-> "resolved", among |-> {}]
    IN CASE Cardinality(heard) = 1 -> Found(heard)
         [] heard = {} /\ titled # {} -> Found(titled)
         [] heard = {} /\ titled = {} -> None(IF Field[l] = <<>> THEN "none_given" ELSE "unknown")
         [] OTHER -> IF choice \in Maker THEN Found({choice})
                     ELSE [None(IF choice = "neither" THEN "judged_none" ELSE "ambiguous")
                             EXCEPT !.among = heard]

(* _why *)
Why(found) ==
    CASE found.state = "ambiguous" -> [why |-> "ambiguous", among |-> found.among]
      [] found.state \in {"unknown", "judged_none"} -> [why |-> "unknown", among |-> {}]
      [] OTHER -> [why |-> "unmatched", among |-> {}]

(* _decide, of a listing that says neither barcode nor part number, where  *)
(* its model is enough to tell entries apart. A listing that is not placed *)
(* keeps the match it has. s holds sits and row.                           *)
Placing(s, l, es, answers) ==
    LET found == Lookup(l, es, answers)
        named == {e \in es : e.model = Designation[l] /\ e.maker \in found.maker}
    IN IF Cardinality(named) = 1
       THEN [sits |-> [s.sits EXCEPT ![l] = named], row |-> [s.row EXCEPT ![l] = NotWaiting]]
       ELSE [s EXCEPT !.row[l] = IF named = {} THEN Why(found)
                                 ELSE [why |-> "several", among |-> {}]]

Seats == [sits |-> sits, row |-> row]
Write(s) == sits' = s.sits /\ row' = s.row

-----------------------------------------------------------------------------
(* What people do to the registry and the catalogue.                       *)

(* add_alias, remove_alias: nothing is asked to be read or placed again.   *)
TurnAlias(a) ==
    /\ turns < MaxTurns /\ turns' = turns + 1
    /\ aliases' = IF a \in aliases THEN aliases \ {a} ELSE aliases \cup {a}
    /\ UNCHANGED <<makes, sits, row, told, pass>>

(* create_variant *)
Entered(e) ==
    /\ turns < MaxTurns /\ turns' = turns + 1
    /\ e \notin makes /\ makes' = makes \cup {e}
    /\ UNCHANGED <<aliases, sits, row, told, pass>>

(* update_variant: the entry is another category's.                        *)
Refiled(e, c) ==
    LET new == [e EXCEPT !.category = c] IN
    /\ turns < MaxTurns /\ turns' = turns + 1
    /\ new \notin makes /\ makes' = (makes \ {e}) \cup {new}
    /\ sits' = [l \in Stock |-> IF sits[l] = {e} THEN {new} ELSE sits[l]]
    /\ UNCHANGED <<aliases, row, told, pass>>

(* run, of a listing that is not placed, or match_offer.                   *)
Retry(l) ==
    /\ Write(Placing(Seats, l, makes, told))
    /\ UNCHANGED <<aliases, makes, told, pass, turns>>

(* _promote_rows: tried, made into an entry of its maker if it says all    *)
(* its category asks for, and tried again beside that entry.               *)
MakeEntry(l) ==
    LET tried == Placing(Seats, l, makes, told)
        found == Lookup(l, makes, told)
        b     == CHOOSE x \in found.maker : TRUE
        es    == makes \cup {EntryFrom(b, l)}
    IN
    /\ row[l].why = "unmatched"
    /\ IF tried.row[l].why = "none" \/ l \notin Thorough \/ found.maker = {} \/ Designation[l] = <<>>
          \/ EntryFrom(b, l) \in makes
       THEN Write(tried) /\ UNCHANGED makes
       ELSE /\ makes' = es
            /\ Write(Placing(tried, l, es, told))
    /\ UNCHANGED <<aliases, told, pass, turns>>

-----------------------------------------------------------------------------
(* judge_brands. The requests come from the rows of the queue, with the    *)
(* makers that were found when the row was written; the ladder, afterwards,*)
(* asks with those of the moment.                                          *)

Unsettled == {l \in Stock : row[l].why = "ambiguous"}
TakenUp   == {l \in Unsettled : Cardinality({m \in Unsettled : m < l}) < Cut}

(* The listings whose question has no answer in the store.                 *)
Unheld(asks) == {l \in DOMAIN asks : ~Known(told, asks[l])}

OpenPass ==
    /\ ~pass.open
    /\ pass' = [open |-> TRUE,
                asks |-> [l \in TakenUp |-> QuestionOf(l, row[l].among, makes)]]
    /\ UNCHANGED <<aliases, makes, sits, row, told, turns>>

(* The answers are stored, and each listing that has one to go by is put   *)
(* through the ladder again. A call that failed leaves nothing.            *)
ClosePass ==
    LET asks   == pass.asks
        unheld == Unheld(asks)
        asked  == {asks[l] : l \in unheld}
    IN
    /\ pass.open
    /\ \E failed \in SUBSET asked :
       \E picks \in [asked \ failed -> Picks \cup {"neither", "unsure"}] :
         LET new    == {[q |-> q, choice |-> picks[q]] : q \in asked \ failed}
             store  == told \cup new
             acted  == {l \in DOMAIN asks : ChoiceOf(store, asks[l]) # "unsure"}
             again  == [l \in acted |-> Placing(Seats, l, makes, store)]
             of(f, l) == IF l \in acted THEN again[l][f][l] ELSE Seats[f][l]
         IN
         /\ \A q \in asked \ failed :
               picks[q] \in Maker => \E o \in q.options : o[1] = picks[q]
         /\ told' = store
         /\ Write([sits |-> [l \in Stock |-> of("sits", l)],
                   row  |-> [l \in Stock |-> of("row", l)]])
    /\ pass' = NoPass
    /\ UNCHANGED <<aliases, makes, turns>>

MakersNext ==
    \/ \E a \in AliasNew : TurnAlias(a)
    \/ \E e \in EntryNew : Entered(e)
    \/ \E e \in makes, l \in Stock : Refiled(e, Shelf[l])
    \/ \E l \in Stock : Retry(l) \/ MakeEntry(l)
    \/ OpenPass \/ ClosePass

MakersSpec == MakersInit /\ [][MakersNext]_makerVars

-----------------------------------------------------------------------------
(* Properties.                                                             *)

MakersTypeOK ==
    /\ \A l \in Stock :
          /\ Cardinality(sits[l]) <= 1 /\ sits[l] \subseteq makes
          /\ row[l].why \in {"none", "ambiguous", "unknown", "unmatched", "several"}
          /\ row[l].why = "ambiguous" => Cardinality(row[l].among) > 1
    /\ \A a, b \in told : a.q = b.q => a = b
    /\ turns \in 0..MaxTurns

(* promote_queue makes an entry and runs the ladder again, so that the     *)
(* listing goes where it is from. It does when its maker is stated; when   *)
(* the maker is the judge's, unless the entry is that maker's first in its *)
(* category: that makes the question another one, and the answer is no     *)
(* longer found.                                                           *)
FoundAtItsEntry ==
    [][\A l \in Stock, e \in makes' \ makes :
          (MakeEntry(l) /\ ~\E f \in makes : f.maker = e.maker /\ f.model = e.model) =>
             \/ sits'[l] = {e}
             \/ /\ Cardinality(Bearers(Field[l])) > 1
                /\ ~\E f \in makes : f.maker = e.maker /\ f.category = e.category]_makerVars
===============================================================================
