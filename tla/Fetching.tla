------------------------------ MODULE Fetching -------------------------------
(***************************************************************************)
(* Fetcher: the requests of one run, side by side, through a rate that     *)
(* says when each may depart, a gate that says how many may be open, and   *)
(* the ways out of the channel's proxy taken in turn. Time is counted in   *)
(* intervals of the rate, from now on.                                     *)
(***************************************************************************)
EXTENDS Naturals, FiniteSets

CONSTANTS Fetch,       \* requests of the run
          Addresses,   \* how many the channel's proxy has, when it has one
          Room,        \* fetch_concurrency: requests open at once
          Retries,     \* fetch_retries
          Troubles     \* bound: answers worth a retry that are the shop's own

ASSUME FetchingAssumption ==
    Addresses \in Nat \ {0} /\ Room \in Nat \ {0} /\ Retries \in Nat /\ Troubles \in Nat

VARIABLES
    direct,    \* no proxy: one client, to the shop itself
    bad,       \* addresses that connect to nothing
    down,      \* _down
    turnOf,    \* _turn
    gap,       \* Rate._next: intervals until the next free departure
    req,       \* of each request: where it is, its way out, its wait, its attempts
    troubled,  \* ghost: requests the shop gave an answer worth a retry
    troubles   \* how many of those

fetchVars == <<direct, bad, down, turnOf, gap, req, troubled, troubles>>

Outs == IF direct THEN 1 ELSE Addresses
Open == {r \in Fetch : req[r].at = "open"}
Fewer(n) == IF n > 0 THEN n - 1 ELSE 0

FetchInit ==
    /\ direct \in BOOLEAN
    /\ bad \in SUBSET (0..(Outs - 1)) /\ (direct => bad = {})
    /\ down = {} /\ turnOf = 0 /\ gap = 0
    /\ req = [r \in Fetch |-> [at |-> "asked", out |-> 0, wait |-> 0, tries |-> 0]]
    /\ troubled = {} /\ troubles = 0

-----------------------------------------------------------------------------
(* Rate.wait: a departure is booked, and slept until. The lock is held for *)
(* the booking alone, in which nothing else can run.                       *)
Book(r) ==
    /\ req[r].at = "asked" /\ req[r].wait = 0
    /\ req' = [req EXCEPT ![r].at = "booked", ![r].wait = gap, ![r].tries = @ + 1]
    /\ gap' = gap + 1
    /\ UNCHANGED <<direct, bad, down, turnOf, troubled, troubles>>

(* _next: the first way out in turn that is up; none, and the request      *)
(* fails. The way is picked before the gate, and may be out behind it.     *)
Up(i) == (turnOf + i) % Outs \notin down
Depart(r) ==
    /\ req[r].at = "booked" /\ req[r].wait = 0
    /\ IF \E i \in 0..(Outs - 1) : Up(i)
       THEN LET i == CHOOSE j \in 0..(Outs - 1) : Up(j) /\ \A k \in 0..(j - 1) : ~Up(k)
            IN  /\ turnOf' = (turnOf + i + 1) % Outs
                /\ req' = [req EXCEPT ![r].at = "gate", ![r].out = (turnOf + i) % Outs]
       ELSE /\ req' = [req EXCEPT ![r].at = "failed"]
            /\ UNCHANGED turnOf
    /\ UNCHANGED <<direct, bad, down, gap, troubled, troubles>>

(* The gate has room: the request is open.                                 *)
Enter(r) ==
    /\ req[r].at = "gate" /\ Cardinality(Open) < Room
    /\ req' = [req EXCEPT ![r].at = "open"]
    /\ UNCHANGED <<direct, bad, down, turnOf, gap, troubled, troubles>>

(* After an attempt that served nothing: another, after a pause or at      *)
(* once, or the end.                                                       *)
Again(r, pause) ==
    req' = [req EXCEPT ![r].at = IF req[r].tries <= Retries THEN "asked" ELSE "failed",
                       ![r].wait = IF req[r].tries <= Retries THEN pause ELSE 0]

(* A page, or a 4xx that is a fact about the shop.                         *)
Answer(r) ==
    /\ req[r].at = "open" /\ req[r].out \notin bad
    /\ req' = [req EXCEPT ![r].at = "served"]
    /\ UNCHANGED <<direct, bad, down, turnOf, gap, troubled, troubles>>

(* RETRY_ON, or a connection that broke: the shop's doing.                 *)
Trouble(r) ==
    /\ req[r].at = "open" /\ req[r].out \notin bad /\ troubles < Troubles
    /\ troubled' = troubled \cup {r} /\ troubles' = troubles + 1
    /\ Again(r, 1)
    /\ UNCHANGED <<direct, bad, down, turnOf, gap>>

(* Mutant of Out, for ServedWhileAWayIsUp: the one direct client is out    *)
(* too.                                                                    *)
OutThough(i) == down' = down \cup {i}

(* _out: for the rest of the run, unless it is the direct client.          *)
Out(i) == down' = IF direct THEN down ELSE down \cup {i}

(* The way out failed: a connection that was not made, or 407, which costs *)
(* an attempt and no pause. Without a proxy it is the shop that did not    *)
(* connect.                                                                *)
NoConnection(r) ==
    /\ req[r].at = "open"
    /\ \/ req[r].out \in bad /\ UNCHANGED <<troubled, troubles>>
       \/ /\ direct /\ troubles < Troubles
          /\ troubled' = troubled \cup {r} /\ troubles' = troubles + 1
    /\ Out(req[r].out)
    /\ \E pause \in {0, 1} : Again(r, pause)
    /\ UNCHANGED <<direct, bad, turnOf, gap>>

(* An interval passes. A timer that is due and a gate with room do not     *)
(* wait for it.                                                            *)
Tick ==
    /\ gap > 0 \/ \E r \in Fetch : req[r].wait > 0
    /\ ~\E r \in Fetch :
         \/ req[r].at \in {"asked", "booked"} /\ req[r].wait = 0
         \/ req[r].at = "gate" /\ Cardinality(Open) < Room
    /\ gap' = Fewer(gap)
    /\ req' = [r \in Fetch |-> [req[r] EXCEPT !.wait = Fewer(@)]]
    /\ UNCHANGED <<direct, bad, down, turnOf, troubled, troubles>>

FetchNext ==
    \/ Tick
    \/ \E r \in Fetch : \/ Book(r) \/ Depart(r) \/ Enter(r)
                         \/ Answer(r) \/ Trouble(r) \/ NoConnection(r)

FetchSpec == FetchInit /\ [][FetchNext]_fetchVars

-----------------------------------------------------------------------------
(* Properties.                                                             *)

(* No more than Room are open, and no two that wait for their departure    *)
(* depart in the same interval - which is all the rate keeps apart: those  *)
(* whose time came while the gate was full start together, against "how    *)
(* many requests may be *started* per second, whatever is in flight".      *)
FetchTypeOK ==
    /\ direct \in BOOLEAN /\ bad \subseteq 0..(Outs - 1)
    /\ turnOf \in 0..(Outs - 1) /\ gap \in Nat
    /\ troubled \subseteq Fetch /\ troubles \in 0..Troubles
    /\ \A r \in Fetch :
          /\ req[r].at \in {"asked", "booked", "gate", "open", "served", "failed"}
          /\ req[r].out \in 0..(Outs - 1)
          /\ req[r].wait \in Nat /\ req[r].tries \in 0..(Retries + 1)
    /\ Cardinality(Open) <= Room
    /\ \A r, s \in Fetch : r # s /\ req[r].at = "booked" /\ req[s].at = "booked"
                            => req[r].wait # req[s].wait

(* A request the shop had nothing against fails only where no way out is   *)
(* left, or more are bad than it has attempts: whatever the others do to   *)
(* the ways it picks from, it meets each bad one once.                     *)
ServedWhileAWayIsUp ==
    \A r \in Fetch \ troubled : req[r].at = "failed" =>
        bad # {} /\ (Cardinality(bad) = Outs \/ Cardinality(bad) > Retries)
=============================================================================
