---------------------------- MODULE ChannelProofs ----------------------------
(***************************************************************************)
(* What holds of reading a shop's channel, its requests (Fetching), its    *)
(* pages on disk (Snapshots) and the walk that finds what the shop has     *)
(* (Walk), for every value of their constants.                             *)
(***************************************************************************)
EXTENDS Fetching, Snapshots, Walk, Ranks

-----------------------------------------------------------------------------
(* Requests. *)

Trying  == {"asked", "booked", "gate", "open"}
Request == [at : Trying \cup {"served", "failed"}, out : 0..(Outs - 1), wait : Nat,
            tries : 0..(Retries + 1)]

(* The types; only ways that connect to nothing are taken out, which the   *)
(* direct client is not.                                                   *)
WaysOK ==
    /\ direct \in BOOLEAN /\ bad \subseteq 0..(Outs - 1) /\ (direct => bad = {})
    /\ down \subseteq bad
    /\ turnOf \in 0..(Outs - 1) /\ gap \in Nat
    /\ troubled \subseteq Fetch /\ troubles \in 0..Troubles
    /\ req \in [Fetch -> Request]

(* Departures are booked before the next free one, each its own.           *)
BookedOK ==
    /\ \A r \in Fetch : req[r].at = "booked" => req[r].wait < gap
    /\ \A r, s \in Fetch : r # s /\ req[r].at = "booked" /\ req[s].at = "booked"
                            => req[r].wait # req[s].wait

OpenOK == IsFiniteSet(Open) /\ Cardinality(Open) <= Room

(* An attempt is left as long as a request is asked again.                 *)
TriesOK ==
    \A r \in Fetch : /\ req[r].at = "asked" => req[r].tries <= Retries
                     /\ req[r].at \in {"booked", "gate", "open"} => req[r].tries > 0

(* Each attempt of request r that is over took out a way of its own, and   *)
(* the one it is on is another.                                            *)
TriesOver(r) == IF req[r].at = "asked" THEN req[r].tries ELSE req[r].tries - 1
Met(r) ==
    req[r].at \in Trying =>
        \E M \in SUBSET down : /\ IsFiniteSet(M) /\ Cardinality(M) = TriesOver(r)
                               /\ req[r].at \in {"gate", "open"} => req[r].out \notin M
MetOK == \A r \in Fetch \ troubled : Met(r)

Inductive == WaysOK /\ BookedOK /\ OpenOK /\ TriesOK /\ MetOK /\ ServedWhileAWayIsUp

-----------------------------------------------------------------------------
(* The ways out. *)

LEMMA OutsIs == WaysOK => Outs \in Nat \ {0}
  BY FetchingAssumption DEF WaysOK, Outs

LEMMA Modulo ==
    ASSUME NEW k \in Nat \ {0}, NEW x \in 0..(k - 1), NEW y \in Nat
    PROVE  x % k = x /\ (x + k) % k = x /\ y % k \in 0..(k - 1)
  OBVIOUS

LEMMA FirstNumbers ==
    ASSUME NEW k \in Nat \ {0}
    PROVE  IsFiniteSet(0..(k - 1)) /\ Cardinality(0..(k - 1)) = k /\ 0..(k - 1) # {}
<1>1. k - 1 \in Int /\ ~(0 > k - 1) /\ (k - 1) - 0 + 1 = k /\ 0 \in 0..(k - 1)
  OBVIOUS
<1>2. IsFiniteSet(0..(k - 1)) /\ Cardinality(0..(k - 1)) = (k - 1) - 0 + 1
  BY <1>1, FS_Interval
<1>. QED
  BY <1>1, <1>2

(* Taken in turn from anywhere, they all come by. *)
LEMMA AllInTurn ==
    ASSUME WaysOK, NEW j \in 0..(Outs - 1)
    PROVE  \E i \in 0..(Outs - 1) : (turnOf + i) % Outs = j
<1>. Outs \in Nat \ {0} /\ turnOf \in 0..(Outs - 1)
  BY OutsIs DEF WaysOK
<1>1. CASE turnOf <= j
  <2>1. j - turnOf \in 0..(Outs - 1) /\ turnOf + (j - turnOf) = j
    BY <1>1
  <2>. QED
    BY <2>1, Modulo
<1>2. CASE j < turnOf
  <2>1. (j + Outs) - turnOf \in 0..(Outs - 1) /\ turnOf + ((j + Outs) - turnOf) = j + Outs
    BY <1>2
  <2>. QED
    BY <2>1, Modulo
<1>. QED
  BY <1>1, <1>2

(* None is up only where all are bad. *)
LEMMA NoneUp ==
    ASSUME WaysOK, \A i \in 0..(Outs - 1) : ~Up(i)
    PROVE  bad # {} /\ Cardinality(bad) = Outs
<1>1. Outs \in Nat \ {0}
  BY OutsIs
<1>2. bad = 0..(Outs - 1)
  <2>1. \A j \in 0..(Outs - 1) : j \in down
    BY AllInTurn DEF Up
  <2>. QED
    BY <2>1 DEF WaysOK
<1>. QED
  BY <1>1, <1>2, FirstNumbers

-----------------------------------------------------------------------------
(* What a step of one request leaves of the others. *)

LEMMA OthersMet ==
    ASSUME Inductive, NEW r \in Fetch, \A s \in Fetch \ {r} : req'[s] = req[s],
           down \subseteq down', troubled \subseteq troubled', r \notin troubled' => Met(r)'
    PROVE  MetOK'
<1>1. ASSUME NEW s \in Fetch \ troubled', s # r PROVE Met(s)'
  <2>1. Met(s)
    BY <1>1 DEF Inductive, MetOK
  <2>2. req'[s] = req[s]
    BY <1>1
  <2>. QED
    BY <2>1, <2>2 DEF Met, TriesOver
<1>. QED
  BY <1>1 DEF MetOK

(* A request that opens needs room; any other step opens none.             *)
LEMMA NoneOpens ==
    ASSUME OpenOK, WaysOK, Open' \subseteq Open
    PROVE  OpenOK'
<1>1. IsFiniteSet(Open') /\ Cardinality(Open') <= Cardinality(Open)
  BY FS_Subset DEF OpenOK
<1>2. Cardinality(Open) \in Nat /\ Cardinality(Open') \in Nat
  BY <1>1, FS_CardinalityType DEF OpenOK
<1>. QED
  BY <1>1, <1>2, FetchingAssumption DEF OpenOK

-----------------------------------------------------------------------------
LEMMA InitOK == FetchInit => Inductive
<1>. SUFFICES ASSUME FetchInit PROVE Inductive
  OBVIOUS
<1>1. Outs \in Nat \ {0}
  BY FetchingAssumption DEF FetchInit, Outs
<1>2. WaysOK
  BY <1>1, FetchingAssumption DEF FetchInit, WaysOK, Request, Trying
<1>3. BookedOK /\ TriesOK /\ ServedWhileAWayIsUp
  BY FetchingAssumption DEF FetchInit, BookedOK, TriesOK, ServedWhileAWayIsUp
<1>4. OpenOK
  <2>1. Open = {}
    BY DEF FetchInit, Open
  <2>. QED
    BY <2>1, FS_EmptySet, FetchingAssumption DEF OpenOK
<1>5. MetOK
  BY FS_EmptySet DEF FetchInit, MetOK, Met, TriesOver
<1>. QED
  BY <1>2, <1>3, <1>4, <1>5 DEF Inductive

LEMMA BookOK ==
    ASSUME Inductive, NEW r \in Fetch, Book(r)
    PROVE  Inductive'
<1>1. WaysOK' /\ BookedOK' /\ TriesOK'
  BY FetchingAssumption
  DEF Inductive, WaysOK, BookedOK, TriesOK, Book, Outs, Request, Trying
<1>2. OpenOK'
  <2>1. Open' \subseteq Open
    BY DEF Open, Book, Inductive, WaysOK
  <2>. QED
    BY <2>1, NoneOpens DEF Inductive
<1>3. r \notin troubled' => Met(r)'
  BY DEF Inductive, WaysOK, Request, MetOK, Met, TriesOver, Book, Trying
<1>4. MetOK'
  BY <1>3, OthersMet DEF Book, Inductive, WaysOK
<1>5. ServedWhileAWayIsUp'
  BY DEF Inductive, WaysOK, ServedWhileAWayIsUp, Book, Outs
<1>. QED
  BY <1>1, <1>2, <1>4, <1>5 DEF Inductive

(* The way that is picked is up. *)
LEMMA Picked ==
    ASSUME WaysOK, NEW r \in Fetch, Depart(r), \E i \in 0..(Outs - 1) : Up(i)
    PROVE  \E o \in (0..(Outs - 1)) \ down :
              req' = [req EXCEPT ![r].at = "gate", ![r].out = o] /\ turnOf' \in 0..(Outs - 1)
<1>. DEFINE first == {j \in 0..(Outs - 1) : Up(j)}
<1>1. Outs \in Nat \ {0} /\ turnOf \in 0..(Outs - 1)
  BY OutsIs DEF WaysOK
<1>2. first \in SUBSET Nat /\ first # {} /\ IsFiniteSet(first)
  <2>1. first \subseteq 0..(Outs - 1) /\ first # {}
    OBVIOUS
  <2>2. IsFiniteSet(0..(Outs - 1)) /\ 0..(Outs - 1) \subseteq Nat
    BY <1>1, FirstNumbers
  <2>. HIDE DEF first
  <2>3. IsFiniteSet(first)
    BY <2>1, <2>2, FS_Subset
  <2>. QED
    BY <2>1, <2>2, <2>3
<1>3. PICK i \in first : \A j \in first : i <= j
  <2>. HIDE DEF first
  <2>. QED
    BY <1>2, LeastMember
<1>4. \E j \in 0..(Outs - 1) : Up(j) /\ \A k \in 0..(j - 1) : ~Up(k)
  BY <1>1, <1>3
<1>5. PICK j \in 0..(Outs - 1) :
         /\ Up(j) /\ turnOf' = (turnOf + j + 1) % Outs
         /\ req' = [req EXCEPT ![r].at = "gate", ![r].out = (turnOf + j) % Outs]
  BY <1>4 DEF Depart
<1>6. (turnOf + j) % Outs \in 0..(Outs - 1) /\ (turnOf + j + 1) % Outs \in 0..(Outs - 1)
  BY <1>1, Modulo
<1>. QED
  BY <1>5, <1>6 DEF Up

LEMMA DepartOK ==
    ASSUME Inductive, NEW r \in Fetch, Depart(r)
    PROVE  Inductive'
<1>. UNCHANGED <<direct, bad, down, gap, troubled, troubles>> /\ req[r].at = "booked"
     /\ Outs' = Outs
  BY DEF Depart, Outs
<1>. DEFINE Departs == \E o \in (0..(Outs - 1)) \ down :
                         req' = [req EXCEPT ![r].at = "gate", ![r].out = o]
            Fails  == req' = [req EXCEPT ![r].at = "failed"]
<1>1. /\ turnOf' \in 0..(Outs - 1)
      /\ Departs \/ (Fails /\ bad # {} /\ Cardinality(bad) = Outs)
  <2>1. CASE \E i \in 0..(Outs - 1) : Up(i)
    BY <2>1, Picked DEF Inductive
  <2>2. CASE ~ \E i \in 0..(Outs - 1) : Up(i)
    <3>1. Fails /\ turnOf' = turnOf
      BY <2>2 DEF Depart
    <3>2. bad # {} /\ Cardinality(bad) = Outs
      BY <2>2, NoneUp DEF Inductive
    <3>. QED
      BY <3>1, <3>2 DEF Inductive, WaysOK
  <2>. QED
    BY <2>1, <2>2
<1>2. \A s \in Fetch \ {r} : req'[s] = req[s]
  BY <1>1 DEF Inductive, WaysOK
<1>3. WaysOK' /\ BookedOK' /\ TriesOK'
  BY <1>1 DEF Inductive, WaysOK, BookedOK, TriesOK, Request, Trying
<1>4. OpenOK'
  <2>1. req'[r].at # "open"
    BY <1>1 DEF Inductive, WaysOK, Request
  <2>. HIDE DEF Departs, Fails
  <2>2. Open' \subseteq Open
    BY <1>2, <2>1 DEF Open
  <2>. QED
    BY <2>2, NoneOpens DEF Inductive
<1>5. r \notin troubled' => Met(r)'
  <2>1. CASE Fails
    BY <2>1 DEF Met, Inductive, WaysOK, Trying
  <2>2. CASE Departs
    BY <2>2 DEF Inductive, WaysOK, Request, MetOK, Met, TriesOver, Trying
  <2>. QED
    BY <1>1, <2>1, <2>2
<1>6. MetOK'
  <2>. HIDE DEF Departs, Fails
  <2>. QED
    BY <1>2, <1>5, OthersMet
<1>7. ServedWhileAWayIsUp'
  <2>1. ASSUME req'[r].at = "failed" PROVE bad # {} /\ Cardinality(bad) = Outs
    <3>1. ~Departs
      BY <2>1 DEF Inductive, WaysOK, Request
    <3>. QED
      BY <1>1, <3>1
  <2>. HIDE DEF Departs, Fails
  <2>. QED
    BY <1>2, <2>1 DEF Inductive, ServedWhileAWayIsUp
<1>. QED
  BY <1>3, <1>4, <1>6, <1>7 DEF Inductive

LEMMA EnterOK ==
    ASSUME Inductive, NEW r \in Fetch, Enter(r)
    PROVE  Inductive'
<1>1. UNCHANGED <<direct, bad, down, turnOf, gap, troubled, troubles>> /\ Outs' = Outs
      /\ req' = [req EXCEPT ![r].at = "open"] /\ req[r].at = "gate"
  BY DEF Enter, Outs
<1>2. WaysOK' /\ BookedOK' /\ TriesOK'
  BY <1>1 DEF Inductive, WaysOK, BookedOK, TriesOK, Request, Trying
<1>3. OpenOK'
  <2>1. Open' = Open \cup {r}
    BY <1>1 DEF Open, Inductive, WaysOK
  <2>2. IsFiniteSet(Open) /\ Cardinality(Open) \in Nat /\ Cardinality(Open) < Room
    BY FS_CardinalityType DEF Inductive, OpenOK, Enter
  <2>. QED
    BY <2>1, <2>2, FS_AddElement, FetchingAssumption DEF OpenOK
<1>4. r \notin troubled' => Met(r)'
  BY <1>1 DEF Inductive, WaysOK, Request, MetOK, Met, TriesOver, Trying
<1>5. MetOK'
  BY <1>1, <1>4, OthersMet DEF Inductive, WaysOK
<1>6. ServedWhileAWayIsUp'
  BY <1>1 DEF Inductive, WaysOK, ServedWhileAWayIsUp
<1>. QED
  BY <1>2, <1>3, <1>5, <1>6 DEF Inductive

LEMMA AnswerOK ==
    ASSUME Inductive, NEW r \in Fetch, Answer(r)
    PROVE  Inductive'
<1>1. UNCHANGED <<direct, bad, down, turnOf, gap, troubled, troubles>> /\ Outs' = Outs
      /\ req' = [req EXCEPT ![r].at = "served"]
  BY DEF Answer, Outs
<1>2. WaysOK' /\ BookedOK' /\ TriesOK'
  BY <1>1 DEF Inductive, WaysOK, BookedOK, TriesOK, Request, Trying
<1>3. OpenOK'
  BY <1>1, NoneOpens DEF Open, Inductive, WaysOK
<1>4. MetOK'
  BY <1>1, OthersMet DEF Inductive, WaysOK, Met, Trying
<1>5. ServedWhileAWayIsUp'
  BY <1>1 DEF Inductive, WaysOK, ServedWhileAWayIsUp
<1>. QED
  BY <1>2, <1>3, <1>4, <1>5 DEF Inductive

(* After an attempt that served nothing, the types and the gate. *)
LEMMA AgainOK ==
    ASSUME Inductive, NEW r \in Fetch, NEW pause \in {0, 1}, req[r].at = "open", Again(r, pause),
           UNCHANGED <<direct, bad, turnOf, gap>>, down \subseteq down', down' \subseteq bad,
           troubled' \in SUBSET Fetch, troubles' \in 0..Troubles
    PROVE  WaysOK' /\ BookedOK' /\ TriesOK' /\ OpenOK'
<1>1. Outs' = Outs
  BY DEF Outs
<1>2. /\ req[r].tries \in 0..(Retries + 1)
      /\ req' = [req EXCEPT ![r].at = IF req[r].tries <= Retries THEN "asked" ELSE "failed",
                            ![r].wait = IF req[r].tries <= Retries THEN pause ELSE 0]
  BY DEF Again, Inductive, WaysOK, Request
<1>3. /\ \A s \in Fetch \ {r} : req'[s] = req[s]
      /\ req'[r].at \in {"asked", "failed"} /\ req'[r].tries = req[r].tries
      /\ req'[r].at = "asked" => req'[r].tries <= Retries
      /\ req' \in [Fetch -> Request]
  <2>1. \A s \in Fetch \ {r} : req'[s] = req[s]
    BY <1>2 DEF Inductive, WaysOK
  <2>2. req'[r] = [at |-> IF req[r].tries <= Retries THEN "asked" ELSE "failed",
                   out |-> req[r].out, wait |-> IF req[r].tries <= Retries THEN pause ELSE 0,
                   tries |-> req[r].tries]
    BY <1>2 DEF Inductive, WaysOK, Request
  <2>3. req'[r] \in Request
    BY <2>2, <1>2 DEF Inductive, WaysOK, Request, Trying
  <2>4. req' \in [Fetch -> Request]
    BY <1>2, <2>3 DEF Inductive, WaysOK
  <2>. QED
    BY <2>1, <2>2, <2>4
<1>4. WaysOK'
  BY <1>1, <1>3 DEF Inductive, WaysOK, Request
<1>5. BookedOK' /\ TriesOK'
  BY <1>3 DEF Inductive, BookedOK, TriesOK
<1>6. Open' \subseteq Open
  BY <1>2 DEF Open, Inductive, WaysOK
<1>. QED
  BY <1>4, <1>5, <1>6, NoneOpens DEF Inductive

(* The shop's doing: the request is no longer one it had nothing against.  *)
LEMMA TroubledOK ==
    ASSUME Inductive, NEW r \in Fetch, NEW pause \in {0, 1}, req[r].at = "open", Again(r, pause),
           troubles < Troubles, troubled' = troubled \cup {r}, troubles' = troubles + 1,
           UNCHANGED <<direct, bad, turnOf, gap, down>>
    PROVE  Inductive'
<1>1. \A s \in Fetch \ {r} : req'[s] = req[s]
  BY DEF Again, Inductive, WaysOK
<1>2. WaysOK' /\ BookedOK' /\ TriesOK' /\ OpenOK'
  <2>1. troubled' \in SUBSET Fetch /\ troubles' \in 0..Troubles /\ down \subseteq bad
    BY FetchingAssumption DEF Inductive, WaysOK
  <2>. QED
    BY <2>1, AgainOK
<1>3. MetOK'
  BY <1>1, OthersMet
<1>4. ServedWhileAWayIsUp'
  BY <1>1 DEF Inductive, ServedWhileAWayIsUp, Outs
<1>. QED
  BY <1>2, <1>3, <1>4 DEF Inductive

(* A way that connects to nothing is out: one more that the request has    *)
(* met.                                                                    *)
LEMMA DownOK ==
    ASSUME Inductive, NEW r \in Fetch, NEW pause \in {0, 1}, req[r].at = "open", Again(r, pause),
           req[r].out \in bad, Out(req[r].out),
           UNCHANGED <<direct, bad, turnOf, gap, troubled, troubles>>
    PROVE  Inductive'
<1>. DEFINE o == req[r].out
<1>1. down' = down \cup {o}
  BY DEF Out, Inductive, WaysOK
<1>2. \A s \in Fetch \ {r} : req'[s] = req[s]
  BY DEF Again, Inductive, WaysOK
<1>3. WaysOK' /\ BookedOK' /\ TriesOK' /\ OpenOK'
  <2>1. down \subseteq down' /\ down' \subseteq bad /\ troubled' \in SUBSET Fetch
        /\ troubles' \in 0..Troubles
    BY <1>1 DEF Inductive, WaysOK
  <2>. QED
    BY <2>1, AgainOK
<1>4. ASSUME r \notin troubled
      PROVE  \E M \in SUBSET down' : IsFiniteSet(M) /\ Cardinality(M) = req[r].tries
  <2>1. PICK M \in SUBSET down : /\ IsFiniteSet(M) /\ Cardinality(M) = req[r].tries - 1
                                 /\ o \notin M
    BY <1>4 DEF Inductive, MetOK, Met, TriesOver, Trying
  <2>2. IsFiniteSet(M \cup {o}) /\ Cardinality(M \cup {o}) = req[r].tries
    <3>1. req[r].tries \in Nat
      BY FetchingAssumption DEF Inductive, WaysOK, Request
    <3>. QED
      BY <2>1, <3>1, FS_AddElement
  <2>3. M \cup {o} \in SUBSET down'
    BY <1>1, <2>1
  <2>. QED
    BY <2>2, <2>3
<1>5. MetOK'
  <2>1. ASSUME r \notin troubled, req'[r].at \in Trying PROVE req'[r].at = "asked"
          /\ req'[r].tries = req[r].tries
    BY <2>1 DEF Again, Inductive, WaysOK, Request, Trying
  <2>2. r \notin troubled' => Met(r)'
    BY <1>4, <2>1 DEF Met, TriesOver
  <2>. QED
    BY <1>1, <1>2, <2>2, OthersMet
<1>6. ServedWhileAWayIsUp'
  <2>1. ASSUME r \notin troubled, req'[r].at = "failed"
        PROVE  bad # {} /\ Cardinality(bad) > Retries
    <3>1. req[r].tries = Retries + 1
      BY <2>1, FetchingAssumption DEF Again, Inductive, WaysOK, Request
    <3>2. PICK M \in SUBSET down' : IsFiniteSet(M) /\ Cardinality(M) = Retries + 1
      BY <1>4, <2>1, <3>1
    <3>3. M \subseteq bad /\ IsFiniteSet(bad)
      <4>1. bad \subseteq 0..(Outs - 1) /\ Outs \in Nat \ {0}
        BY OutsIs DEF Inductive, WaysOK
      <4>. QED
        BY <1>3, <4>1, <3>2, FirstNumbers, FS_Subset DEF WaysOK
    <3>. QED
      BY <3>2, <3>3, FS_Subset, FS_CardinalityType, FetchingAssumption
  <2>. QED
    BY <1>2, <2>1 DEF Inductive, ServedWhileAWayIsUp, Outs
<1>. QED
  BY <1>3, <1>5, <1>6 DEF Inductive

LEMMA NoConnectionOK ==
    ASSUME Inductive, NEW r \in Fetch, NoConnection(r)
    PROVE  Inductive'
<1>1. PICK pause \in {0, 1} : Again(r, pause)
  BY DEF NoConnection
<1>2. CASE req[r].out \in bad /\ UNCHANGED <<troubled, troubles>>
  BY <1>1, <1>2, DownOK DEF NoConnection
<1>3. CASE /\ direct /\ troubles < Troubles
           /\ troubled' = troubled \cup {r} /\ troubles' = troubles + 1
  BY <1>1, <1>3, TroubledOK DEF NoConnection, Out
<1>. QED
  BY <1>2, <1>3 DEF NoConnection

LEMMA TickOK ==
    ASSUME Inductive, Tick
    PROVE  Inductive'
<1>1. /\ UNCHANGED <<direct, bad, down, turnOf, troubled, troubles>> /\ Outs' = Outs
      /\ req' = [r \in Fetch |-> [req[r] EXCEPT !.wait = Fewer(@)]] /\ gap' = Fewer(gap)
      /\ \A r \in Fetch : req[r].at = "booked" => req[r].wait # 0
  BY DEF Tick, Outs, Inductive, WaysOK, Request
<1>2. \A k \in Nat : Fewer(k) \in Nat /\ (k # 0 => Fewer(k) = k - 1)
  BY DEF Fewer
<1>3. \A r \in Fetch : /\ req'[r].at = req[r].at /\ req'[r].out = req[r].out
                       /\ req'[r].tries = req[r].tries /\ req'[r].wait = Fewer(req[r].wait)
                       /\ req[r].wait \in Nat
                       /\ req'[r] \in Request
  BY <1>1, <1>2 DEF Inductive, WaysOK, Request
<1>4. WaysOK'
  <2>1. req' \in [Fetch -> Request'] /\ gap' \in Nat
    BY <1>1, <1>2, <1>3 DEF Inductive, WaysOK, Request
  <2>. QED
    BY <1>1, <2>1 DEF Inductive, WaysOK
<1>5. BookedOK'
  <2>1. \A r \in Fetch : req'[r].at = "booked" =>
           /\ req'[r].wait = req[r].wait - 1 /\ req[r].wait \in Nat /\ req[r].wait < gap
           /\ gap \in Nat /\ gap' = gap - 1
    BY <1>1, <1>2, <1>3 DEF Inductive, WaysOK, BookedOK
  <2>. QED
    BY <1>3, <2>1 DEF Inductive, BookedOK
<1>6. TriesOK' /\ MetOK' /\ ServedWhileAWayIsUp'
  BY <1>1, <1>3 DEF Inductive, TriesOK, MetOK, Met, TriesOver, ServedWhileAWayIsUp
<1>7. OpenOK'
  BY <1>3, NoneOpens DEF Inductive, Open
<1>. QED
  BY <1>4, <1>5, <1>6, <1>7 DEF Inductive

LEMMA StepOK == Inductive /\ [FetchNext]_fetchVars => Inductive'
<1>. SUFFICES ASSUME Inductive, [FetchNext]_fetchVars PROVE Inductive'
  OBVIOUS
<1>1. CASE UNCHANGED fetchVars
  BY <1>1
  DEF fetchVars, Inductive, WaysOK, BookedOK, OpenOK, TriesOK, MetOK, Met, TriesOver,
      ServedWhileAWayIsUp, Open, Outs, Request
<1>2. ASSUME NEW r \in Fetch, \/ Book(r) \/ Depart(r) \/ Enter(r)
                              \/ Answer(r) \/ Trouble(r) \/ NoConnection(r)
      PROVE  Inductive'
  BY <1>2, BookOK, DepartOK, EnterOK, AnswerOK, TroubledOK, NoConnectionOK DEF Trouble
<1>. QED
  BY <1>1, <1>2, TickOK DEF FetchNext

LEMMA Always == FetchSpec => []Inductive
  BY InitOK, StepOK, PTL DEF FetchSpec

(* The types, and what the rate and the gate keep to: never more open than *)
(* there is room for, and no two departures booked for one interval.       *)
THEOREM RateAndGate == FetchSpec => []FetchTypeOK
<1>1. Inductive => FetchTypeOK
  BY DEF Inductive, WaysOK, BookedOK, OpenOK, Request, Trying, FetchTypeOK
<1>. QED
  BY <1>1, Always, PTL

(* A request the shop had nothing against is served, as long as a way out  *)
(* is up and fewer are bad than it may try.                                *)
THEOREM Served == FetchSpec => []ServedWhileAWayIsUp
<1>1. Inductive => ServedWhileAWayIsUp
  BY DEF Inductive
<1>. QED
  BY <1>1, Always, PTL

-----------------------------------------------------------------------------
(* Pages on disk. *)

Bytes == Whole \cup {Missing, HalfWritten}

(* A file holds a page the shop has served, of a product whose file it is. *)
Named(area)     == \A f \in File : area[f] \in Whole => NameOf[area[f].card] = f
WasServed(area) == \A f \in File : area[f] \in Whole => area[f].page <= served

(* A re-parse works through files that are there.                          *)
Listed == /\ mode # "reparse" => files = {}
          /\ \A f \in files : good[f] # Missing \/ broken[f] # Missing

(* No file of a product is older than what was read or handed over of it.  *)
Newest(area) == \A f \in File : area[f] \in Whole /\ area[f].card \notin cut =>
                   /\ payload[area[f].card] <= area[f].page
                   /\ handed[area[f].card] <= area[f].page

Forward == \A c \in Card \ cut : payload[c] = 0 \/ handed[c] <= payload[c]

OnDisk == Named(good) /\ Named(broken) /\ WasServed(good) /\ WasServed(broken) /\ Listed
Order  == Newest(good) /\ Newest(broken) /\ Forward
DiskKept   == SnapTypeOK /\ OnDisk /\ Order /\ BrokenAreTheFailures

LEMMA Kinds ==
    /\ Missing \notin Whole /\ HalfWritten \notin Whole /\ Missing # HalfWritten
    /\ \A c \in Card, p \in 1..MaxServed :
          /\ Snapshot(c, p) \in Whole
          /\ Snapshot(c, p).card = c /\ Snapshot(c, p).page = p
    /\ \A s \in Whole : s.card \in Card /\ s.page \in 1..MaxServed
<1>1. Missing.state = "missing" /\ HalfWritten.state = "torn"
  BY DEF Missing, HalfWritten
<1>2. \A c, p : /\ Snapshot(c, p).state = "whole"
                /\ Snapshot(c, p).card = c /\ Snapshot(c, p).page = p
  BY DEF Snapshot
<1>3. \A s \in Whole : \E c \in Card, p \in 1..MaxServed : s = Snapshot(c, p)
  BY DEF Whole
<1>4. \A c \in Card, p \in 1..MaxServed : Snapshot(c, p) \in Whole
  BY DEF Whole
<1> HIDE DEF Snapshot, Missing, HalfWritten
<1>. QED
  BY <1>1, <1>2, <1>3, <1>4

LEMMA InitKept == SnapInit => DiskKept
<1> SUFFICES ASSUME SnapInit
             PROVE  DiskKept
  OBVIOUS
<1>1. /\ good = [f \in File |-> Missing] /\ broken = [f \in File |-> Missing]
      /\ served = 0 /\ mode = "idle" /\ work = {} /\ files = {} /\ cut = {}
      /\ payload = Empty /\ handed = Empty /\ tried = [c \in Card |-> "never"]
  BY DEF SnapInit
<1>2. Empty \in [Ids -> 0..0] /\ \A x \in Ids : Empty[x] = 0
  BY DEF Empty
<1>3. SnapTypeOK
  BY <1>1, <1>2, SnapshotsAssumption DEF SnapTypeOK
<1>4. OnDisk
  BY <1>1, Kinds DEF OnDisk, Named, WasServed, Listed
<1>5. Order
  BY <1>1, <1>2, Kinds DEF Order, Newest, Forward, Ids
<1>6. BrokenAreTheFailures
  BY <1>1, SnapshotsAssumption DEF BrokenAreTheFailures
<1>. QED
  BY <1>3, <1>4, <1>5, <1>6 DEF DiskKept

(* What a save leaves on the disk.                                         *)
LEMMA Saved ==
    ASSUME SnapTypeOK, OnDisk, NEW c \in Card, NEW p \in 1..MaxServed,
           Keeps(c, p) \/ SetsApart(c, p)
    PROVE  /\ good' \in [File -> Bytes] /\ broken' \in [File -> Bytes]
           /\ \A f \in File \ {NameOf[c]} : good'[f] = good[f] /\ broken'[f] = broken[f]
           /\ Keeps(c, p) => /\ good'[NameOf[c]] = Snapshot(c, p)
                             /\ broken'[NameOf[c]] = Missing
           /\ SetsApart(c, p) => /\ good'[NameOf[c]] = good[NameOf[c]]
                                 /\ broken'[NameOf[c]] = Snapshot(c, p)
           /\ Named(good') /\ Named(broken')
<1>1. good \in [File -> Bytes] /\ broken \in [File -> Bytes] /\ NameOf[c] \in File
  BY SnapshotsAssumption DEF SnapTypeOK, Bytes
<1>2. Snapshot(c, p) \in Bytes /\ Missing \in Bytes /\ Snapshot(c, p).card = c
  BY Kinds DEF Bytes
<1> HIDE DEF Snapshot, Missing
<1>3. CASE Keeps(c, p)
  <2>1. /\ good' = [good EXCEPT ![NameOf[c]] = Snapshot(c, p)]
        /\ broken' = [broken EXCEPT ![NameOf[c]] = Missing]
    BY <1>3 DEF Keeps
  <2>2. Named(good') /\ Named(broken')
    BY <1>1, <1>2, <2>1, Kinds DEF Named, OnDisk
  <2>3. ~SetsApart(c, p)
    <3>1. SetsApart(c, p) => broken'[NameOf[c]] = Snapshot(c, p)
      BY <1>1 DEF SetsApart
    <3>. QED
      BY <1>1, <2>1, <3>1, Kinds
  <2>. QED
    BY <1>1, <1>2, <2>1, <2>2, <2>3
<1>4. CASE SetsApart(c, p)
  <2>1. /\ broken' = [broken EXCEPT ![NameOf[c]] = Snapshot(c, p)] /\ good' = good
    BY <1>4 DEF SetsApart
  <2>2. Named(good') /\ Named(broken')
    BY <1>1, <1>2, <2>1, Kinds DEF Named, OnDisk
  <2>3. ~Keeps(c, p)
    <3>1. Keeps(c, p) => broken'[NameOf[c]] = Missing
      BY <1>1 DEF Keeps
    <3>. QED
      BY <1>1, <2>1, <3>1, Kinds
  <2>. QED
    BY <1>1, <1>2, <2>1, <2>2, <2>3
<1>. QED
  BY <1>3, <1>4

(* A worker that dies costs the product it was at, and no other.           *)
LEMMA DiesKeeps ==
    ASSUME DiskKept, NEW c \in Card, NEW p \in 1..MaxServed, NEW ok \in BOOLEAN, Dies(c, p, ok),
           served \in 0..served', served' \in 0..MaxServed, p <= served', handed' = handed
    PROVE  DiskKept'
<1> USE DEF DiskKept
<1>1. /\ good \in [File -> Bytes] /\ broken \in [File -> Bytes] /\ NameOf[c] \in File
      /\ cut \subseteq Card /\ handed \in [Ids -> 0..served]
      /\ \A x \in Ids \ Card : handed[x] = 0
      /\ tried \in [Card -> {"never", "read", "failed"}]
      /\ MaxServed \in Nat
  BY SnapshotsAssumption DEF SnapTypeOK, Bytes
<1>2. /\ Snapshot(c, p) \in Bytes /\ HalfWritten \in Bytes /\ Missing \in Bytes
      /\ Snapshot(c, p).card = c /\ Snapshot(c, p).page = p
  BY Kinds DEF Bytes
<1>3. /\ cut' = cut \cup {c} /\ mode' = "idle" /\ work' = {} /\ files' = {}
      /\ payload' = Empty /\ tried' = tried
  BY DEF Dies
<1>4. Empty \in [Ids -> 0..0] /\ \A x \in Ids : Empty[x] = 0
  BY DEF Empty
<1>5. \A f \in File \ {NameOf[c]} : good'[f] = good[f] /\ broken'[f] = broken[f]
  BY <1>1 DEF Dies
<1>6. /\ good' \in [File -> Bytes] /\ broken' \in [File -> Bytes]
      /\ good'[NameOf[c]] \in {good[NameOf[c]], Snapshot(c, p), HalfWritten}
      /\ broken'[NameOf[c]] \in {broken[NameOf[c]], HalfWritten}
  <2> HIDE DEF Snapshot, Missing, HalfWritten
  <2>. QED
    BY <1>1, <1>2 DEF Dies
<1> HIDE DEF Snapshot, Missing, HalfWritten
<1>7. SnapTypeOK'
  BY <1>1, <1>3, <1>4, <1>6 DEF SnapTypeOK, Bytes
<1>8. OnDisk'
  <2>1. served \in Nat /\ served' \in Nat /\ served <= served'
    BY <1>1
  <2>2. Named(good)' /\ Named(broken)' /\ Listed'
    BY <1>2, <1>3, <1>5, <1>6, Kinds DEF OnDisk, Named, Listed
  <2>3. \A g \in File : good'[g] \in Whole => good'[g].page <= served'
    BY <1>2, <1>5, <1>6, <2>1, Kinds DEF OnDisk, WasServed
  <2>4. \A g \in File : broken'[g] \in Whole => broken'[g].page <= served'
    BY <1>2, <1>5, <1>6, <2>1, Kinds DEF OnDisk, WasServed
  <2>. QED
    BY <2>2, <2>3, <2>4 DEF OnDisk, WasServed
<1>9. Order'
  <2>1. \A f \in File : good'[f] \in Whole /\ good'[f].card \notin cut' =>
           good'[f] = good[f] /\ good[f].card \notin cut
    BY <1>2, <1>3, <1>5, <1>6, Kinds
  <2>2. \A f \in File : broken'[f] \in Whole /\ broken'[f].card \notin cut' =>
           broken'[f] = broken[f] /\ broken[f].card \notin cut
    BY <1>2, <1>3, <1>5, <1>6, Kinds
  <2>3. \A s \in Whole : payload'[s.card] = 0 /\ s.page \in Nat
    BY <1>3, <1>4, Kinds DEF Ids
  <2>4. Newest(good)' /\ Newest(broken)'
    BY <2>1, <2>2, <2>3 DEF Order, Newest
  <2>5. Forward'
    BY <1>3, <1>4 DEF Forward, Ids
  <2>. QED
    BY <2>4, <2>5 DEF Order
<1>10. BrokenAreTheFailures'
  <2>1. \A d \in Card \ cut' : Alone(d) => NameOf[d] # NameOf[c] /\ NameOf[d] \in File
    BY <1>3, SnapshotsAssumption DEF Alone
  <2>. QED
    BY <1>3, <1>5, <2>1 DEF BrokenAreTheFailures, Alone
<1>. QED
  BY <1>7, <1>8, <1>9, <1>10

(* A page of a product that was read or would not be: its files are as the *)
(* try left them, and it is no older than what was known of the product.   *)
LEMMA TriedKeeps ==
    ASSUME DiskKept, NEW c \in Card, NEW p \in 1..MaxServed, NEW how \in {"read", "failed"},
           served \in 0..served', served' \in 0..MaxServed, p <= served',
           c \notin cut => payload[c] <= p /\ handed[c] <= p,
           UNCHANGED <<handed, cut, mode>>,
           work' \subseteq work, files' \subseteq files \ {NameOf[c]},
           tried' = [tried EXCEPT ![c] = how],
           payload' = IF how = "read" THEN [payload EXCEPT ![c] = p] ELSE payload,
           \/ how = "read" /\ Keeps(c, p)
           \/ how = "failed" /\ SetsApart(c, p)
           \/ /\ UNCHANGED <<good, broken>>
              /\ how = "failed" <=> broken[NameOf[c]] # Missing
              /\ how = "read" => good[NameOf[c]] = Snapshot(c, p)
    PROVE  DiskKept'
<1> DEFINE file == NameOf[c]
<1> USE DEF DiskKept
<1>1. /\ good \in [File -> Bytes] /\ broken \in [File -> Bytes] /\ file \in File
      /\ payload \in [Ids -> 0..served] /\ handed \in [Ids -> 0..served]
      /\ \A x \in Ids \ Card : payload[x] = 0 /\ handed[x] = 0
      /\ tried \in [Card -> {"never", "read", "failed"}]
      /\ served \in Nat /\ served' \in Nat /\ MaxServed \in Nat /\ c \in Ids
  <2>1. MaxServed \in Nat /\ file \in File /\ c \in Ids
    BY SnapshotsAssumption DEF Ids
  <2>2. served \in Nat /\ served' \in Nat
    BY <2>1
  <2>. QED
    BY <2>1, <2>2 DEF SnapTypeOK, Bytes
<1>2. Snapshot(c, p) \in Whole /\ Snapshot(c, p).card = c /\ Snapshot(c, p).page = p
  BY Kinds
<1> HIDE DEF Snapshot, Missing, HalfWritten
<1>3. /\ good' \in [File -> Bytes] /\ broken' \in [File -> Bytes]
      /\ \A f \in File \ {file} : good'[f] = good[f] /\ broken'[f] = broken[f]
      /\ Named(good') /\ Named(broken')
  BY <1>1, Saved DEF OnDisk
<1>4. /\ good'[file] \in {good[file], Snapshot(c, p)}
      /\ broken'[file] \in {broken[file], Missing, Snapshot(c, p)}
      /\ how = "failed" <=> broken'[file] # Missing
      /\ how = "read" => good'[file] = Snapshot(c, p) /\ broken'[file] = Missing
  BY <1>1, <1>2, Saved, Kinds
<1>5. /\ payload' \in [Ids -> 0..served']
      /\ \A x \in Ids \ {c} : payload'[x] = payload[x]
      /\ payload'[c] \in {payload[c], p} /\ (how = "read" => payload'[c] = p)
      /\ how = "failed" => payload'[c] = payload[c]
  <2>1. payload \in [Ids -> 0..served']
    BY <1>1
  <2>2. CASE how = "read"
    BY <1>1, <2>1, <2>2
  <2>3. CASE how = "failed"
    BY <1>1, <2>1, <2>3
  <2>. QED
    BY <2>2, <2>3
<1>6. SnapTypeOK'
  <2>1. handed' \in [Ids -> 0..served'] /\ tried' \in [Card -> {"never", "read", "failed"}]
    BY <1>1
  <2>. QED
    BY <1>1, <1>3, <1>5, <2>1 DEF SnapTypeOK, Bytes
<1>7. OnDisk'
  <2>1. Listed'
    BY <1>1, <1>3 DEF OnDisk, Listed, SnapTypeOK
  <2>2. \A g \in File : good'[g] \in Whole => good'[g].page <= served'
    BY <1>1, <1>2, <1>3, <1>4, Kinds DEF OnDisk, WasServed
  <2>3. \A g \in File : broken'[g] \in Whole => broken'[g].page <= served'
    BY <1>1, <1>2, <1>3, <1>4, Kinds DEF OnDisk, WasServed
  <2>. QED
    BY <1>3, <2>1, <2>2, <2>3 DEF OnDisk, Named, WasServed
<1>8. Order'
  <2>1. ASSUME NEW area \in {good, broken}, NEW after \in [File -> Bytes],
               Named(area), Newest(area), Named(after),
               \A f \in File \ {file} : after[f] = area[f],
               \/ how = "failed" /\ after[file] \in {area[file], Missing, Snapshot(c, p)}
               \/ after[file] \in {Missing, Snapshot(c, p)},
               NEW f \in File, after[f] \in Whole, after[f].card \notin cut
        PROVE  payload'[after[f].card] <= after[f].page /\ handed[after[f].card] <= after[f].page
    <3>1. after[f].card \in Card /\ after[f].page \in Nat /\ after[f].card \in Ids
      BY <2>1, Kinds DEF Ids
    <3>2. CASE after[f] = Snapshot(c, p)
      BY <1>1, <1>2, <1>5, <2>1, <3>1, <3>2
    <3>3. CASE after[f] = area[f] /\ after[f].card # c
      BY <1>1, <1>5, <2>1, <3>1, <3>3 DEF Newest
    <3>4. CASE after[f] = area[f] /\ how = "failed"
      BY <1>1, <1>5, <2>1, <3>1, <3>4 DEF Newest
    <3>5. f # file => after[f].card # c
      BY <2>1 DEF Named
    <3>. QED
      BY <2>1, <3>2, <3>3, <3>4, <3>5, Kinds
  <2>2. Newest(good)'
    <3>1. \/ how = "failed" /\ good'[file] \in {good[file], Missing, Snapshot(c, p)}
          \/ good'[file] \in {Missing, Snapshot(c, p)}
      BY <1>4
    <3>. QED
      BY <1>3, <2>1, <3>1 DEF OnDisk, Order, Newest
  <2>3. Newest(broken)'
    <3>1. \/ how = "failed" /\ broken'[file] \in {broken[file], Missing, Snapshot(c, p)}
          \/ broken'[file] \in {Missing, Snapshot(c, p)}
      BY <1>4
    <3>. QED
      BY <1>3, <2>1, <3>1 DEF OnDisk, Order, Newest
  <2>4. Forward'
    BY <1>1, <1>5 DEF Order, Forward, Ids
  <2>. QED
    BY <2>2, <2>3, <2>4 DEF Order
<1>9. BrokenAreTheFailures'
  <2>1. ASSUME NEW d \in Card \ cut, Alone(d)
        PROVE  tried'[d] = "failed" <=> broken'[NameOf[d]] # Missing
    <3>1. CASE d = c
      BY <1>1, <1>4, <2>1, <3>1
    <3>2. CASE d # c
      <4>1. NameOf[d] \in File \ {file} /\ tried'[d] = tried[d]
        BY <1>1, <2>1, <3>2, SnapshotsAssumption DEF Alone
      <4>. QED
        BY <1>3, <2>1, <4>1 DEF BrokenAreTheFailures
    <3>. QED
      BY <3>1, <3>2
  <2>. QED
    BY <2>1 DEF BrokenAreTheFailures, Alone, Missing
<1>. QED
  BY <1>6, <1>7, <1>8, <1>9

LEMMA ObserveCardKeeps ==
    ASSUME DiskKept, NEW c \in Card, ObserveCard(c)
    PROVE  DiskKept'
<1>1. /\ mode = "crawl" /\ served < MaxServed /\ served' = served + 1 /\ handed' = handed
      /\ served \in Nat /\ MaxServed \in Nat /\ c \in Ids
      /\ payload \in [Ids -> 0..served] /\ handed \in [Ids -> 0..served] /\ files = {}
  BY SnapshotsAssumption DEF ObserveCard, DiskKept, SnapTypeOK, OnDisk, Listed, Ids
<1>2. PICK p \in 1..MaxServed : p = served'
  BY <1>1
<1>3. /\ served \in 0..served' /\ served' \in 0..MaxServed /\ p <= served'
      /\ payload[c] <= p /\ handed[c] <= p
  BY <1>1, <1>2
<1>4. CASE /\ Keeps(c, served') /\ tried' = [tried EXCEPT ![c] = "read"]
           /\ payload' = [payload EXCEPT ![c] = served']
           /\ work' = work \ {c} /\ UNCHANGED <<mode, files, cut>>
  <2>1. Keeps(c, p) /\ payload' = [payload EXCEPT ![c] = p]
    BY <1>2, <1>4
  <2>2. work' \subseteq work /\ files' \subseteq files \ {NameOf[c]} /\ UNCHANGED <<handed, cut, mode>>
    BY <1>1, <1>4
  <2>. QED
    BY <1>3, <1>4, <2>1, <2>2, TriedKeeps
<1>5. CASE /\ SetsApart(c, served') /\ tried' = [tried EXCEPT ![c] = "failed"]
           /\ work' = work \ {c} /\ UNCHANGED <<mode, files, payload, cut>>
  <2>1. SetsApart(c, p) /\ payload' = payload
    BY <1>2, <1>5
  <2>2. work' \subseteq work /\ files' \subseteq files \ {NameOf[c]} /\ UNCHANGED <<handed, cut, mode>>
    BY <1>1, <1>5
  <2>. QED
    BY <1>3, <1>5, <2>1, <2>2, TriedKeeps
<1>6. CASE \E ok \in BOOLEAN : Dies(c, served', ok)
  <2>1. PICK ok \in BOOLEAN : Dies(c, p, ok)
    BY <1>2, <1>6
  <2>. QED
    BY <1>1, <1>3, <2>1, DiesKeeps
<1>. QED
  BY <1>4, <1>5, <1>6 DEF ObserveCard

LEMMA ReadFileKeeps ==
    ASSUME DiskKept, NEW f \in File, ReadFile(f)
    PROVE  DiskKept'
<1> DEFINE s == Chosen(f)
<1>1. /\ mode = "reparse" /\ f \in files /\ UNCHANGED <<handed, served>>
      /\ good \in [File -> Bytes] /\ broken \in [File -> Bytes]
      /\ served \in 0..MaxServed /\ MaxServed \in Nat
      /\ payload \in [Ids -> 0..served] /\ handed \in [Ids -> 0..served]
  BY SnapshotsAssumption DEF ReadFile, DiskKept, SnapTypeOK, Bytes
<1>2. s # HalfWritten => s \in Whole
  BY <1>1 DEF Chosen, DiskKept, OnDisk, Listed, Bytes
<1>3. CASE s = HalfWritten
  <2>1. /\ mode' = "idle" /\ files' = {} /\ payload' = Empty
        /\ UNCHANGED <<good, broken, work, tried, cut, handed, served>>
    BY <1>1, <1>3 DEF ReadFile
  <2>2. Empty \in [Ids -> 0..served] /\ \A x \in Ids : Empty[x] = 0
    BY <1>1 DEF Empty
  <2>3. SnapTypeOK'
    BY <2>1, <2>2 DEF DiskKept, SnapTypeOK
  <2>4. OnDisk'
    BY <2>1 DEF DiskKept, OnDisk, Named, WasServed, Listed
  <2>5. \A b \in Whole : Empty[b.card] = 0 /\ b.page \in Nat
    BY <2>2, Kinds DEF Ids
  <2>6. Order'
    BY <2>1, <2>2, <2>5 DEF DiskKept, Order, Newest, Forward, Ids
  <2>7. BrokenAreTheFailures'
    BY <2>1 DEF DiskKept, BrokenAreTheFailures, Alone, Missing
  <2>. QED
    BY <2>3, <2>4, <2>6, <2>7 DEF DiskKept
<1>4. CASE s # HalfWritten
  <2>1. PICK c \in Card, p \in 1..MaxServed : s = Snapshot(c, p)
    BY <1>2, <1>4 DEF Whole
  <2>2. s.card = c /\ s.page = p /\ c \in Ids
    BY <2>1, Kinds DEF Ids
  <2>3. s \in {good[f], broken[f]} /\ s \in Whole
    BY <1>2, <1>4 DEF Chosen
  <2>4. NameOf[c] = f /\ p <= served /\ (c \notin cut => payload[c] <= p /\ handed[c] <= p)
    BY <2>2, <2>3 DEF DiskKept, OnDisk, Order, Named, WasServed, Newest
  <2>5. served \in 0..served' /\ served' \in 0..MaxServed /\ p <= served'
    BY <1>1, <2>4
  <2>6. CASE /\ IF broken[f] # Missing THEN Keeps(s.card, s.page) ELSE UNCHANGED <<good, broken>>
             /\ tried' = [tried EXCEPT ![s.card] = "read"]
             /\ payload' = [payload EXCEPT ![Reported(f, s)] = s.page]
             /\ files' = files \ {f} /\ UNCHANGED <<mode, work, cut>>
    <3>1. /\ tried' = [tried EXCEPT ![c] = "read"] /\ payload' = [payload EXCEPT ![c] = p]
          /\ work' \subseteq work /\ files' \subseteq files \ {NameOf[c]}
          /\ UNCHANGED <<handed, cut, mode>>
      BY <1>1, <2>2, <2>4, <2>6 DEF Reported
    <3>2. CASE broken[f] # Missing
      <4>1. Keeps(c, p)
        BY <2>2, <2>6, <3>2
      <4>. QED
        BY <2>4, <2>5, <3>1, <4>1, TriedKeeps
    <3>3. CASE broken[f] = Missing
      <4>1. UNCHANGED <<good, broken>> /\ good[NameOf[c]] = Snapshot(c, p) /\ broken[NameOf[c]] = Missing
        BY <2>1, <2>4, <2>6, <3>3 DEF Chosen
      <4>. QED
        BY <2>4, <2>5, <3>1, <4>1, TriedKeeps
    <3>. QED
      BY <3>2, <3>3
  <2>7. CASE /\ IF broken[f] = Missing THEN SetsApart(s.card, s.page) ELSE UNCHANGED <<good, broken>>
             /\ tried' = [tried EXCEPT ![s.card] = "failed"]
             /\ files' = files \ {f} /\ UNCHANGED <<mode, work, payload, cut>>
    <3>1. /\ tried' = [tried EXCEPT ![c] = "failed"] /\ payload' = payload
          /\ work' \subseteq work /\ files' \subseteq files \ {NameOf[c]}
          /\ UNCHANGED <<handed, cut, mode>>
      BY <1>1, <2>2, <2>4, <2>7
    <3>2. CASE broken[f] = Missing
      <4>1. SetsApart(c, p)
        BY <2>2, <2>7, <3>2
      <4>. QED
        BY <2>4, <2>5, <3>1, <4>1, TriedKeeps
    <3>3. CASE broken[f] # Missing
      <4>1. UNCHANGED <<good, broken>> /\ broken[NameOf[c]] # Missing
        BY <2>4, <2>7, <3>3
      <4>. QED
        BY <2>4, <2>5, <3>1, <4>1, TriedKeeps
    <3>. QED
      BY <3>2, <3>3
  <2>8. CASE Dies(s.card, s.page, broken[f] # Missing)
    <3>1. PICK ok \in BOOLEAN : Dies(c, p, ok)
      BY <2>2, <2>8
    <3>. QED
      BY <1>1, <2>5, <3>1, DiesKeeps
  <2>. QED
    BY <1>4, <2>6, <2>7, <2>8 DEF ReadFile
<1>. QED
  BY <1>3, <1>4

LEMMA HandsOverKeeps ==
    ASSUME DiskKept, HandsOver
    PROVE  DiskKept'
<1>1. /\ handed' = [x \in Ids |-> IF payload[x] = 0 THEN handed[x] ELSE payload[x]]
      /\ payload' = Empty /\ mode' \in {"idle", mode}
      /\ mode = "reparse" => files = {}
      /\ UNCHANGED <<good, broken, work, files, served, tried, cut>>
  BY DEF HandsOver
<1>2. Empty \in [Ids -> 0..served] /\ \A x \in Ids : Empty[x] = 0
  BY SnapshotsAssumption DEF Empty, DiskKept, SnapTypeOK
<1>3. /\ payload \in [Ids -> 0..served] /\ handed \in [Ids -> 0..served]
      /\ \A x \in Ids \ Card : payload[x] = 0 /\ handed[x] = 0
      /\ served \in Nat
  BY SnapshotsAssumption DEF DiskKept, SnapTypeOK
<1>4. SnapTypeOK'
  <2>1. handed' \in [Ids -> 0..served'] /\ payload' \in [Ids -> 0..served']
    BY <1>1, <1>2, <1>3
  <2>2. \A x \in Ids \ Card : payload'[x] = 0 /\ handed'[x] = 0
    BY <1>1, <1>2, <1>3
  <2>. QED
    BY <1>1, <2>1, <2>2 DEF DiskKept, SnapTypeOK
<1>5. OnDisk'
  BY <1>1 DEF DiskKept, OnDisk, Named, WasServed, Listed
<1>6. \A x \in Ids : handed'[x] \in {payload[x], handed[x]} /\ payload'[x] = 0
  BY <1>1, <1>2
<1>7. \A b \in Whole : b.card \in Ids /\ b.page \in Nat
  BY Kinds DEF Ids
<1>8. Newest(good)' /\ Newest(broken)'
  BY <1>1, <1>3, <1>6, <1>7 DEF DiskKept, Order, Newest
<1>9. Forward'
  BY <1>1, <1>6 DEF Forward, Ids
<1>10. BrokenAreTheFailures'
  BY <1>1 DEF DiskKept, BrokenAreTheFailures, Alone, Missing
<1>. QED
  BY <1>4, <1>5, <1>8, <1>9, <1>10 DEF DiskKept, Order

LEMMA KeptHolds == SnapSpec => []DiskKept
<1>1. ASSUME DiskKept, [SnapNext]_snapVars
      PROVE  DiskKept'
  <2>1. CASE UNCHANGED snapVars
    BY <1>1, <2>1 DEF DiskKept, SnapTypeOK, OnDisk, Order, Named, WasServed, Listed, Newest, Forward,
                      BrokenAreTheFailures, Alone, Missing, snapVars
  <2>2. CASE Crawl \/ ReparseAll
    <3>1. /\ UNCHANGED <<good, broken, payload, handed, served, tried, cut>>
          /\ mode = "idle" /\ mode' \in {"crawl", "reparse"}
      BY <2>2 DEF Crawl, ReparseAll
    <3>2. work' \subseteq Card /\ files' \subseteq File /\ Listed'
      <4>1. CASE Crawl
        BY <1>1, <3>1, <4>1 DEF DiskKept, SnapTypeOK, OnDisk, Listed, Crawl, Missing
      <4>2. CASE ReparseAll
        BY <1>1, <3>1, <4>2 DEF DiskKept, SnapTypeOK, OnDisk, Listed, ReparseAll, Missing
      <4>. QED
        BY <2>2, <4>1, <4>2
    <3>3. SnapTypeOK' /\ OnDisk'
      BY <1>1, <3>1, <3>2 DEF DiskKept, SnapTypeOK, OnDisk, Named, WasServed
    <3>4. Order' /\ BrokenAreTheFailures'
      BY <1>1, <3>1 DEF DiskKept, Order, Newest, Forward, BrokenAreTheFailures, Alone, Missing
    <3>. QED
      BY <3>3, <3>4 DEF DiskKept
  <2>. QED
    BY <1>1, <2>1, <2>2, ObserveCardKeeps, ReadFileKeeps, HandsOverKeeps DEF SnapNext
<1>. QED
  BY <1>1, InitKept, PTL DEF SnapSpec

(* The broken examples are the products whose newest try failed, whatever  *)
(* the order of crawls, re-parses and deaths of the worker - but for the   *)
(* product it died at, and those that share a file.                        *)
THEOREM FailuresKept == SnapSpec => []BrokenAreTheFailures
<1>1. DiskKept => BrokenAreTheFailures
  BY DEF DiskKept
<1>. QED
  BY <1>1, KeptHolds, PTL

(* What is handed over goes by the identifiers that the shop has given: no  *)
(* re-parse invents a second product beside one that is there.             *)
THEOREM NoneInvented == SnapSpec => []SnapTypeOK
<1>1. DiskKept => SnapTypeOK
  BY DEF DiskKept
<1>. QED
  BY <1>1, KeptHolds, PTL

(* Nothing is handed over of a page older than one that was, but for a     *)
(* product the worker died at.                                             *)
THEOREM NeverBack == SnapSpec => NeverToAnOlderPage
<1>1. ASSUME DiskKept, [SnapNext]_snapVars, NEW c \in Card \ cut
      PROVE  handed'[c] >= handed[c]
  <2>1. /\ c \in Ids /\ handed \in [Ids -> 0..served] /\ served \in Nat
        /\ payload \in [Ids -> 0..served]
        /\ payload[c] = 0 \/ handed[c] <= payload[c]
    BY <1>1, SnapshotsAssumption DEF DiskKept, SnapTypeOK, Order, Forward, Ids
  <2>2. CASE HandsOver
    BY <2>1, <2>2 DEF HandsOver
  <2>3. CASE ~HandsOver
    <3>1. handed' = handed
      BY <1>1, <2>3 DEF SnapNext, snapVars, Crawl, ReparseAll, ObserveCard, ReadFile
    <3>. QED
      BY <2>1, <3>1
  <2>. QED
    BY <2>2, <2>3
<1>2. DiskKept /\ [SnapNext]_snapVars => [\A c \in Card \ cut : handed'[c] >= handed[c]]_snapVars
  BY <1>1
<1>. QED
  BY <1>2, KeptHolds, PTL DEF SnapSpec, NeverToAnOlderPage

-----------------------------------------------------------------------------
(* Walks.                                                                  *)

Seen  == found \cup hidden \cup LeftOut
Early == {i \in DOMAIN shop : i <= turn * size}
Still == ~moved /\ ~mixed /\ Fits

WalkTyped ==
    /\ shop \in Seq(Product) /\ Once(shop)
    /\ way \in Ways /\ size \in Sizes /\ mixed \in BOOLEAN
    /\ phase \in {"first", "walking", "done", "failed"}
    /\ asked \subseteq 2 .. MaxPages /\ turn \in 0 .. MaxPages
    /\ found \subseteq Product \ LeftOut /\ hidden \subseteq Product
    /\ steady \subseteq Here /\ moved \in BOOLEAN /\ moves \in 0 .. MaxMoves

CountsOK == offset \in Nat /\ count \in Nat /\ count <= offset /\ offset <= turn * size

(* Who asks for one page after another asks for no pages together, and     *)
(* while it goes on has pages to ask for, by offset after full ones alone. *)
GoingOK ==
    way # "told" =>
        /\ asked = {}
        /\ phase \in {"first", "walking"} =>
               turn < MaxPages /\ (way = "offset" => offset = turn * size)

(* What stands on a page is on one that was asked for, or was seen.        *)
ByPagesOK ==
    way = "told" /\ phase = "walking" /\ Still =>
        \A i \in DOMAIN shop, p \in Nat :
            shop[i] \in steady /\ i <= p * size + size /\ p * size < i
                => p + 1 \in asked \/ shop[i] \in Seen

(* What stands before the next page was seen, and nothing behind it.       *)
InOrderOK ==
    way # "told" /\ phase \in {"first", "walking"} /\ Still =>
        /\ \A i \in Early : shop[i] \in steady => shop[i] \in Seen
        /\ \A x \in found : \E i \in Early : x = shop[i]

WalkInv == /\ WalkTyped /\ CountsOK /\ GoingOK /\ ByPagesOK /\ InOrderOK
           /\ StandingShopIsSeen

-----------------------------------------------------------------------------
LEMMA PageSteps ==
    ASSUME NEW s \in Nat
    PROVE  /\ \A n \in Nat : n * s \in Nat /\ (n + 1) * s = n * s + s
           /\ \A n, m \in Nat : n <= m => n * s <= m * s
<1>1. \A n \in Nat : n * s \in Nat /\ (n + 1) * s = n * s + s
  OBVIOUS
<1>2. ASSUME NEW n \in Nat, NEW m \in Nat, n <= m PROVE n * s <= m * s
  BY <1>2
<1>. QED
  BY <1>1, <1>2

LEMMA PageOfAPlace ==
    ASSUME NEW s \in Nat \ {0}, NEW i \in Nat \ {0}
    PROVE  \E p \in Nat : p * s < i /\ i <= p * s + s
<1>. DEFINE S == {n \in Nat : n = 0 \/ \E p \in Nat : p * s < n /\ n <= p * s + s}
<1>1. 0 \in S
  OBVIOUS
<1>2. ASSUME NEW n \in S PROVE n + 1 \in S
  <2>1. CASE n = 0
    <3>1. 0 * s < 1 /\ 1 <= 0 * s + s /\ n + 1 = 1 /\ 0 \in Nat /\ 1 \in Nat
      BY <2>1
    <3>. QED
      BY <3>1
  <2>2. ASSUME NEW p \in Nat, p * s < n, n <= p * s + s PROVE n + 1 \in S
    <3>. DEFINE q == p + 1
    <3>1. p * s \in Nat /\ q * s = p * s + s /\ q \in Nat
      BY PageSteps
    <3>. HIDE DEF q
    <3>2. CASE n = p * s + s
      <4>1. q * s < n + 1 /\ n + 1 <= q * s + s
        BY <3>1, <3>2
      <4>. QED
        BY <3>1, <4>1
    <3>3. CASE n # p * s + s
      <4>1. p * s < n + 1 /\ n + 1 <= p * s + s
        BY <2>2, <3>1, <3>3
      <4>. QED
        BY <4>1
    <3>. QED
      BY <3>2, <3>3
  <2>. QED
    BY <2>1, <2>2
<1>3. S = Nat
  <2>1. S \in SUBSET Nat
    OBVIOUS
  <2>. HIDE DEF S
  <2>. QED
    BY <1>1, <1>2, <2>1, NoFirstMissing
<1>. QED
  BY <1>3

LEMMA PieceRows ==
    ASSUME NEW T, NEW s \in Seq(T), NEW m \in Nat \ {0}, NEW n \in 0 .. Len(s)
    PROVE  LET t == SubSeq(s, m, n)
           IN  /\ t \in Seq(T) /\ Len(t) = IF m <= n THEN n - m + 1 ELSE 0
               /\ ToSet(t) = {s[i] : i \in m .. n}
               /\ Once(s) => Once(t)
<1>. DEFINE t == SubSeq(s, m, n)
<1>1. /\ t \in Seq(T) /\ Len(t) = IF m <= n THEN n - m + 1 ELSE 0
      /\ DOMAIN t = 1 .. Len(t) /\ DOMAIN s = 1 .. Len(s)
      /\ \A i \in 1 .. Len(t) : t[i] = s[m + i - 1]
  OBVIOUS
<1>. HIDE DEF t
<1>2. \A i \in 1 .. Len(t) : m + i - 1 \in m .. n /\ m + i - 1 \in 1 .. Len(s)
  BY <1>1
<1>3. \A i \in m .. n : i - m + 1 \in 1 .. Len(t) /\ m + (i - m + 1) - 1 = i
  BY <1>1
<1>4. ToSet(t) = {s[i] : i \in m .. n}
  <2>1. \A i \in 1 .. Len(t) : t[i] \in {s[k] : k \in m .. n}
    BY <1>1, <1>2
  <2>2. \A k \in m .. n : s[k] = t[k - m + 1] /\ k - m + 1 \in 1 .. Len(t)
    BY <1>1, <1>3
  <2>. QED
    BY <1>1, <2>1, <2>2 DEF ToSet
<1>5. ASSUME Once(s) PROVE Once(t)
  <2>. SUFFICES ASSUME NEW i \in 1 .. Len(t), NEW j \in 1 .. Len(t), t[i] = t[j] PROVE i = j
    BY <1>1 DEF Once
  <2>1. m + i - 1 = m + j - 1
    BY <1>1, <1>2, <1>5 DEF Once
  <2>. QED
    BY <1>1, <2>1
<1>. QED
  BY <1>1, <1>4, <1>5 DEF t

(* The z products behind the first j of s, of which there are l. *)
PageOf(t, s, T, j, z, l) ==
    /\ t \in Seq(T) /\ Len(t) \in Nat /\ Len(t) <= z
    /\ j + z <= l => Len(t) = z
    /\ Len(t) < z => l < j + z /\ l <= j + Len(t)
    /\ t = <<>> => l <= j
    /\ \A x \in ToSet(t) : \E i \in 1 .. l : j < i /\ i <= j + z /\ x = s[i]
    /\ \A i \in 1 .. l : j < i /\ i <= j + z => s[i] \in ToSet(t)

LEMMA PageRows ==
    ASSUME NEW T, NEW s \in Seq(T), NEW j \in Nat, NEW z \in Nat \ {0}, NEW l \in Nat, l = Len(s),
           NEW n \in 0 .. l, n <= j + z, j + z < l => n = j + z, ~(j + z < l) => n = l
    PROVE  PageOf(SubSeq(s, j + 1, n), s, T, j, z, l)
<1>. DEFINE t == SubSeq(s, j + 1, n)
<1>1. /\ t \in Seq(T) /\ Len(t) = IF j + 1 <= n THEN n - (j + 1) + 1 ELSE 0
      /\ ToSet(t) = {s[i] : i \in j + 1 .. n}
  BY PieceRows
<1>. HIDE DEF t
<1>2. /\ j + 1 <= n => Len(t) = n - (j + 1) + 1
      /\ ~(j + 1 <= n) => Len(t) = 0
  BY <1>1
<1>3. /\ Len(t) \in Nat /\ Len(t) <= z
      /\ j + z <= l => Len(t) = z
      /\ Len(t) < z => l < j + z /\ l <= j + Len(t)
      /\ Len(t) = 0 => l <= j
  BY <1>2
<1>4. \A i \in j + 1 .. n : i \in 1 .. l /\ j < i /\ i <= j + z
  OBVIOUS
<1>5. \A i \in 1 .. l : j < i /\ i <= j + z => i \in j + 1 .. n
  OBVIOUS
<1>6. t = <<>> => Len(t) = 0
  OBVIOUS
<1>. QED
  BY <1>1, <1>3, <1>4, <1>5, <1>6 DEF PageOf, t

LEMMA FromPage ==
    ASSUME NEW j \in Nat, NEW l \in Nat, l = Len(shop), shop \in Seq(Product),
           NEW z \in Nat \ {0}
    PROVE  PageOf(From(j, z), shop, Product, j, z, l)
<1>1. PICK n \in 0 .. l : n <= j + z /\ (j + z < l => n = j + z) /\ (~(j + z < l) => n = l)
  <2>1. CASE j + z < l
    BY <2>1
  <2>2. CASE ~(j + z < l)
    BY <2>2
  <2>. QED
    BY <2>1, <2>2
<1>2. From(j, z) = SubSeq(shop, j + 1, n)
  BY <1>1 DEF From
<1>3. PageOf(SubSeq(shop, j + 1, n), shop, Product, j, z, l)
  BY <1>1, PageRows
<1>. QED
  BY <1>2, <1>3

LEMMA KeptFew ==
    ASSUME NEW T, NEW s \in Seq(T)
    PROVE  Cardinality(Kept(s)) \in Nat /\ Cardinality(Kept(s)) <= Len(s)
<1>1. /\ Len(s) \in Nat /\ DOMAIN s = 1 .. Len(s) /\ s \in [1 .. Len(s) -> ToSet(s)]
      /\ IsFiniteSet(1 .. Len(s)) /\ Cardinality(1 .. Len(s)) = Len(s)
  <2>1. Len(s) \in Nat /\ DOMAIN s = 1 .. Len(s) /\ s \in [1 .. Len(s) -> ToSet(s)]
    BY DEF ToSet
  <2>2. IsFiniteSet(1 .. Len(s)) /\ Cardinality(1 .. Len(s)) = Len(s)
    BY <2>1, FS_Interval, 1 \in Int
  <2>. QED
    BY <2>1, <2>2
<1>2. s \in Surjection(1 .. Len(s), ToSet(s))
  BY <1>1 DEF Surjection, ToSet
<1>3. IsFiniteSet(ToSet(s)) /\ Cardinality(ToSet(s)) <= Len(s)
  BY <1>1, <1>2, FS_Surjection
<1>4. Kept(s) \subseteq ToSet(s)
  BY DEF Kept
<1>5. IsFiniteSet(Kept(s)) /\ Cardinality(Kept(s)) <= Cardinality(ToSet(s))
  BY <1>3, <1>4, FS_Subset
<1>6. Cardinality(Kept(s)) \in Nat /\ Cardinality(ToSet(s)) \in Nat
  BY <1>3, <1>5, FS_CardinalityType
<1>. QED
  BY <1>1, <1>3, <1>5, <1>6

LEMMA PagesHold ==
    ASSUME shop \in Seq(Product), size \in Nat \ {0}
    PROVE  Pages(size) \in Nat /\ Len(shop) <= Pages(size) * size
<1>1. Len(shop) \in Nat
  OBVIOUS
<1>2. \A n \in Nat, s \in Nat \ {0} : /\ (n + s - 1) \div s \in Nat
                                      /\ n <= ((n + s - 1) \div s) * s
  OBVIOUS
<1>. QED
  BY <1>1, <1>2 DEF Pages

LEMMA WalkAtFirst == WalkInit => WalkInv
<1>. SUFFICES ASSUME WalkInit PROVE WalkInv
  OBVIOUS
<1>1. shop \in Seq(Product) /\ Once(shop) /\ size \in Nat \ {0}
  BY WalkAssumption DEF WalkInit, Once, IsInjective
<1>2. 0 * size = 0
  BY <1>1
<1>3. WalkTyped /\ CountsOK
  <2>1. /\ phase = "first" /\ asked = {} /\ turn = 0 /\ offset = 0 /\ count = 0 /\ found = {}
        /\ steady = Here /\ hidden = {} /\ moved = FALSE /\ moves = 0
        /\ way \in Ways /\ size \in Sizes /\ mixed \in BOOLEAN
    BY DEF WalkInit
  <2>2. 0 \in 0 .. MaxPages /\ 0 \in 0 .. MaxMoves
    BY WalkAssumption
  <2>3. CountsOK
    BY <1>2, <2>1 DEF CountsOK
  <2>4. WalkTyped
    <3>. HIDE DEF Here
    <3>. QED
      BY <1>1, <2>1, <2>2 DEF WalkTyped
  <2>. QED
    BY <2>3, <2>4
<1>4. \A i \in DOMAIN shop : ~(i <= 0)
  BY <1>1
<1>5. GoingOK /\ ByPagesOK /\ StandingShopIsSeen
  BY <1>2, WalkAssumption DEF WalkInit, GoingOK, ByPagesOK, StandingShopIsSeen
<1>6. InOrderOK
  BY <1>2, <1>4 DEF WalkInit, InOrderOK, Early
<1>. QED
  BY <1>3, <1>5, <1>6 DEF WalkInv

-----------------------------------------------------------------------------
(* The shop changes. *)
LEMMA ComesRows ==
    ASSUME shop \in Seq(Product), Once(shop), NEW x \in Product \ Here,
           NEW i \in 1 .. Len(shop) + 1
    PROVE  LET s == InsertAt(shop, i, x)
           IN  /\ s \in Seq(Product) /\ Once(s) /\ ToSet(s) = Here \cup {x}
               /\ i > Len(shop) => s = Append(shop, x)
<1>1. PICK l \in Nat : l = Len(shop) /\ DOMAIN shop = 1 .. l
  OBVIOUS
<1>2. i \in 1 .. l + 1 /\ i - 1 \in 0 .. l /\ i \in Nat \ {0}
  BY <1>1
<1>. DEFINE front == SubSeq(shop, 1, i - 1)
            back == SubSeq(shop, i, l)
<1>3. front \in Seq(Product) /\ ToSet(front) = {shop[k] : k \in 1 .. i - 1} /\ Once(front)
  <2>1. PICK n \in 0 .. Len(shop) : n = i - 1
    BY <1>1, <1>2
  <2>2. LET s == SubSeq(shop, 1, n)
        IN  s \in Seq(Product) /\ ToSet(s) = {shop[k] : k \in 1 .. n} /\ Once(s)
    BY 1 \in Nat \ {0}, PieceRows
  <2>. QED
    BY <2>1, <2>2
<1>4. back \in Seq(Product) /\ ToSet(back) = {shop[k] : k \in i .. l} /\ Once(back)
  <2>1. l \in 0 .. Len(shop)
    BY <1>1
  <2>. QED
    BY <1>2, <2>1, PieceRows
<1>5. front \o <<x>> = Append(front, x)
  BY <1>3
<1>. HIDE DEF front, back
<1>6. \A k \in 1 .. i - 1 : k \in DOMAIN shop /\ k \notin i .. l
  BY <1>1, <1>2
<1>7. \A k \in i .. l : k \in DOMAIN shop /\ k \notin 1 .. i - 1
  BY <1>1, <1>2
<1>8. \A k \in DOMAIN shop : k \in 1 .. i - 1 \/ k \in i .. l
  BY <1>1, <1>2
<1>9. Here = ToSet(front) \cup ToSet(back) /\ ToSet(front) \cap ToSet(back) = {}
  <2>1. \A k \in DOMAIN shop : shop[k] \in ToSet(front) \/ shop[k] \in ToSet(back)
    BY <1>3, <1>4, <1>8
  <2>2. \A k \in 1 .. i - 1, m \in i .. l : shop[k] # shop[m]
    BY <1>6, <1>7 DEF Once
  <2>3. \A k \in 1 .. i - 1 : shop[k] \in Here
    BY <1>6 DEF Here, ToSet
  <2>4. \A k \in i .. l : shop[k] \in Here
    BY <1>7 DEF Here, ToSet
  <2>5. \A y \in Here : \E k \in DOMAIN shop : y = shop[k]
    BY DEF Here, ToSet
  <2>6. Here = ToSet(front) \cup ToSet(back)
    BY <1>3, <1>4, <2>1, <2>3, <2>4, <2>5
  <2>7. ToSet(front) \cap ToSet(back) = {}
    BY <1>3, <1>4, <2>2
  <2>. QED
    BY <2>6, <2>7
<1>. DEFINE head == Append(front, x)
<1>10. head \in Seq(Product) /\ ToSet(head) = ToSet(front) \cup {x} /\ Once(head)
  BY <1>3, <1>9, AppendRow
<1>. HIDE DEF head
<1>11. /\ head \o back \in Seq(Product) /\ ToSet(head \o back) = ToSet(head) \cup ToSet(back)
       /\ Once(head \o back)
  <2>1. ToSet(head) \cap ToSet(back) = {}
    BY <1>9, <1>10
  <2>2. head \in Seq(Product) /\ Once(head) /\ back \in Seq(Product) /\ Once(back)
    BY <1>4, <1>10
  <2>. QED
    BY <2>1, <2>2, JoinRows
<1>12. InsertAt(shop, i, x) = head \o back
  BY <1>1, <1>5 DEF InsertAt, head, front, back
<1>13. ASSUME i > Len(shop) PROVE InsertAt(shop, i, x) = Append(shop, x)
  <2>1. i = l + 1
    BY <1>1, <1>2, <1>13
  <2>2. front = shop
    BY <1>1, <2>1 DEF front
  <2>3. back = <<>>
    BY <1>1, <2>1 DEF back
  <2>. QED
    BY <1>10, <1>12, <2>2, <2>3 DEF head
<1>. QED
  BY <1>9, <1>10, <1>11, <1>12, <1>13

LEMMA LeavesRows ==
    ASSUME shop \in Seq(Product), Once(shop), NEW i \in DOMAIN shop
    PROVE  LET s == RemoveAt(shop, i)
           IN  s \in Seq(Product) /\ Once(s) /\ ToSet(s) = Here \ {shop[i]}
<1>1. PICK l \in Nat : l = Len(shop) /\ DOMAIN shop = 1 .. l
  OBVIOUS
<1>2. i \in 1 .. l /\ i - 1 \in 0 .. l /\ i + 1 \in Nat \ {0}
  BY <1>1
<1>. DEFINE front == SubSeq(shop, 1, i - 1)
            back == SubSeq(shop, i + 1, l)
<1>3. front \in Seq(Product) /\ ToSet(front) = {shop[k] : k \in 1 .. i - 1} /\ Once(front)
  <2>1. i - 1 \in 0 .. Len(shop) /\ 1 \in Nat \ {0}
    BY <1>1, <1>2
  <2>. QED
    BY <2>1, PieceRows
<1>4. back \in Seq(Product) /\ ToSet(back) = {shop[k] : k \in i + 1 .. l} /\ Once(back)
  <2>1. l \in 0 .. Len(shop)
    BY <1>1
  <2>. QED
    BY <1>2, <2>1, PieceRows
<1>. HIDE DEF front, back
<1>5. \A k \in 1 .. i - 1 : k \in DOMAIN shop /\ k # i /\ k \notin i + 1 .. l
  BY <1>1, <1>2
<1>6. \A k \in i + 1 .. l : k \in DOMAIN shop /\ k # i
  BY <1>1, <1>2
<1>7. \A k \in DOMAIN shop : k = i \/ k \in 1 .. i - 1 \/ k \in i + 1 .. l
  BY <1>1, <1>2
<1>8. Here \ {shop[i]} = ToSet(front) \cup ToSet(back)
  <2>1. \A k \in DOMAIN shop : k = i \/ shop[k] \in ToSet(front) \/ shop[k] \in ToSet(back)
    BY <1>3, <1>4, <1>7
  <2>2. \A k \in 1 .. i - 1 : shop[k] \in Here \ {shop[i]}
    BY <1>5 DEF Once, Here, ToSet
  <2>3. \A k \in i + 1 .. l : shop[k] \in Here \ {shop[i]}
    BY <1>6 DEF Once, Here, ToSet
  <2>. QED
    BY <1>3, <1>4, <2>1, <2>2, <2>3 DEF Here, ToSet
<1>9. ToSet(front) \cap ToSet(back) = {}
  BY <1>3, <1>4, <1>5, <1>6 DEF Once
<1>10. /\ front \o back \in Seq(Product) /\ ToSet(front \o back) = ToSet(front) \cup ToSet(back)
       /\ Once(front \o back)
  BY <1>3, <1>4, <1>9, JoinRows
<1>11. RemoveAt(shop, i) = front \o back
  BY <1>1 DEF RemoveAt, front, back
<1>. QED
  BY <1>8, <1>10, <1>11

LEMMA StepShop ==
    ASSUME WalkInv,
           \/ \E x \in Product, i \in 1 .. (Len(shop) + 1) : Comes(x, i)
           \/ \E i \in DOMAIN shop : Leaves(i)
    PROVE  WalkInv'
<1>1. /\ phase \in {"first", "walking"} /\ moves < MaxMoves /\ moves' = moves + 1
      /\ UNCHANGED <<way, size, mixed, phase, asked, turn, offset, count, found, hidden>>
  BY DEF Comes, Leaves, Shift
<1>2. shop \in Seq(Product) /\ Once(shop) /\ steady \subseteq Here /\ moves \in 0 .. MaxMoves
  BY DEF WalkInv, WalkTyped
<1>3. moves' \in 0 .. MaxMoves
  BY <1>1, <1>2, WalkAssumption
<1>4. CountsOK' /\ GoingOK' /\ StandingShopIsSeen'
  BY <1>1 DEF WalkInv, CountsOK, GoingOK, StandingShopIsSeen
<1>5. ASSUME NEW x \in Product, NEW i \in 1 .. (Len(shop) + 1), Comes(x, i) PROVE WalkInv'
  <2>1. /\ x \in Product \ Here /\ shop' = InsertAt(shop, i, x) /\ UNCHANGED steady
        /\ moved' = (moved \/ i <= Len(shop))
    BY <1>5 DEF Comes
  <2>2. /\ shop' \in Seq(Product) /\ Once(shop') /\ Here' = Here \cup {x}
        /\ i > Len(shop) => shop' = Append(shop, x)
    BY <1>2, <2>1, ComesRows DEF Here
  <2>3. WalkTyped'
    BY <1>1, <1>2, <1>3, <2>1, <2>2 DEF WalkInv, WalkTyped
  <2>4. CASE i <= Len(shop)
    BY <1>4, <2>1, <2>3, <2>4 DEF WalkInv, ByPagesOK, InOrderOK, Still
  <2>5. CASE ~(i <= Len(shop))
    <3>1. PICK l \in Nat : l = Len(shop) /\ DOMAIN shop = 1 .. l
      BY <1>2
    <3>2. shop' = Append(shop, x) /\ moved' = moved
      <4>1. i > Len(shop)
        BY <2>5, <3>1
      <4>. QED
        BY <2>1, <2>2, <2>5, <4>1 DEF WalkInv, WalkTyped
    <3>3. /\ Len(shop') = l + 1 /\ DOMAIN shop' = 1 .. l + 1 /\ shop'[l + 1] = x
          /\ \A k \in 1 .. l : shop'[k] = shop[k]
      BY <1>2, <3>1, <3>2
    <3>4. /\ \A k \in DOMAIN shop' : shop'[k] \in steady => k \in DOMAIN shop /\ shop'[k] = shop[k]
          /\ \A k \in DOMAIN shop : k \in DOMAIN shop' /\ shop'[k] = shop[k]
      <4>1. x \notin steady
        BY <1>2, <2>1
      <4>2. \A k \in 1 .. l + 1 : k \in 1 .. l \/ k = l + 1
        BY <3>1
      <4>3. \A k \in 1 .. l : k \in 1 .. l + 1
        BY <3>1
      <4>. QED
        BY <3>1, <3>3, <4>1, <4>2, <4>3
    <3>5. Still' => Still
      <4>1. MaxPages * size \in Nat
        BY WalkAssumption DEF WalkInv, WalkTyped
      <4>2. Fits' => Fits
        BY <1>1, <3>1, <3>3, <4>1 DEF Fits
      <4>. QED
        BY <1>1, <3>2, <4>2 DEF Still
    <3>6. ByPagesOK'
      BY <1>1, <2>1, <3>4, <3>5 DEF WalkInv, ByPagesOK, Seen
    <3>7. InOrderOK'
      <4>1. SUFFICES ASSUME way # "told", Still'
                     PROVE  /\ \A k \in Early' : shop'[k] \in steady => shop'[k] \in Seen
                            /\ \A y \in found : \E k \in Early' : y = shop'[k]
        BY <1>1, <2>1 DEF InOrderOK, Seen
      <4>2. /\ \A k \in Early : shop[k] \in steady => shop[k] \in Seen
            /\ \A y \in found : \E k \in Early : y = shop[k]
        BY <1>1, <3>5, <4>1 DEF WalkInv, InOrderOK
      <4>3. \A k \in Early : k \in Early' /\ shop'[k] = shop[k]
        BY <1>1, <3>4 DEF Early
      <4>4. \A k \in Early' : shop'[k] \in steady => k \in Early /\ shop'[k] = shop[k]
        BY <1>1, <3>4 DEF Early
      <4>. QED
        BY <4>2, <4>3, <4>4
    <3>. QED
      BY <1>4, <2>3, <3>6, <3>7 DEF WalkInv
  <2>. QED
    BY <2>4, <2>5
<1>6. ASSUME NEW i \in DOMAIN shop, Leaves(i) PROVE WalkInv'
  <2>1. shop' = RemoveAt(shop, i) /\ steady' = steady \ {shop[i]} /\ moved' = TRUE
    BY <1>6 DEF Leaves
  <2>2. shop' \in Seq(Product) /\ Once(shop') /\ Here' = Here \ {shop[i]}
    BY <1>2, <2>1, LeavesRows DEF Here
  <2>3. WalkTyped'
    BY <1>1, <1>2, <1>3, <2>1, <2>2 DEF WalkInv, WalkTyped
  <2>. QED
    BY <1>4, <2>1, <2>3 DEF WalkInv, ByPagesOK, InOrderOK, Still
<1>. QED
  BY <1>5, <1>6

-----------------------------------------------------------------------------
(* A walk that has seen all the shop has seen what stood there throughout. *)
LEMMA AllSeen ==
    ASSUME WalkTyped, UNCHANGED <<shop, steady>>,
           \A i \in DOMAIN shop : shop[i] \in steady => shop[i] \in Seen'
    PROVE  steady' \ LeftOut \subseteq found' \cup hidden'
<1>1. \A x \in steady : \E i \in DOMAIN shop : x = shop[i]
  BY DEF WalkTyped, Here, ToSet
<1>. QED
  BY <1>1 DEF Seen

(* Told: once no page is left to ask for, every place was on a page.       *)
LEMMA TellsOn ==
    ASSUME WalkTyped, way = "told", UNCHANGED <<shop, way, size, mixed, steady, moved>>,
           phase' = IF asked' = {} THEN "done" ELSE "walking",
           Still => \A i \in DOMAIN shop, p \in Nat :
               shop[i] \in steady /\ i <= p * size + size /\ p * size < i
                   => p + 1 \in asked' \/ shop[i] \in Seen'
    PROVE  GoingOK' /\ ByPagesOK' /\ InOrderOK' /\ StandingShopIsSeen'
<1>1. size \in Nat \ {0} /\ shop \in Seq(Product)
  BY WalkAssumption DEF WalkTyped
<1>2. Still' = Still /\ Fits' = Fits
  BY DEF Still, Fits
<1>3. GoingOK' /\ InOrderOK'
  BY DEF GoingOK, InOrderOK
<1>4. ByPagesOK'
  BY <1>2 DEF ByPagesOK
<1>5. ASSUME phase' = "done", ~mixed', Fits', ~moved' PROVE steady' \ LeftOut \subseteq found' \cup hidden'
  <2>1. asked' = {} /\ Still
    BY <1>2, <1>5 DEF Still
  <2>2. ASSUME NEW i \in DOMAIN shop, shop[i] \in steady PROVE shop[i] \in Seen'
    <3>1. i \in Nat \ {0}
      BY <1>1
    <3>2. PICK p \in Nat : p * size < i /\ i <= p * size + size
      BY <1>1, <3>1, PageOfAPlace
    <3>. QED
      BY <2>1, <2>2, <3>2
  <2>. QED
    BY <2>2, AllSeen
<1>6. StandingShopIsSeen'
  BY <1>5 DEF StandingShopIsSeen
<1>. QED
  BY <1>3, <1>4, <1>6

(* What stands on a page is among its rows. *)
LEMMA OnItsPage ==
    ASSUME WalkTyped, NEW p \in Nat, NEW i \in DOMAIN shop, p * size < i, i <= p * size + size
    PROVE  shop[i] \in ToSet(PageAt(p + 1, size))
<1>1. size \in Nat \ {0} /\ shop \in Seq(Product)
  BY WalkAssumption DEF WalkTyped
<1>2. PICK l \in Nat : l = Len(shop) /\ DOMAIN shop = 1 .. l
  BY <1>1
<1>3. p * size \in Nat /\ (p + 1) - 1 = p
  BY <1>1, PageSteps
<1>4. PICK j \in Nat : j = p * size
  BY <1>3
<1>5. PageOf(From(j, size), shop, Product, j, size, l)
  BY <1>1, <1>2, FromPage
<1>6. PageAt(p + 1, size) = From(j, size)
  BY <1>3, <1>4 DEF PageAt
<1>. QED
  BY <1>2, <1>4, <1>5, <1>6 DEF PageOf

LEMMA PageTyped ==
    ASSUME shop \in Seq(Product), NEW z \in Nat \ {0}, NEW p \in Nat \ {0}
    PROVE  PageAt(p, z) \in Seq(Product)
<1>1. PICK l \in Nat : l = Len(shop)
  OBVIOUS
<1>2. PICK q \in Nat : p - 1 = q
  OBVIOUS
<1>3. PICK j \in Nat : j = q * z
  BY PageSteps
<1>4. PageOf(From(j, z), shop, Product, j, z, l)
  BY <1>1, FromPage
<1>. QED
  BY <1>2, <1>3, <1>4 DEF PageAt, PageOf

LEMMA StepTold ==
    ASSUME WalkInv, NEW p \in asked, PageTold(p) \/ HoleTold(p)
    PROVE  WalkInv'
<1>1. /\ phase = "walking" /\ UNCHANGED <<shop, way, size, mixed, turn, offset, count, steady, moved, moves>>
      /\ asked' = asked \ {p}
      /\ phase' = IF asked' = {} THEN "done" ELSE "walking"
  BY DEF PageTold, HoleTold, Answered
<1>2. PICK z \in Sized : \/ found' = found \cup Kept(PageAt(p, z)) /\ hidden' = hidden
                         \/ found' = found /\ hidden' = hidden \cup ToSet(PageAt(p, z))
  BY DEF PageTold, HoleTold, Answered
<1>3. Seen \subseteq Seen' /\ ToSet(PageAt(p, z)) \subseteq Seen'
  BY <1>2 DEF Seen, Kept
<1>4. way = "told"
  BY DEF WalkInv, GoingOK
<1>5. size \in Nat \ {0} /\ shop \in Seq(Product) /\ WalkTyped /\ Once(shop)
  BY WalkAssumption DEF WalkInv, WalkTyped
<1>9. z \in Nat \ {0} /\ (Still => z = size)
  BY <1>2, <1>5, WalkAssumption DEF Sized, Still
<1>6. WalkTyped' /\ CountsOK'
  <2>1. Kept(PageAt(p, z)) \subseteq Product \ LeftOut /\ ToSet(PageAt(p, z)) \subseteq Product
    <3>1. PageAt(p, z) \in Seq(Product)
      BY <1>5, <1>9, PageTyped, p \in 2 .. MaxPages, WalkAssumption DEF WalkTyped
    <3>. QED
      BY <3>1, RowsOf DEF Kept
  <2>2. found' \subseteq Product \ LeftOut /\ hidden' \subseteq Product
    BY <1>2, <1>5, <2>1 DEF WalkTyped
  <2>3. Here' = Here
    BY <1>1 DEF Here
  <2>4. asked' \subseteq 2 .. MaxPages /\ phase' \in {"done", "walking"}
    BY <1>1, <1>5 DEF WalkTyped
  <2>. HIDE DEF Here
  <2>5. WalkTyped'
    BY <1>1, <1>5, <2>2, <2>3, <2>4 DEF WalkTyped
  <2>6. CountsOK'
    BY <1>1 DEF WalkInv, CountsOK
  <2>. QED
    BY <2>5, <2>6
<1>7. ASSUME Still, NEW i \in DOMAIN shop, NEW q \in Nat,
             shop[i] \in steady, i <= q * size + size, q * size < i
      PROVE  q + 1 \in asked' \/ shop[i] \in Seen'
  <2>1. q + 1 \in asked \/ shop[i] \in Seen
    BY <1>1, <1>4, <1>7 DEF WalkInv, ByPagesOK
  <2>2. shop[i] \in ToSet(PageAt(q + 1, z))
    BY <1>5, <1>7, <1>9, OnItsPage
  <2>. QED
    BY <1>1, <1>3, <2>1, <2>2
<1>8. GoingOK' /\ ByPagesOK' /\ InOrderOK' /\ StandingShopIsSeen'
  <2>. HIDE DEF Still, Seen
  <2>1. UNCHANGED <<shop, way, size, mixed, steady, moved>>
    BY <1>1
  <2>2. phase' = IF asked' = {} THEN "done" ELSE "walking"
    BY <1>1
  <2>. QED
    BY <1>4, <1>5, <1>7, <2>1, <2>2, TellsOn
<1>. QED
  BY <1>6, <1>8 DEF WalkInv

LEMMA StepFirstTold ==
    ASSUME WalkInv, FirstTold
    PROVE  WalkInv'
<1>1. /\ way = "told" /\ phase = "first"
      /\ UNCHANGED <<shop, way, size, mixed, turn, offset, count, steady, hidden, moved, moves>>
      /\ Here' = Here
  BY DEF FirstTold, Here
<1>2. size \in Nat \ {0} /\ shop \in Seq(Product) /\ WalkTyped
  BY WalkAssumption DEF WalkInv, WalkTyped
<1>3. CountsOK'
  BY <1>1 DEF WalkInv, CountsOK
<1>4. CASE phase' = "failed" /\ UNCHANGED <<asked, found>>
  <2>1. WalkTyped'
    <3>. HIDE DEF Here
    <3>. QED
      BY <1>1, <1>2, <1>4 DEF WalkTyped
  <2>2. GoingOK' /\ ByPagesOK' /\ InOrderOK' /\ StandingShopIsSeen'
    BY <1>1, <1>4 DEF GoingOK, ByPagesOK, InOrderOK, StandingShopIsSeen
  <2>. QED
    BY <1>3, <2>1, <2>2 DEF WalkInv
<1>5. ASSUME NEW z \in Sized, asked' = Rest(Pages(z)), found' = Kept(PageAt(1, z)),
             phase' = IF asked' = {} THEN "done" ELSE "walking"
      PROVE  WalkInv'
  <2>1. Pages(size) \in Nat /\ Len(shop) <= Pages(size) * size
    BY <1>2, PagesHold
  <2>7. z \in Nat \ {0} /\ (Still => z = size)
    BY <1>2, WalkAssumption DEF Sized, Still, WalkTyped
  <2>2. asked' \subseteq 2 .. MaxPages
    <3>1. \A m, n \in Nat : 2 .. Least(m, n) \subseteq 2 .. n
      BY DEF Least
    <3>2. Pages(z) \in Nat
      <4>1. \A n \in Nat, k \in Nat \ {0} : (n + k - 1) \div k \in Nat
        OBVIOUS
      <4>2. Len(shop) \in Nat
        BY <1>2
      <4>. QED
        BY <2>7, <4>1, <4>2 DEF Pages
    <3>. QED
      BY <1>5, <3>1, <3>2, WalkAssumption DEF Rest
  <2>3. WalkTyped'
    <3>1. PageAt(1, z) \in Seq(Product)
      BY <1>2, <2>7, PageTyped
    <3>2. found' \subseteq Product \ LeftOut
      BY <1>5, <3>1, RowsOf DEF Kept
    <3>3. phase' \in {"done", "walking"}
      BY <1>5
    <3>. HIDE DEF Here
    <3>. QED
      BY <1>1, <1>2, <2>2, <3>2, <3>3 DEF WalkTyped
  <2>4. ASSUME Still, NEW i \in DOMAIN shop, NEW p \in Nat,
               shop[i] \in steady, i <= p * size + size, p * size < i
        PROVE  p + 1 \in asked' \/ shop[i] \in Seen'
    <3>1. CASE p = 0
      <4>1. shop[i] \in ToSet(PageAt(1, z))
        BY <1>2, <2>4, <2>7, <3>1, OnItsPage, 0 + 1 = 1
      <4>. QED
        BY <1>5, <4>1 DEF Seen, Kept
    <3>2. CASE p # 0
      <4>1. i \in Nat /\ i <= Len(shop) /\ Len(shop) \in Nat /\ Len(shop) <= MaxPages * size
        BY <1>2, <2>4 DEF Still, Fits
      <4>2. \A m \in Nat : m <= p => m * size <= p * size
        BY <1>2, PageSteps
      <4>3. \A m \in Nat : m * size \in Nat
        BY <1>2, PageSteps
      <4>4. ASSUME NEW m \in Nat, Len(shop) <= m * size PROVE p + 1 <= m
        <5>1. m * size \in Nat /\ p * size \in Nat
          BY <4>3
        <5>2. ~(m * size <= p * size)
          BY <2>4, <4>1, <4>4, <5>1
        <5>. QED
          BY <4>2, <5>2
      <4>5. p + 1 <= Pages(z) /\ p + 1 <= MaxPages
        BY <2>1, <2>4, <2>7, <4>1, <4>4, WalkAssumption
      <4>. QED
        BY <1>5, <2>1, <2>4, <2>7, <3>2, <4>5, WalkAssumption DEF Rest, Least
    <3>. QED
      BY <3>1, <3>2
  <2>5. UNCHANGED <<shop, way, size, mixed, steady, moved>>
    BY <1>1
  <2>6. GoingOK' /\ ByPagesOK' /\ InOrderOK' /\ StandingShopIsSeen'
    <3>. HIDE DEF Still, Seen
    <3>. QED
      BY <1>1, <1>2, <1>5, <2>4, <2>5, TellsOn
  <2>. QED
    BY <1>3, <2>3, <2>6 DEF WalkInv
<1>. QED
  BY <1>4, <1>5 DEF FirstTold

(* The first page was not the category: all there was is hidden. *)
LEMMA StepHoleFirst ==
    ASSUME WalkInv, HoleFirst
    PROVE  WalkInv'
<1>1. /\ way = "told" /\ phase' = "done" /\ hidden' = hidden \cup Here /\ Here' = Here
      /\ UNCHANGED <<shop, way, size, mixed, asked, turn, offset, count, found,
                     steady, moved, moves>>
  BY DEF HoleFirst, Here
<1>2. WalkTyped /\ CountsOK
  BY DEF WalkInv
<1>3. Here \subseteq Product /\ steady \subseteq Here
  BY <1>2, RowsOf DEF WalkTyped, Here
<1>. HIDE DEF Here
<1>4. WalkTyped' /\ CountsOK'
  BY <1>1, <1>2, <1>3 DEF WalkTyped, CountsOK
<1>5. GoingOK' /\ ByPagesOK' /\ InOrderOK' /\ StandingShopIsSeen'
  BY <1>1, <1>3 DEF GoingOK, ByPagesOK, InOrderOK, StandingShopIsSeen
<1>. QED
  BY <1>4, <1>5 DEF WalkInv

-----------------------------------------------------------------------------
(* One page after another. Where the next page begins: behind those that   *)
(* were answered, unless the listing goes round.                           *)
LEMMA NextItems ==
    ASSUME WalkTyped, CountsOK, way # "told", way = "offset" => offset = turn * size
    PROVE  \E j \in Nat : /\ Items = From(j, size)
                          /\ j = turn * size \/ (way = "fresh" /\ Len(shop) <= turn * size)
<1>1. size \in Nat \ {0} /\ shop \in Seq(Product) /\ turn \in Nat
  BY WalkAssumption DEF WalkTyped
<1>2. turn * size \in Nat /\ (turn + 1) - 1 = turn /\ (1 - 1) = 0
  BY <1>1, PageSteps
<1>3. CASE way = "offset"
  BY <1>2, <1>3 DEF Items
<1>4. CASE way = "fresh" /\ turn >= Pages(size)
  <2>1. Items = From((1 - 1) * size, size)
    BY <1>4 DEF Items, PageAt
  <2>2. (1 - 1) * size = 0
    BY <1>1
  <2>3. Pages(size) \in Nat /\ Len(shop) <= Pages(size) * size
    BY <1>1, PagesHold
  <2>4. Pages(size) * size <= turn * size /\ Pages(size) * size \in Nat
    BY <1>1, <1>4, <2>3, PageSteps
  <2>5. Len(shop) <= turn * size
    BY <1>1, <1>2, <2>3, <2>4
  <2>. QED
    BY <1>4, <2>1, <2>2, <2>5
<1>5. CASE way # "offset" /\ ~(way = "fresh" /\ turn >= Pages(size))
  BY <1>2, <1>5 DEF Items, PageAt
<1>. QED
  BY <1>3, <1>4, <1>5

LEMMA UnservedRows ==
    ASSUME shop \in Seq(Product), offset \in Nat
    PROVE  /\ Unserved \subseteq Product
           /\ \A i \in DOMAIN shop : offset < i => shop[i] \in Unserved
<1>1. PICK l \in Nat : l = Len(shop) /\ DOMAIN shop = 1 .. l
  OBVIOUS
<1>2. offset + 1 \in Nat \ {0} /\ l \in 0 .. Len(shop)
  BY <1>1
<1>3. /\ SubSeq(shop, offset + 1, l) \in Seq(Product)
      /\ ToSet(SubSeq(shop, offset + 1, l)) = {shop[i] : i \in offset + 1 .. l}
  BY <1>2, PieceRows
<1>4. \A i \in DOMAIN shop : offset < i => i \in offset + 1 .. l
  BY <1>1
<1>. QED
  BY <1>1, <1>3, <1>4, RowsOf DEF Unserved

(* What every answer leaves as it was. *)
LEMMA StepOn ==
    ASSUME WalkInv, way # "told", phase \in {"first", "walking"}, turn' = turn + 1,
           UNCHANGED <<shop, way, size, mixed, asked, steady, moved, moves>>,
           phase' \in {"walking", "done", "failed"},
           found' \subseteq Product \ LeftOut, hidden' \subseteq Product
    PROVE  /\ WalkTyped' /\ ByPagesOK' /\ Still' = Still
           /\ turn \in Nat /\ turn < MaxPages
           /\ turn * size \in Nat /\ turn' * size = turn * size + size
<1>1. WalkTyped /\ turn < MaxPages
  BY DEF WalkInv, GoingOK
<1>2. size \in Nat \ {0} /\ turn \in Nat /\ MaxPages \in Nat
  BY <1>1, WalkAssumption DEF WalkTyped
<1>3. turn' \in 0 .. MaxPages
  BY <1>1, <1>2
<1>4. Here' = Here /\ Still' = Still
  BY DEF Here, Still, Fits
<1>5. WalkTyped'
  <2>. HIDE DEF Here
  <2>. QED
    BY <1>1, <1>3, <1>4 DEF WalkTyped
<1>6. ByPagesOK'
  BY DEF ByPagesOK
<1>. QED
  BY <1>1, <1>2, <1>4, <1>5, <1>6, PageSteps

LEMMA WalkEnds ==
    ASSUME WalkInv, way # "told", phase \in {"first", "walking"}, turn' = turn + 1,
           UNCHANGED <<shop, way, size, mixed, asked, steady, moved, moves, offset, count, found>>,
           phase' \in {"done", "failed"}, hidden' \subseteq Product,
           Still => \A i \in DOMAIN shop : shop[i] \in steady => shop[i] \in Seen'
    PROVE  WalkInv'
<1>1. WalkTyped /\ CountsOK
  BY DEF WalkInv
<1>2. found' \subseteq Product \ LeftOut
  BY <1>1 DEF WalkTyped
<1>3. /\ WalkTyped' /\ ByPagesOK' /\ Still' = Still
      /\ turn * size \in Nat /\ turn' * size = turn * size + size
  BY <1>2, StepOn
<1>4. size \in Nat
  BY <1>1, WalkAssumption DEF WalkTyped
<1>5. CountsOK'
  <2>1. PICK a \in Nat, b \in Nat : a = turn * size /\ b = turn' * size /\ b = a + size
    BY <1>3, <1>4
  <2>. QED
    BY <1>1, <1>4, <2>1 DEF CountsOK
<1>6. GoingOK' /\ InOrderOK'
  BY DEF WalkInv, GoingOK, InOrderOK
<1>7. StandingShopIsSeen'
  <2>. SUFFICES ASSUME Still' PROVE steady' \ LeftOut \subseteq found' \cup hidden'
    BY DEF StandingShopIsSeen, Still
  <2>. HIDE DEF Seen, Still
  <2>. QED
    BY <1>1, <1>3, AllSeen
<1>. QED
  BY <1>3, <1>5, <1>6, <1>7 DEF WalkInv

(* A page that came back without a card: the pages before it held what     *)
(* stands before their end, and the rest is hidden.                        *)
LEMMA HiddenBehind ==
    ASSUME WalkInv, way # "told", phase \in {"first", "walking"}, found' = found,
           hidden' = hidden \cup Unserved, Still, NEW i \in DOMAIN shop, shop[i] \in steady
    PROVE  shop[i] \in Seen'
<1>1. /\ shop \in Seq(Product) /\ size \in Nat \ {0} /\ turn \in Nat
      /\ offset \in Nat /\ offset <= turn * size
  BY WalkAssumption DEF WalkInv, WalkTyped, CountsOK
<1>2. i \in Nat /\ turn * size \in Nat
  BY <1>1, PageSteps
<1>3. CASE offset < i
  BY <1>1, <1>3, UnservedRows DEF Seen
<1>4. CASE ~(offset < i)
  <2>1. i <= turn * size
    BY <1>1, <1>2, <1>4
  <2>2. shop[i] \in Seen
    BY <2>1 DEF WalkInv, InOrderOK, Early
  <2>. QED
    BY <2>2 DEF Seen
<1>. QED
  BY <1>3, <1>4

LEMMA StepHole ==
    ASSUME WalkInv, HolePage
    PROVE  WalkInv'
<1>1. /\ way # "told" /\ phase \in {"first", "walking"} /\ turn' = turn + 1
      /\ hidden' = hidden \cup Unserved /\ phase' \in {"done", "failed"}
      /\ UNCHANGED <<shop, way, size, mixed, asked, steady, moved, moves, offset, count, found>>
  BY DEF HolePage, Ended
<1>2. hidden' \subseteq Product
  BY <1>1, UnservedRows DEF WalkInv, WalkTyped, CountsOK
<1>3. Still => \A i \in DOMAIN shop : shop[i] \in steady => shop[i] \in Seen'
  BY <1>1, HiddenBehind
<1>. QED
  BY <1>1, <1>2, <1>3, WalkEnds

(* What the page asked for next holds. *)
LEMMA NextHolds ==
    ASSUME WalkInv, way # "told", phase \in {"first", "walking"}
    PROVE  \E j \in Nat, l \in Nat, e \in Nat :
               /\ PageOf(Items, shop, Product, j, size, l)
               /\ l = Len(shop) /\ DOMAIN shop = 1 .. l /\ e = turn * size
               /\ j = e \/ (way = "fresh" /\ l <= e)
<1>1. WalkTyped /\ CountsOK /\ (way = "offset" => offset = turn * size)
  BY DEF WalkInv, GoingOK
<1>2. shop \in Seq(Product) /\ size \in Nat \ {0} /\ turn \in Nat
  BY <1>1, WalkAssumption DEF WalkTyped
<1>3. PICK l \in Nat : l = Len(shop) /\ DOMAIN shop = 1 .. l
  BY <1>2
<1>4. PICK e \in Nat : e = turn * size
  BY <1>2, PageSteps
<1>5. PICK j \in Nat : Items = From(j, size) /\ (j = turn * size \/ (way = "fresh" /\ Len(shop) <= turn * size))
  BY <1>1, NextItems
<1>6. PageOf(Items, shop, Product, j, size, l)
  BY <1>2, <1>3, <1>5, FromPage
<1>. QED
  BY <1>3, <1>4, <1>5, <1>6

LEMMA StepOver ==
    ASSUME WalkInv, NextPage, Over(Items)
    PROVE  WalkInv'
<1>1. /\ way # "told" /\ phase \in {"first", "walking"} /\ turn' = turn + 1
      /\ hidden' = IF Kept(Items) = {} THEN hidden \cup Unserved ELSE hidden
      /\ phase' \in {"done", "failed"}
      /\ UNCHANGED <<shop, way, size, mixed, asked, steady, moved, moves, offset, count, found>>
  BY DEF NextPage, Ended
<1>2. hidden' \subseteq Product
  BY <1>1, UnservedRows DEF WalkInv, WalkTyped, CountsOK
<1>3. ASSUME Still, NEW i \in DOMAIN shop, shop[i] \in steady PROVE shop[i] \in Seen'
  <2>1. CASE Kept(Items) = {}
    <3>1. hidden' = hidden \cup Unserved
      BY <1>1, <2>1
    <3>. QED
      BY <1>1, <1>3, <3>1, HiddenBehind
  <2>2. CASE Kept(Items) # {}
    <3>1. PICK j \in Nat, l \in Nat, e \in Nat :
               /\ PageOf(Items, shop, Product, j, size, l)
               /\ l = Len(shop) /\ DOMAIN shop = 1 .. l /\ e = turn * size
               /\ j = e \/ (way = "fresh" /\ l <= e)
      BY <1>1, NextHolds
    <3>2. way = "fresh" /\ Kept(Items) \subseteq found
      <4>1. Items # <<>>
        BY <2>2 DEF Kept, ToSet
      <4>. QED
        BY <4>1 DEF Over
    <3>3. PICK x \in ToSet(Items) : x \in found
      BY <2>2, <3>2 DEF Kept
    <3>4. PICK k \in 1 .. l : j < k /\ x = shop[k]
      BY <3>1, <3>3 DEF PageOf
    <3>5. PICK m \in Early : x = shop[m]
      BY <1>1, <1>3, <3>3 DEF WalkInv, InOrderOK
    <3>6. m \in 1 .. l /\ m <= e
      BY <3>1, <3>5 DEF Early
    <3>7. m = k
      BY <3>1, <3>4, <3>5, <3>6 DEF WalkInv, WalkTyped, Once
    <3>8. l <= e
      BY <3>1, <3>4, <3>6, <3>7
    <3>9. i \in Early
      BY <3>1, <3>8 DEF Early
    <3>10. shop[i] \in Seen
      BY <1>1, <1>3, <3>9 DEF WalkInv, InOrderOK
    <3>. QED
      BY <1>1, <2>2, <3>10 DEF Seen
  <2>. QED
    BY <2>1, <2>2
<1>. QED
  BY <1>1, <1>2, <1>3, WalkEnds

LEMMA StepNext ==
    ASSUME WalkInv, NextPage, ~Over(Items)
    PROVE  WalkInv'
<1>1. /\ way # "told" /\ phase \in {"first", "walking"} /\ turn' = turn + 1
      /\ offset' = offset + Len(Items) /\ count' = count + Cardinality(Kept(Items))
      /\ found' = found \cup Kept(Items)
      /\ phase' \in {"walking", "done", "failed"}
      /\ UNCHANGED <<shop, way, size, mixed, asked, steady, hidden, moved, moves>>
  BY DEF NextPage, Ended
<1>2. phase' \in {"done", "failed"} => Enough(Items)
  BY DEF NextPage, Ended
<1>3. phase' = "walking" => ~Enough(Items)
  BY DEF NextPage, Ended
<1>4. /\ shop \in Seq(Product) /\ size \in Nat \ {0} /\ offset \in Nat /\ count \in Nat
      /\ count <= offset /\ offset <= turn * size
      /\ way = "offset" => offset = turn * size
      /\ MaxPages \in Nat /\ WalkTyped
  BY <1>1, WalkAssumption DEF WalkInv, WalkTyped, CountsOK, GoingOK
<1>5. PICK j \in Nat, l \in Nat, e \in Nat :
           /\ PageOf(Items, shop, Product, j, size, l)
           /\ l = Len(shop) /\ DOMAIN shop = 1 .. l /\ e = turn * size
           /\ j = e \/ (way = "fresh" /\ l <= e)
  BY <1>1, NextHolds
<1>6. found' \subseteq Product \ LeftOut /\ hidden' \subseteq Product
  <2>1. Items \in Seq(Product)
    BY <1>5 DEF PageOf
  <2>. QED
    BY <1>1, <1>4, <2>1, RowsOf DEF Kept, WalkTyped
<1>7. /\ WalkTyped' /\ ByPagesOK' /\ Still' = Still
      /\ turn \in Nat /\ turn < MaxPages
      /\ turn * size \in Nat /\ turn' * size = turn * size + size
  BY <1>1, <1>6, StepOn
<1>8. turn' * size = e + size /\ offset <= e /\ (way = "offset" => offset = e)
  BY <1>4, <1>5, <1>7
<1>9. PICK g \in Nat : g = Len(Items) /\ g <= size /\ (g < size => l < j + size /\ l <= j + g)
  BY <1>5 DEF PageOf
<1>10. Cardinality(Kept(Items)) \in Nat /\ Cardinality(Kept(Items)) <= g
  BY <1>5, <1>9, KeptFew DEF PageOf
<1>11. CountsOK' /\ offset' \in Nat /\ count' \in Nat /\ count' <= offset' /\ offset' <= e + size
  <2>1. PICK k \in Nat : k = Cardinality(Kept(Items)) /\ k <= g
    BY <1>10
  <2>2. offset' = offset + g /\ count' = count + k
    BY <1>1, <1>9, <2>1
  <2>3. offset' \in Nat /\ count' \in Nat /\ count' <= offset' /\ offset' <= e + size
    BY <1>4, <1>8, <1>9, <2>1, <2>2
  <2>. QED
    BY <1>1, <1>8, <2>3 DEF CountsOK
<1>12. GoingOK'
  <2>. SUFFICES ASSUME phase' \in {"first", "walking"}
                PROVE  turn' < MaxPages /\ (way' = "offset" => offset' = turn' * size')
    BY <1>1, <1>4 DEF GoingOK, WalkInv
  <2>1. ~Enough(Items)
    BY <1>1, <1>3
  <2>2. turn' < MaxPages
    BY <1>1, <1>4, <1>7, <2>1 DEF Enough
  <2>3. ASSUME way = "offset" PROVE offset' = e + size
    <3>1. ~(offset' >= l)
      BY <1>5, <2>1, <2>3 DEF Enough
    <3>2. j = e /\ offset = e /\ offset' = e + g
      BY <1>1, <1>5, <1>8, <1>9, <2>3
    <3>. QED
      BY <1>4, <1>9, <3>1, <3>2
  <2>. QED
    BY <1>1, <1>8, <2>2, <2>3
<1>13. ASSUME Still, NEW i \in DOMAIN shop, shop[i] \in steady, i <= e + size PROVE shop[i] \in Seen'
  <2>1. CASE i <= e
    <3>1. shop[i] \in Seen
      BY <1>1, <1>5, <1>13, <2>1 DEF WalkInv, InOrderOK, Early
    <3>. QED
      BY <1>1, <3>1 DEF Seen
  <2>2. CASE ~(i <= e)
    <3>1. i \in 1 .. l /\ e < i
      BY <1>5, <2>2
    <3>2. j < i /\ i <= j + size
      BY <1>5, <1>13, <3>1
    <3>3. shop[i] \in ToSet(Items)
      BY <1>5, <3>1, <3>2 DEF PageOf
    <3>. QED
      BY <1>1, <3>3 DEF Seen, Kept
  <2>. QED
    BY <2>1, <2>2
<1>14. InOrderOK'
  <2>. SUFFICES ASSUME Still
                PROVE  /\ \A i \in Early' : shop[i] \in steady => shop[i] \in Seen'
                       /\ \A x \in found' : \E i \in Early' : x = shop[i]
    BY <1>1, <1>7 DEF InOrderOK
  <2>1. Early' = {i \in DOMAIN shop : i <= e + size}
    BY <1>1, <1>8 DEF Early
  <2>2. ASSUME NEW x \in found' PROVE \E i \in Early' : x = shop[i]
    <3>1. CASE x \in found
      <4>1. PICK i \in Early : x = shop[i]
        BY <1>1, <3>1 DEF WalkInv, InOrderOK
      <4>2. i \in Early'
        BY <1>4, <1>5, <2>1, <4>1 DEF Early
      <4>. QED
        BY <4>1, <4>2
    <3>2. CASE x \in ToSet(Items)
      <4>1. PICK i \in 1 .. l : j < i /\ i <= j + size /\ x = shop[i]
        BY <1>5, <3>2 DEF PageOf
      <4>2. i <= e + size
        BY <1>4, <1>5, <4>1
      <4>. QED
        BY <1>5, <2>1, <4>1, <4>2
    <3>. QED
      BY <1>1, <2>2, <3>1, <3>2 DEF Kept
  <2>. QED
    BY <1>13, <2>1, <2>2
<1>15. ASSUME phase' = "done", Still PROVE l <= e + size
  <2>1. CASE turn' = MaxPages
    <3>1. Len(shop) <= MaxPages * size
      BY <1>15 DEF Still, Fits
    <3>. QED
      BY <1>5, <1>8, <2>1, <3>1
  <2>2. CASE way = "offset" /\ offset' >= Len(shop)
    BY <1>4, <1>5, <1>11, <2>2
  <2>3. CASE way = "counted" /\ count' >= Len(shop)
    BY <1>4, <1>5, <1>11, <2>3
  <2>4. CASE way = "short" /\ Len(Items) < size
    <3>1. j = e /\ l < j + size
      BY <1>5, <1>9, <2>4
    <3>. QED
      BY <1>4, <3>1
  <2>. QED
    BY <1>2, <1>15, <2>1, <2>2, <2>3, <2>4 DEF Enough
<1>16. StandingShopIsSeen'
  <2>. SUFFICES ASSUME phase' = "done", Still PROVE steady' \ LeftOut \subseteq found' \cup hidden'
    BY <1>7 DEF StandingShopIsSeen, Still
  <2>1. \A i \in DOMAIN shop : i <= e + size
    BY <1>4, <1>5, <1>15
  <2>. HIDE DEF Seen, Still
  <2>. QED
    BY <1>1, <1>4, <1>13, <2>1, AllSeen
<1>. QED
  BY <1>7, <1>11, <1>12, <1>14, <1>16 DEF WalkInv

LEMMA WalkHolds == WalkSpec => []WalkInv
<1>1. WalkInit => WalkInv
  BY WalkAtFirst
<1>2. ASSUME WalkInv, [WalkNext]_walkVars PROVE WalkInv'
  <2>1. CASE \/ \E x \in Product, i \in 1 .. (Len(shop) + 1) : Comes(x, i)
             \/ \E i \in DOMAIN shop : Leaves(i)
    BY <1>2, <2>1, StepShop
  <2>2. CASE FirstTold \/ HoleFirst
    BY <1>2, <2>2, StepFirstTold, StepHoleFirst
  <2>3. CASE NextPage
    BY <1>2, <2>3, StepOver, StepNext
  <2>4. CASE HolePage
    BY <1>2, <2>4, StepHole
  <2>5. CASE Refused \/ UNCHANGED walkVars
    <3>1. /\ UNCHANGED <<shop, way, size, mixed, asked, turn, offset, count, found, steady, hidden, moved, moves>>
          /\ phase' = phase \/ phase' = "failed"
      BY <2>5 DEF Refused, walkVars
    <3>2. WalkTyped' /\ CountsOK' /\ GoingOK' /\ InOrderOK' /\ ByPagesOK' /\ StandingShopIsSeen'
      <4>1. Here' = Here /\ Seen' = Seen /\ Still' = Still /\ Early' = Early /\ Fits' = Fits
        BY <3>1 DEF Here, Seen, Still, Early, Fits
      <4>. HIDE DEF Here, Seen, Still, Early, Fits
      <4>2. WalkTyped' /\ CountsOK' /\ GoingOK'
        BY <1>2, <3>1, <4>1 DEF WalkInv, WalkTyped, CountsOK, GoingOK
      <4>3. InOrderOK' /\ ByPagesOK' /\ StandingShopIsSeen'
        BY <1>2, <3>1, <4>1 DEF WalkInv, InOrderOK, ByPagesOK, StandingShopIsSeen
      <4>. QED
        BY <4>2, <4>3
    <3>. QED
      BY <3>2 DEF WalkInv
  <2>6. CASE \E p \in asked : PageTold(p) \/ HoleTold(p)
    BY <1>2, <2>6, StepTold
  <2>. QED
    BY <1>2, <2>1, <2>2, <2>3, <2>4, <2>5, <2>6 DEF WalkNext
<1>. QED
  BY <1>1, <1>2, PTL DEF WalkSpec

(* A walk in which nothing the shop listed changed its place, and whose    *)
(* pages were of one size, has seen at its end everything that was there   *)
(* throughout (the reason a full pass may take what it did not list to be  *)
(* gone), but for the pages that came without a card to keep: told, on the *)
(* pages asked for together, unless it is the first and nobody looks at    *)
(* it; otherwise up to the end of the page it was at.                      *)
THEOREM StandingSeen == WalkSpec => []StandingShopIsSeen
<1>1. WalkInv => StandingShopIsSeen
  BY DEF WalkInv
<1>. QED
  BY <1>1, WalkHolds, PTL

(* A listing is a product of the shop that the channel collects, the shop  *)
(* lists none twice, and no more cards were kept than the pages held.      *)
THEOREM WalkTyping == WalkSpec => []WalkTypeOK
<1>1. WalkInv => WalkTypeOK
  <2>. SUFFICES ASSUME WalkInv PROVE WalkTypeOK
    OBVIOUS
  <2>1. shop \in Seq(Product) /\ Once(shop)
    BY DEF WalkInv, WalkTyped
  <2>2. Here \subseteq Product /\ Len(shop) = Cardinality(Here)
    BY <2>1, RowsOf, OnceCounts DEF Here
  <2>3. offset \in Nat /\ count \in 0 .. offset
    BY DEF WalkInv, CountsOK
  <2>. HIDE DEF Here
  <2>. QED
    BY <2>2, <2>3 DEF WalkInv, WalkTyped, WalkTypeOK
<1>. QED
  BY <1>1, WalkHolds, PTL
=============================================================================
