------------------------------- MODULE Ranks --------------------------------
(***************************************************************************)
(* What the proofs share about numbers and sequences: finite sets of       *)
(* numbers by rank, how many members are smaller (the code takes the first *)
(* so many of a set twice: a batch of listings to read again, order by id  *)
(* and limit, and the queued runs there is room for, oldest first); going  *)
(* on by one, which stands in for induction; functions defined step by     *)
(* step; and sequences in which nothing comes twice.                       *)
(***************************************************************************)
EXTENDS Naturals, SequencesExt, FiniteSetTheorems, FunctionTheorems, TLAPS

Below(S, x) == {y \in S : y < x}

LEMMA RankGrows ==
    ASSUME NEW S \in SUBSET Nat, IsFiniteSet(S), NEW x \in S, NEW z \in Nat, x < z
    PROVE  /\ Cardinality(Below(S, x)) \in Nat
           /\ Cardinality(Below(S, z)) \in Nat
           /\ Cardinality(Below(S, x)) < Cardinality(Below(S, z))
<1>1. IsFiniteSet(Below(S, x)) /\ IsFiniteSet(Below(S, z))
  BY FS_Subset DEF Below
<1>2. Cardinality(Below(S, x)) \in Nat /\ Cardinality(Below(S, z)) \in Nat
  BY <1>1, FS_CardinalityType
<1>3. Cardinality(Below(S, x) \cup {x}) = Cardinality(Below(S, x)) + 1
  <2>1. x \notin Below(S, x)
    BY DEF Below
  <2>. QED
    BY <1>1, <2>1, FS_AddElement
<1>4. Below(S, x) \cup {x} \subseteq Below(S, z)
  <2>1. \A y \in Nat : y < x => y < z
    BY x \in Nat
  <2>. QED
    BY <2>1 DEF Below
<1>5. Cardinality(Below(S, x) \cup {x}) <= Cardinality(Below(S, z))
  BY <1>1, <1>4, FS_Subset
<1>. QED
  BY <1>2, <1>3, <1>5

LEMMA RankSmall ==
    ASSUME NEW S \in SUBSET Nat, IsFiniteSet(S), NEW x \in S
    PROVE  Cardinality(S) \in Nat /\ Cardinality(Below(S, x)) \in 0 .. Cardinality(S) - 1
<1>1. Below(S, x) \subseteq S /\ Below(S, x) # S
  BY DEF Below
<1>2. IsFiniteSet(Below(S, x)) /\ Cardinality(Below(S, x)) <= Cardinality(S)
      /\ Cardinality(Below(S, x)) # Cardinality(S)
  BY <1>1, FS_Subset
<1>. QED
  BY <1>2, FS_CardinalityType

(* Ranks tell the members apart, and so every rank is taken. *)
LEMMA RankTaken ==
    ASSUME NEW S \in SUBSET Nat, IsFiniteSet(S), NEW i \in 0 .. Cardinality(S) - 1
    PROVE  \E x \in S : Cardinality(Below(S, x)) = i
<1>. DEFINE size == Cardinality(S)
            rank == [x \in S |-> Cardinality(Below(S, x))]
<1>1. size \in Nat
  BY FS_CardinalityType
<1>2. rank \in Injection(S, 0 .. size - 1)
  <2>1. rank \in [S -> 0 .. size - 1]
    BY RankSmall
  <2>2. ASSUME NEW x \in S, NEW z \in S, rank[x] = rank[z] PROVE x = z
    <3>1. ~ (x < z)
      <4>. SUFFICES ASSUME x < z PROVE FALSE
        OBVIOUS
      <4>. QED
        BY <2>2, RankGrows, z \in Nat
    <3>2. ~ (z < x)
      <4>. SUFFICES ASSUME z < x PROVE FALSE
        OBVIOUS
      <4>. QED
        BY <2>2, RankGrows, x \in Nat
    <3>. QED
      BY <3>1, <3>2
  <2>. HIDE DEF rank
  <2>. QED
    BY <2>1, <2>2 DEF Injection, IsInjective
<1>3. IsFiniteSet(0 .. size - 1) /\ Cardinality(0 .. size - 1) = size
  <2>1. CASE size = 0
    BY <2>1, FS_EmptySet, 0 .. size - 1 = {}
  <2>2. CASE size # 0
    BY <1>1, <2>2, FS_Interval
  <2>. QED
    BY <2>1, <2>2
<1>4. rank \in Surjection(S, 0 .. size - 1)
  <2>. HIDE DEF rank
  <2>. QED
    BY <1>2, <1>3, FS_Injection
<1>5. PICK x \in S : rank[x] = i
  <2>. HIDE DEF rank
  <2>. QED
    BY <1>4 DEF Surjection
<1>. QED
  BY <1>5

LEMMA LeastMember ==
    ASSUME NEW S \in SUBSET Nat, IsFiniteSet(S), S # {}
    PROVE  \E x \in S : \A y \in S : x <= y
<1>1. Cardinality(S) \in Nat /\ Cardinality(S) # 0
  BY FS_CardinalityType, FS_EmptySet
<1>2. PICK x \in S : Cardinality(Below(S, x)) = 0
  BY <1>1, RankTaken
<1>3. Below(S, x) = {}
  BY <1>2, FS_EmptySet, FS_Subset DEF Below
<1>. QED
  BY <1>3 DEF Below

LEMMA GreatestMember ==
    ASSUME NEW S \in SUBSET Nat, IsFiniteSet(S), S # {}
    PROVE  \E x \in S : \A y \in S : y <= x
<1>1. Cardinality(S) \in Nat /\ Cardinality(S) # 0
  BY FS_CardinalityType, FS_EmptySet
<1>2. PICK x \in S : Cardinality(Below(S, x)) = Cardinality(S) - 1
  BY <1>1, RankTaken
<1>3. ASSUME NEW y \in S, x < y PROVE FALSE
  BY <1>1, <1>2, <1>3, RankGrows, RankSmall
<1>. QED
  BY <1>3

(* The first so many of a set are no more than that. *)
LEMMA FirstFew ==
    ASSUME NEW S \in SUBSET Nat, IsFiniteSet(S), NEW m \in Nat
    PROVE  LET first == {x \in S : Cardinality(Below(S, x)) < m}
           IN  IsFiniteSet(first) /\ Cardinality(first) \in Nat /\ Cardinality(first) <= m
<1>. DEFINE first == {x \in S : Cardinality(Below(S, x)) < m}
<1>1. \A x \in S : Cardinality(Below(S, x)) \in Nat
  BY RankSmall
<1>2. first \in SUBSET Nat /\ IsFiniteSet(first) /\ Cardinality(first) \in Nat
  BY FS_Subset, FS_CardinalityType
<1>3. Cardinality(first) <= m
  <2>. SUFFICES ASSUME Cardinality(first) > m PROVE FALSE
    BY <1>2
  <2>1. PICK x \in first : Cardinality(Below(first, x)) = m
    BY <1>2, RankTaken, m \in 0 .. Cardinality(first) - 1
  <2>2. Below(first, x) \subseteq Below(S, x) /\ IsFiniteSet(Below(S, x))
    BY FS_Subset DEF Below
  <2>3. Cardinality(Below(first, x)) <= Cardinality(Below(S, x))
    BY <2>2, FS_Subset
  <2>. QED
    BY <1>1, <2>1, <2>3
<1>. QED
  BY <1>2, <1>3

(* The first so many of a set: either all of it, or so many and before the rest. *)
LEMMA FirstOnes ==
    ASSUME NEW S \in SUBSET Nat, IsFiniteSet(S), NEW m \in Nat,
           NEW o \in S, Cardinality(Below(S, o)) >= m
    PROVE  LET first == {x \in S : Cardinality(Below(S, x)) < m}
           IN  Cardinality(first) = m /\ \A x \in first : x < o
<1>. DEFINE first == {x \in S : Cardinality(Below(S, x)) < m}
<1>1. \A x \in S : Cardinality(Below(S, x)) \in Nat
  BY RankSmall
<1>2. \A x \in first : x < o
  <2>. SUFFICES ASSUME NEW x \in first, o <= x PROVE FALSE
    OBVIOUS
  <2>1. o # x
    BY <1>1
  <2>. QED
    BY <1>1, <2>1, RankGrows
<1>3. first \in SUBSET Nat /\ IsFiniteSet(first) /\ Cardinality(first) \in Nat
      /\ Cardinality(first) <= m
  BY FirstFew
<1>4. Cardinality(first) >= m
  <2>1. S \ first \in SUBSET Nat /\ IsFiniteSet(S \ first)
    BY FS_Difference
  <2>. o \in S \ first
    BY <1>1
  <2>2. PICK x \in S \ first : \A y \in S \ first : x <= y
    BY <2>1, LeastMember
  <2>3. Below(S, x) \subseteq first
    <3>1. ASSUME NEW y \in S, y < x PROVE y \in first
      <4>. y \in Nat /\ x \in Nat /\ ~ (x <= y)
        BY <3>1
      <4>. QED
        BY <2>2
    <3>. HIDE DEF first
    <3>. QED
      BY <3>1 DEF Below
  <2>4. Cardinality(Below(S, x)) <= Cardinality(first)
    BY <1>3, <2>3, FS_Subset
  <2>. QED
    BY <1>1, <1>3, <2>2, <2>4
<1>. QED
  BY <1>2, <1>3, <1>4

-----------------------------------------------------------------------------
(* A set of numbers with 0 that goes on by one has every number: the least *)
(* it misses would follow one it has.                                      *)
LEMMA NoFirstMissing ==
    ASSUME NEW S \in SUBSET Nat, 0 \in S, \A n \in S : n + 1 \in S
    PROVE  S = Nat
<1>1. SUFFICES ASSUME NEW n \in Nat \ S PROVE FALSE
  OBVIOUS
<1>. DEFINE missed == (0 .. n) \ S
<1>2. IsFiniteSet(missed)
  <2>1. IsFiniteSet(0 .. n) /\ missed \subseteq 0 .. n
    BY FS_Interval, n \in Int, 0 \in Int
  <2>. QED
    BY <2>1, FS_Subset
<1>3. missed \in SUBSET Nat /\ missed # {}
  BY <1>1
<1>4. PICK m \in missed : \A y \in missed : m <= y
  <2>. HIDE DEF missed
  <2>. QED
    BY <1>2, <1>3, LeastMember
<1>5. m # 0 /\ m \in Nat /\ m <= n /\ m \notin S
  BY <1>4
<1>6. m - 1 \in Nat /\ m - 1 \in 0 .. n /\ (m - 1) + 1 = m
  BY <1>5
<1>7. m - 1 \notin missed
  BY <1>4, <1>5, <1>6
<1>. QED
  BY <1>5, <1>6, <1>7

(* What is defined step by step up to n is there to be taken. *)
StepsFrom(f, n, V, v, F) == /\ f \in [0 .. n -> V] /\ f[0] = v
                            /\ \A i \in 1 .. n : f[i] = F[i][f[i - 1]]

LEMMA StepByStep ==
    ASSUME NEW n \in Nat, NEW V, NEW v \in V, NEW F \in [1 .. n -> [V -> V]]
    PROVE  \E f : StepsFrom(f, n, V, v, F)
<1>. DEFINE Of(f, m) == /\ f \in [0 .. m -> V] /\ f[0] = v
                        /\ \A i \in 1 .. m : f[i] = F[i][f[i - 1]]
            S == {m \in Nat : m <= n => \E f : Of(f, m)}
<1>1. 0 \in S
  <2>. DEFINE f == [i \in 0 .. 0 |-> v]
  <2>1. Of(f, 0)
    OBVIOUS
  <2>. QED
    BY <2>1
<1>2. ASSUME NEW m \in S PROVE m + 1 \in S
  <2>. SUFFICES ASSUME m + 1 <= n PROVE \E f : Of(f, m + 1)
    <3>. HIDE DEF Of
    <3>. QED
      OBVIOUS
  <2>1. m \in Nat /\ m <= n /\ m + 1 \in 1 .. n
    OBVIOUS
  <2>2. PICK f : Of(f, m)
    BY <2>1
  <2>. DEFINE g == [i \in 0 .. m + 1 |-> IF i = m + 1 THEN F[m + 1][f[m]] ELSE f[i]]
  <2>3. f[m] \in V
    BY <2>1, <2>2
  <2>4. F[m + 1][f[m]] \in V
    BY <2>1, <2>3
  <2>5. \A i \in 0 .. m : g[i] = f[i] /\ f[i] \in V
    BY <2>1, <2>2
  <2>6. g[m + 1] = F[m + 1][f[m]] /\ 0 \in 0 .. m /\ m \in 0 .. m
    BY <2>1
  <2>7. \A i \in 0 .. m + 1 : i \in 0 .. m \/ i = m + 1
    BY <2>1
  <2>8. g \in [0 .. m + 1 -> V]
    BY <2>4, <2>5, <2>7
  <2>9. ASSUME NEW i \in 1 .. m + 1 PROVE g[i] = F[i][g[i - 1]]
    <3>1. CASE i = m + 1
      <4>1. i - 1 = m
        BY <2>1, <3>1
      <4>. HIDE DEF g
      <4>. QED
        BY <2>5, <2>6, <3>1, <4>1
    <3>2. CASE i # m + 1
      <4>1. i \in 1 .. m /\ i \in 0 .. m /\ i - 1 \in 0 .. m
        BY <2>1, <3>2
      <4>. HIDE DEF g
      <4>. QED
        BY <2>2, <2>5, <4>1
    <3>. QED
      BY <3>1, <3>2
  <2>. HIDE DEF g
  <2>. QED
    BY <2>2, <2>5, <2>6, <2>8, <2>9
<1>3. S = Nat
  <2>1. S \in SUBSET Nat
    OBVIOUS
  <2>. HIDE DEF S
  <2>. QED
    BY <1>1, <1>2, <2>1, NoFirstMissing
<1>. QED
  BY <1>3 DEF StepsFrom

(* And what holds of each step, if it is kept from one to the next, holds  *)
(* of whatever is so defined.                                              *)
LeadsOn(n, Q, F) == \A i \in 1 .. n : \A x \in Q[i - 1] : F[i][x] \in Q[i]
Follows(f, n, V, v, F) == /\ f[0] = v
                          /\ \A i \in 1 .. n : f[i - 1] \in V => f[i] = F[i][f[i - 1]]

LEMMA ThroughSteps ==
    ASSUME NEW n \in Nat, NEW V, NEW Q \in [0 .. n -> SUBSET V], NEW v \in Q[0], NEW F,
           LeadsOn(n, Q, F), NEW f, Follows(f, n, V, v, F)
    PROVE  \A i \in 0 .. n : f[i] \in Q[i]
<1>. DEFINE S == {m \in Nat : m <= n => f[m] \in Q[m]}
<1>1. 0 \in S
  BY DEF Follows
<1>2. ASSUME NEW m \in S PROVE m + 1 \in S
  <2>. SUFFICES ASSUME m + 1 <= n PROVE f[m + 1] \in Q[m + 1]
    OBVIOUS
  <2>1. m + 1 \in 1 .. n /\ (m + 1) - 1 = m /\ m \in 0 .. n
    OBVIOUS
  <2>2. f[m] \in Q[m] /\ Q[m] \subseteq V
    BY <2>1
  <2>3. f[m + 1] = F[m + 1][f[m]]
    BY <2>1, <2>2 DEF Follows
  <2>. QED
    BY <2>1, <2>2, <2>3 DEF LeadsOn
<1>3. S = Nat
  <2>1. S \in SUBSET Nat
    OBVIOUS
  <2>. HIDE DEF S
  <2>. QED
    BY <1>1, <1>2, <2>1, NoFirstMissing
<1>. QED
  BY <1>3

Stepped(f, n, V, v, F) == /\ f = [i \in 0 .. n |-> IF i = 0 THEN v ELSE F[i][f[i - 1]]]
                          /\ \A i \in 0 .. n : f[i] \in V

LEMMA StepsWithin ==
    ASSUME NEW n \in Nat, NEW V, NEW Q \in [0 .. n -> SUBSET V], NEW v \in Q[0], NEW F,
           LeadsOn(n, Q, F)
    PROVE  \E f : Stepped(f, n, V, v, F)
<1>. DEFINE G == [i \in 1 .. n |-> [x \in V |-> IF x \in Q[i - 1] THEN F[i][x] ELSE x]]
<1>1. \A i \in 1 .. n : i \in 0 .. n /\ i - 1 \in 0 .. n
  OBVIOUS
<1>2. \A i \in 1 .. n : Q[i] \subseteq V /\ Q[i - 1] \subseteq V
  BY <1>1
<1>3. G \in [1 .. n -> [V -> V]]
  BY <1>2 DEF LeadsOn
<1>4. \A i \in 1 .. n : \A x \in Q[i - 1] : G[i][x] = F[i][x]
  BY <1>2
<1>5. v \in V /\ 0 \in 0 .. n
  OBVIOUS
<1>. HIDE DEF G
<1>6. PICK f : StepsFrom(f, n, V, v, G)
  BY <1>3, <1>5, StepByStep
<1>7. f \in [0 .. n -> V] /\ f[0] = v /\ \A i \in 1 .. n : f[i] = G[i][f[i - 1]]
  BY <1>6 DEF StepsFrom
<1>8. LeadsOn(n, Q, G)
  BY <1>4 DEF LeadsOn
<1>9. \A i \in 0 .. n : f[i] \in Q[i]
  <2>1. Follows(f, n, V, v, G)
    BY <1>7 DEF Follows
  <2>. QED
    BY <1>8, <2>1, ThroughSteps
<1>10. \A i \in 1 .. n : f[i] = F[i][f[i - 1]]
  BY <1>1, <1>4, <1>7, <1>9
<1>11. \A i \in 0 .. n : i = 0 \/ i \in 1 .. n
  OBVIOUS
<1>12. \A i \in 0 .. n : f[i] = IF i = 0 THEN v ELSE F[i][f[i - 1]]
  BY <1>7, <1>10, <1>11
<1>13. f = [i \in 0 .. n |-> IF i = 0 THEN v ELSE F[i][f[i - 1]]]
  <2>. DEFINE g == [i \in 0 .. n |-> IF i = 0 THEN v ELSE F[i][f[i - 1]]]
  <2>1. DOMAIN g = DOMAIN f /\ \A i \in 0 .. n : g[i] = f[i]
    BY <1>7, <1>12
  <2>2. f = g
    <3>1. g = [i \in 0 .. n |-> g[i]] /\ f = [i \in 0 .. n |-> f[i]]
      BY <1>7
    <3>. HIDE DEF g
    <3>. QED
      BY <2>1, <3>1
  <2>. QED
    BY <2>2
<1>14. \A i \in 0 .. n : f[i] \in V
  BY <1>7
<1>. QED
  BY <1>13, <1>14, Zenon DEF Stepped

-----------------------------------------------------------------------------
(* Sequences, and those in which nothing comes twice. *)
Once(s) == \A i, j \in DOMAIN s : s[i] = s[j] => i = j

LEMMA AppendRow ==
    ASSUME NEW T, NEW s \in Seq(T), NEW x \in T
    PROVE  /\ Append(s, x) \in Seq(T) /\ ToSet(Append(s, x)) = ToSet(s) \cup {x}
           /\ Once(s) /\ x \notin ToSet(s) => Once(Append(s, x))
<1>1. /\ DOMAIN s = 1 .. Len(s) /\ Len(s) \in Nat /\ Append(s, x) \in Seq(T)
      /\ DOMAIN Append(s, x) = 1 .. Len(s) + 1
      /\ \A i \in 1 .. Len(s) : Append(s, x)[i] = s[i]
      /\ Append(s, x)[Len(s) + 1] = x
  OBVIOUS
<1>2. \A i \in 1 .. Len(s) + 1 : i \in 1 .. Len(s) \/ i = Len(s) + 1
  BY <1>1
<1>3. \A i \in 1 .. Len(s) : i \in 1 .. Len(s) + 1
  BY <1>1
<1>4. Len(s) + 1 \in 1 .. Len(s) + 1
  BY <1>1
<1>. DEFINE t == Append(s, x)
<1>. HIDE DEF t
<1>5. ToSet(t) = ToSet(s) \cup {x}
  BY <1>1, <1>2, <1>3, <1>4 DEF ToSet, t
<1>6. Once(s) /\ x \notin ToSet(s) => Once(t)
  BY <1>1, <1>2 DEF Once, ToSet, t
<1>. QED
  BY <1>1, <1>5, <1>6 DEF t

LEMMA JoinRows ==
    ASSUME NEW T, NEW s \in Seq(T), NEW t \in Seq(T)
    PROVE  /\ s \o t \in Seq(T) /\ ToSet(s \o t) = ToSet(s) \cup ToSet(t)
           /\ Once(s) /\ Once(t) /\ ToSet(s) \cap ToSet(t) = {} => Once(s \o t)
<1>1. /\ DOMAIN s = 1 .. Len(s) /\ Len(s) \in Nat /\ DOMAIN t = 1 .. Len(t) /\ Len(t) \in Nat
      /\ s \o t \in Seq(T) /\ DOMAIN (s \o t) = 1 .. Len(s) + Len(t)
      /\ \A i \in 1 .. Len(s) : (s \o t)[i] = s[i]
      /\ \A i \in Len(s) + 1 .. Len(s) + Len(t) : (s \o t)[i] = t[i - Len(s)]
  OBVIOUS
<1>2. \A i \in 1 .. Len(s) + Len(t) :
          i \in 1 .. Len(s) \/ (i \in Len(s) + 1 .. Len(s) + Len(t) /\ i - Len(s) \in 1 .. Len(t))
  BY <1>1
<1>3. /\ \A i \in 1 .. Len(s) : i \in 1 .. Len(s) + Len(t)
      /\ \A i \in 1 .. Len(t) : /\ i + Len(s) \in Len(s) + 1 .. Len(s) + Len(t)
                                /\ i + Len(s) \in 1 .. Len(s) + Len(t)
                                /\ (i + Len(s)) - Len(s) = i
  BY <1>1
<1>. DEFINE u == s \o t
<1>. HIDE DEF u
<1>4. ToSet(u) = ToSet(s) \cup ToSet(t)
  <2>1. ToSet(u) \subseteq ToSet(s) \cup ToSet(t)
    BY <1>1, <1>2 DEF ToSet, u
  <2>2. ToSet(s) \subseteq ToSet(u)
    BY <1>1, <1>3 DEF ToSet, u
  <2>3. ASSUME NEW i \in DOMAIN t PROVE t[i] \in ToSet(u)
    <3>1. u[i + Len(s)] = t[i] /\ i + Len(s) \in DOMAIN u
      BY <1>1, <1>3 DEF u
    <3>. QED
      BY <3>1 DEF ToSet
  <2>. QED
    BY <2>1, <2>2, <2>3 DEF ToSet
<1>5. ASSUME Once(s), Once(t), ToSet(s) \cap ToSet(t) = {} PROVE Once(u)
  <2>. SUFFICES ASSUME NEW i \in DOMAIN u, NEW j \in DOMAIN u, u[i] = u[j] PROVE i = j
    BY DEF Once
  <2>1. CASE i \in 1 .. Len(s) /\ j \in 1 .. Len(s)
    BY <1>1, <1>5, <2>1 DEF Once, u
  <2>2. CASE i \notin 1 .. Len(s) /\ j \notin 1 .. Len(s)
    <3>1. i - Len(s) = j - Len(s)
      BY <1>1, <1>2, <1>5, <2>2 DEF Once, u
    <3>. QED
      BY <1>1, <3>1 DEF u
  <2>3. ASSUME NEW k \in DOMAIN u, NEW l \in DOMAIN u,
               k \in 1 .. Len(s), l \notin 1 .. Len(s)
        PROVE  u[k] # u[l]
    <3>1. u[k] \in ToSet(s)
      BY <1>1, <2>3 DEF ToSet, u
    <3>2. u[l] \in ToSet(t)
      <4>1. l \in Len(s) + 1 .. Len(s) + Len(t) /\ l - Len(s) \in 1 .. Len(t)
        BY <1>1, <1>2, <2>3 DEF u
      <4>2. u[l] = t[l - Len(s)]
        BY <1>1, <4>1 DEF u
      <4>. QED
        BY <1>1, <4>1, <4>2 DEF ToSet
    <3>. QED
      BY <1>5, <3>1, <3>2
  <2>. QED
    BY <2>1, <2>2, <2>3
<1>. QED
  BY <1>1, <1>4, <1>5 DEF u

LEMMA TailRows ==
    ASSUME NEW T, NEW s \in Seq(T), s # <<>>
    PROVE  /\ Tail(s) \in Seq(T) /\ ToSet(Tail(s)) \subseteq ToSet(s)
           /\ Head(s) \in ToSet(s) /\ Head(s) \in T
           /\ Once(s) => Once(Tail(s)) /\ Head(s) \notin ToSet(Tail(s))
<1>1. /\ Len(s) \in Nat \ {0} /\ DOMAIN s = 1 .. Len(s) /\ Head(s) = s[1]
      /\ Tail(s) \in Seq(T) /\ DOMAIN Tail(s) = 1 .. Len(s) - 1
      /\ \A i \in 1 .. Len(s) - 1 : Tail(s)[i] = s[i + 1] /\ i + 1 \in 1 .. Len(s)
  OBVIOUS
<1>2. \A i \in 1 .. Len(s) - 1 : i + 1 # 1 /\ \A j \in 1 .. Len(s) - 1 : i + 1 = j + 1 => i = j
  BY <1>1
<1>3. 1 \in 1 .. Len(s)
  BY <1>1
<1>4. ASSUME Once(s) PROVE Once(Tail(s)) /\ Head(s) \notin ToSet(Tail(s))
  BY <1>1, <1>2, <1>3, <1>4 DEF Once, ToSet
<1>. QED
  BY <1>1, <1>3, <1>4 DEF ToSet

LEMMA RowsOf ==
    ASSUME NEW T, NEW s \in Seq(T)
    PROVE  ToSet(s) \subseteq T
BY DEF ToSet

(* Rows that come once are as many as the listings they are of. *)
LEMMA OnceCounts ==
    ASSUME NEW T, NEW s \in Seq(T), Once(s)
    PROVE  Cardinality(ToSet(s)) = Len(s)
<1>1. Len(s) \in Nat /\ DOMAIN s = 1 .. Len(s) /\ s \in [1 .. Len(s) -> ToSet(s)]
  BY DEF ToSet
<1>2. s \in Bijection(1 .. Len(s), ToSet(s))
  BY <1>1 DEF Bijection, Injection, Surjection, IsInjective, Once, ToSet
<1>3. IsFiniteSet(1 .. Len(s)) /\ Cardinality(1 .. Len(s)) = Len(s)
  BY <1>1, FS_Interval, 1 \in Int
<1>4. s \in Surjection(1 .. Len(s), ToSet(s)) /\ s \in Injection(1 .. Len(s), ToSet(s))
  BY <1>2 DEF Bijection
<1>. QED
  BY <1>3, <1>4, FS_Surjection

(* A finite set as a sequence has each of its members once. *)
LEMMA EachOnce ==
    ASSUME NEW S, IsFiniteSet(S)
    PROVE  LET s == SetToSeq(S)
           IN  /\ s \in Seq(S) /\ Len(s) = Cardinality(S) /\ Len(s) \in Nat
               /\ DOMAIN s = 1 .. Len(s) /\ Once(s) /\ S = {s[i] : i \in 1 .. Len(s)}
<1>. DEFINE n == Cardinality(S)
            s == SetToSeq(S)
<1>1. n \in Nat /\ ExistsBijection(1 .. n, S)
  BY FS_CardinalityType
<1>2. \E f \in [1 .. n -> S] : IsInjective(f)
  BY <1>1 DEF ExistsBijection, Bijection, Injection
<1>3. s \in [1 .. n -> S] /\ IsInjective(s)
  BY <1>2 DEF SetToSeq
<1>. HIDE DEF s
<1>4. s \in Seq(S) /\ Len(s) = n /\ DOMAIN s = 1 .. n
  BY <1>1, <1>3
<1>5. s \in Injection(1 .. n, S)
  BY <1>3 DEF Injection
<1>6. IsFiniteSet(1 .. n) /\ Cardinality(1 .. n) = n
  BY <1>1, FS_Interval, 1 \in Int
<1>7. s \in Surjection(1 .. n, S)
  <2>. HIDE DEF n
  <2>. QED
    BY <1>5, <1>6, FS_Injection DEF n
<1>8. S = {s[i] : i \in 1 .. n}
  BY <1>3, <1>7 DEF Surjection
<1>9. Once(s)
  BY <1>3 DEF Once, IsInjective
<1>. QED
  BY <1>1, <1>4, <1>8, <1>9 DEF s

(* What a finite set is mapped to is finite, and has a greatest where it   *)
(* is numbers.                                                             *)
LEMMA ImageOf ==
    ASSUME NEW S, IsFiniteSet(S), NEW f, DOMAIN f = S, NEW T, T = {f[x] : x \in S}
    PROVE  IsFiniteSet(T) /\ Cardinality(T) <= Cardinality(S)
<1>1. [x \in S |-> f[x]] \in Surjection(S, T)
  BY DEF Surjection
<1>. QED
  BY <1>1, FS_Surjection

LEMMA MostOf ==
    ASSUME NEW S, IsFiniteSet(S), S # {}, NEW f \in [S -> Nat]
    PROVE  \E x \in S : \A y \in S : f[y] <= f[x]
<1>. DEFINE T == {f[x] : x \in S}
<1>1. IsFiniteSet(T) /\ T \in SUBSET Nat /\ T # {}
  BY ImageOf
<1>2. PICK n \in T : \A k \in T : k <= n
  <2>. HIDE DEF T
  <2>. QED
    BY <1>1, GreatestMember
<1>. QED
  BY <1>2
=============================================================================
