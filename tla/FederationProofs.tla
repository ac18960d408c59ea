-------------------------- MODULE FederationProofs --------------------------
(***************************************************************************)
(* Proofs about Federation and PopulationConsensus, for any number of      *)
(* peers, connections, frames, events, pulls, rounds and restarts.         *)
(*                                                                         *)
(* FedInv is inductive for the federation: every connection is Tame (until *)
(* its hello it is nobody's and carries no events), every established one  *)
(* is Bound to a pin in the DAG, and the DAG has the pin of a peer before  *)
(* what it wraps for it.  Two recursive functions of the model, the        *)
(* concatenation of the events of a poll and the sweep with its            *)
(* swap_remove, are first shown to compute what they are for (FlattenIs,   *)
(* SweepIs).                                                               *)
(*                                                                         *)
(* PopInv adds the floor's log: a voter is in it once for a claim and a    *)
(* round, and a certificate rests on pins that precede it. Its steps are   *)
(* those of the abstract quorum ledger, or stutter.                        *)
(***************************************************************************)
EXTENDS PopulationConsensus, FiniteSetTheorems, SequenceTheorems, TLAPS

-----------------------------------------------------------------------------
(* Recursion over places. *)

\* The natural numbers are well ordered.
Less == {p \in Nat \X Nat : p[1] < p[2]}

LEMMA LessWellFounded == IsWellFoundedOn(Less, Nat)
<1>1. IsWellFoundedOn(OpToRel(<, Nat), Nat)
  BY NatLessThanWellFounded
<1>2. OpToRel(<, Nat) = Less
  BY DEF OpToRel, Less
<1> QED BY <1>1, <1>2

LEMMA Least ==
    ASSUME NEW S \in SUBSET Nat, S # {}
    PROVE  \E m \in S : \A n \in S : m <= n
<1>1. PICK m \in S : \A n \in S : ~(<<n, m>> \in Less)
  BY LessWellFounded, WFMin
<1>2. ASSUME NEW n \in S
      PROVE  m <= n
  <2>1. <<n, m>> \in Nat \X Nat /\ <<n, m>>[1] = n /\ <<n, m>>[2] = m
    OBVIOUS
  <2>2. ~(n < m)
    BY <1>1, <2>1 DEF Less
  <2> QED BY <2>2
<1> QED BY <1>2

\* A bounded set of numbers has a greatest one.
LEMMA Greatest ==
    ASSUME NEW n \in Nat, NEW S \in SUBSET (0 .. n), S # {}
    PROVE  \E m \in S : \A i \in S : i <= m
<1> DEFINE T == {k \in Nat : n - k \in S}
<1>1. PICK s \in S : s \in 0 .. n
  OBVIOUS
<1>2. n - s \in Nat /\ n - (n - s) = s
  BY <1>1
<1>3. T \in SUBSET Nat /\ T # {}
  BY <1>1, <1>2
<1>4. PICK m \in T : \A k \in T : m <= k
  BY <1>3, Least
<1>5. ASSUME NEW i \in S
      PROVE  i <= n - m
  <2>1. i \in 0 .. n
    OBVIOUS
  <2>2. n - i \in Nat /\ n - (n - i) = i
    BY <2>1
  <2>3. n - i \in T
    BY <2>2
  <2>4. m <= n - i /\ m \in Nat
    BY <1>4, <2>3
  <2> QED BY <2>1, <2>4
<1> QED BY <1>4, <1>5

\* What holds at the start and is inherited holds up to n.
LEMMA Climb ==
    ASSUME NEW n \in Nat, NEW Good, 0 \in Good,
           \A k \in 0 .. n - 1 : k \in Good => k + 1 \in Good
    PROVE  \A k \in 0 .. n : k \in Good
<1> SUFFICES ASSUME NEW k \in 0 .. n, k \notin Good PROVE FALSE
  OBVIOUS
<1> DEFINE Bad == {i \in 0 .. n : i \notin Good}
<1>1. PICK m \in Bad : \A i \in Bad : m <= i
  <2>1. Bad \in SUBSET Nat /\ k \in Bad
    OBVIOUS
  <2> HIDE DEF Bad
  <2> QED BY <2>1, Least
<1>2. m \in 0 .. n /\ m # 0 /\ m - 1 \in 0 .. n - 1 /\ (m - 1) + 1 = m
  BY <1>1
<1>3. m - 1 \in Good
  <2>1. m - 1 \in 0 .. n /\ ~(m <= m - 1)
    BY <1>2
  <2> QED BY <1>1, <2>1
<1> QED BY <1>1, <1>2, <1>3

-----------------------------------------------------------------------------
(* Sequences put together. *)

\* w is u with v behind it.
Joined(S, u, v, w) ==
    /\ w \in Seq(S) /\ Len(w) = Len(u) + Len(v)
    /\ Len(u) \in Nat /\ Len(v) \in Nat
    /\ DOMAIN u = 1 .. Len(u) /\ DOMAIN v = 1 .. Len(v) /\ DOMAIN w = 1 .. Len(w)
    /\ \A j \in DOMAIN u : j \in DOMAIN w /\ w[j] = u[j]
    /\ \A j \in DOMAIN v : Len(u) + j \in DOMAIN w /\ w[Len(u) + j] = v[j]
    /\ \A j \in DOMAIN w : \/ \E m \in DOMAIN u : w[j] = u[m]
                          \/ \E m \in DOMAIN v : w[j] = v[m]
    /\ \A m \in DOMAIN u : \E j \in DOMAIN w : w[j] = u[m]
    /\ \A m \in DOMAIN v : \E j \in DOMAIN w : w[j] = v[m]

LEMMA JoinIs ==
    ASSUME NEW S, NEW u \in Seq(S), NEW v \in Seq(S)
    PROVE  Joined(S, u, v, u \o v)
<1> DEFINE w == u \o v
<1>1. /\ w \in Seq(S) /\ Len(w) = Len(u) + Len(v)
      /\ Len(u) \in Nat /\ Len(v) \in Nat
      /\ DOMAIN u = 1 .. Len(u) /\ DOMAIN v = 1 .. Len(v) /\ DOMAIN w = 1 .. Len(w)
      /\ \A j \in 1 .. Len(w) : w[j] = IF j <= Len(u) THEN u[j] ELSE v[j - Len(u)]
  OBVIOUS
<1> HIDE DEF w
<1>2. \A j \in DOMAIN u : j \in DOMAIN w /\ w[j] = u[j]
  BY <1>1
<1>3. \A j \in DOMAIN v : Len(u) + j \in DOMAIN w /\ w[Len(u) + j] = v[j]
  BY <1>1
<1>4. ASSUME NEW j \in DOMAIN w
      PROVE  \/ \E m \in DOMAIN u : w[j] = u[m]
             \/ \E m \in DOMAIN v : w[j] = v[m]
  <2>1. CASE j <= Len(u)
    BY <1>1, <2>1
  <2>2. CASE ~(j <= Len(u))
    <3>1. j - Len(u) \in DOMAIN v /\ w[j] = v[j - Len(u)]
      BY <1>1, <2>2
    <3> QED BY <3>1
  <2> QED BY <2>1, <2>2
<1>5. \A m \in DOMAIN u : \E j \in DOMAIN w : w[j] = u[m]
  BY <1>2
<1>6. \A m \in DOMAIN v : \E j \in DOMAIN w : w[j] = v[m]
  BY <1>3
<1>7. Joined(S, u, v, w)
  BY <1>1, <1>2, <1>3, <1>4, <1>5, <1>6 DEF Joined
<1> QED BY <1>7 DEF w

FlattenRec(p, k, f) == f = [i \in 1 .. k |-> IF i = 1 THEN p[i] ELSE f[i - 1] \o p[i]]

LEMMA FlattenExists ==
    ASSUME NEW n \in Nat, NEW p
    PROVE  \A k \in 0 .. n : \E f : FlattenRec(p, k, f)
<1> DEFINE Good == {k \in Nat : \E f : FlattenRec(p, k, f)}
<1>1. 0 \in Good
  <2>1. FlattenRec(p, 0, [i \in 1 .. 0 |-> p])
    BY DEF FlattenRec
  <2> QED BY <2>1
<1>2. ASSUME NEW k \in 0 .. n - 1, k \in Good
      PROVE  k + 1 \in Good
  <2>1. PICK f : FlattenRec(p, k, f)
    BY <1>2
  <2> DEFINE g == [i \in 1 .. k + 1 |->
                      IF i <= k THEN f[i] ELSE IF i = 1 THEN p[i] ELSE f[k] \o p[i]]
  <2>2. f = [i \in 1 .. k |-> IF i = 1 THEN p[i] ELSE f[i - 1] \o p[i]]
    BY <2>1 DEF FlattenRec
  <2>3. ASSUME NEW i \in 1 .. k + 1
        PROVE  g[i] = IF i = 1 THEN p[i] ELSE g[i - 1] \o p[i]
    <3>1. CASE i <= k
      <4>1. g[i] = f[i] /\ i \in 1 .. k
        BY <3>1
      <4>2. i # 1 => g[i - 1] = f[i - 1]
        BY <3>1
      <4> QED BY <2>2, <4>1, <4>2
    <3>2. CASE ~(i <= k)
      <4>1. i = k + 1 /\ k \in Nat
        BY <3>2
      <4>2. i # 1 => g[i - 1] = f[k]
        BY <4>1
      <4> QED BY <3>2, <4>1, <4>2
    <3> QED BY <3>1, <3>2
  <2>4. FlattenRec(p, k + 1, g)
    <3>1. g = [i \in 1 .. k + 1 |-> g[i]]
      OBVIOUS
    <3> HIDE DEF g
    <3> QED BY <2>3, <3>1 DEF FlattenRec
  <2> QED BY <2>4
<1> HIDE DEF Good
<1>3. \A k \in 0 .. n : k \in Good
  BY <1>1, <1>2, Climb
<1> QED BY <1>3 DEF Good

\* The elements of the parts, and no others, are the elements of the whole.
Flattened(S, n, p, w) ==
    /\ w \in Seq(S)
    /\ \A j \in DOMAIN w : \E i \in 1 .. n : \E m \in DOMAIN p[i] : w[j] = p[i][m]
    /\ \A i \in 1 .. n : \A m \in DOMAIN p[i] : \E j \in DOMAIN w : w[j] = p[i][m]

LEMMA FlattenIs ==
    ASSUME NEW n \in Nat, NEW S, NEW p \in [1 .. n -> Seq(S)]
    PROVE  Flattened(S, n, p, FlattenSeq(p))
<1> DEFINE f == CHOOSE f : FlattenRec(p, n, f)
           In(k) == \A j \in DOMAIN f[k] : \E i \in 1 .. k : \E m \in DOMAIN p[i] : f[k][j] = p[i][m]
           All(k) == \A i \in 1 .. k : \A m \in DOMAIN p[i] : \E j \in DOMAIN f[k] : f[k][j] = p[i][m]
           Good == {k \in Nat : k = 0 \/ (f[k] \in Seq(S) /\ In(k) /\ All(k))}
<1>1. Len(p) = n
  BY SeqDef
<1>2. CASE n = 0
  <2>1. FlattenSeq(p) = p /\ p = <<>>
    BY <1>1, <1>2 DEF FlattenSeq
  <2> QED BY <1>2, <2>1 DEF Flattened
<1>3. CASE n # 0
  <2>1. FlattenSeq(p) = f[n]
    BY <1>1, <1>3 DEF FlattenSeq, FlattenRec
  <2>2. f = [i \in 1 .. n |-> IF i = 1 THEN p[i] ELSE f[i - 1] \o p[i]]
    <3>1. n \in 0 .. n
      OBVIOUS
    <3>2. \E g : FlattenRec(p, n, g)
      BY <3>1, FlattenExists
    <3> QED BY <3>2 DEF FlattenRec
  <2> HIDE DEF f
  <2>3. ASSUME NEW k \in 0 .. n - 1, k \in Good
        PROVE  k + 1 \in Good
    <3>1. p[k + 1] \in Seq(S) /\ k + 1 \in 1 .. n /\ k \in Nat
      OBVIOUS
    <3>2. CASE k = 0
      <4>1. f[1] = p[1]
        BY <2>2, <3>1, <3>2
      <4> QED BY <3>1, <3>2, <4>1
    <3>3. CASE k # 0
      <4>1. f[k + 1] = f[k] \o p[k + 1]
        <5>1. k + 1 # 1 /\ (k + 1) - 1 = k
          BY <3>1, <3>3
        <5> QED BY <2>2, <3>1, <5>1
      <4>2. f[k] \in Seq(S) /\ In(k) /\ All(k)
        BY <2>3, <3>3
      <4> DEFINE u == f[k]
                 v == p[k + 1]
                 w == f[k + 1]
      <4>3. Joined(S, u, v, w)
        <5>1. u \in Seq(S)
          BY <4>2
        <5> HIDE DEF u
        <5>2. Joined(S, u, v, u \o v)
          BY <3>1, <5>1, JoinIs
        <5> QED BY <4>1, <5>2 DEF u
      <4>4. In(k + 1)
        <5> SUFFICES ASSUME NEW j \in DOMAIN w
                     PROVE  \E i \in 1 .. k + 1 : \E m \in DOMAIN p[i] : w[j] = p[i][m]
          OBVIOUS
        <5>1. \/ \E m \in DOMAIN u : w[j] = u[m]
              \/ \E m \in DOMAIN v : w[j] = v[m]
          <6> HIDE DEF u, v, w
          <6> QED BY <4>3 DEF Joined
        <5>2. k + 1 \in 1 .. k + 1 /\ \A i \in 1 .. k : i \in 1 .. k + 1
          BY <3>1
        <5>3. ASSUME NEW m \in DOMAIN u, w[j] = u[m]
              PROVE  \E i \in 1 .. k + 1 : \E l \in DOMAIN p[i] : w[j] = p[i][l]
          <6>1. PICK i \in 1 .. k : \E l \in DOMAIN p[i] : u[m] = p[i][l]
            BY <4>2
          <6> HIDE DEF u, w
          <6> QED BY <5>2, <5>3, <6>1
        <5>4. ASSUME NEW m \in DOMAIN v, w[j] = v[m]
              PROVE  \E i \in 1 .. k + 1 : \E l \in DOMAIN p[i] : w[j] = p[i][l]
          <6> HIDE DEF w
          <6> QED BY <5>2, <5>4
        <5> HIDE DEF u, v, w
        <5> QED BY <5>1, <5>3, <5>4
      <4>5. All(k + 1)
        <5>1. /\ \A m \in DOMAIN u : \E j \in DOMAIN w : w[j] = u[m]
              /\ \A m \in DOMAIN v : \E j \in DOMAIN w : w[j] = v[m]
          <6> HIDE DEF u, v, w
          <6> QED BY <4>3 DEF Joined
        <5>2. \A i \in 1 .. k + 1 : i = k + 1 \/ i \in 1 .. k
          BY <3>1
        <5>3. \A i \in 1 .. k : \A m \in DOMAIN p[i] : \E j \in DOMAIN w : w[j] = p[i][m]
          <6> SUFFICES ASSUME NEW i \in 1 .. k, NEW m \in DOMAIN p[i]
                       PROVE  \E j \in DOMAIN w : w[j] = p[i][m]
            OBVIOUS
          <6>1. PICK l \in DOMAIN u : u[l] = p[i][m]
            BY <4>2
          <6> HIDE DEF u, w
          <6> QED BY <5>1, <6>1
        <5> QED BY <5>1, <5>2, <5>3
      <4>6. f[k + 1] \in Seq(S) /\ k + 1 \in Nat
        <5> HIDE DEF u, v, w
        <5>1. w \in Seq(S)
          BY <4>3 DEF Joined
        <5> QED BY <3>1, <5>1 DEF w
      <4> HIDE DEF In, All
      <4> QED BY <4>4, <4>5, <4>6
    <3> QED BY <3>2, <3>3
  <2>4. 0 \in Good
    OBVIOUS
  <2> HIDE DEF Good
  <2>5. n \in Good
    <3>1. \A k \in 0 .. n : k \in Good
      BY <2>3, <2>4, Climb
    <3> QED BY <3>1
  <2> QED BY <1>3, <2>1, <2>5 DEF Good, Flattened
<1> QED BY <1>2, <1>3

-----------------------------------------------------------------------------
(* The sweep. *)

SweepRec(steps, n, k, f) ==
    f = [i \in k .. n + 1 |->
            IF i > n THEN [j \in 1 .. n |-> steps[j].peer]
            ELSE IF steps[i].keep THEN f[i + 1] ELSE SwapRemove(f[i + 1], i)]

LEMMA SweepExists ==
    ASSUME NEW n \in Nat, NEW steps
    PROVE  \E f : SweepRec(steps, n, 1, f)
<1> DEFINE Good == {k \in Nat : \E f : SweepRec(steps, n, n + 1 - k, f)}
<1>1. 0 \in Good
  <2> DEFINE f == [i \in n + 1 .. n + 1 |-> [j \in 1 .. n |-> steps[j].peer]]
  <2>1. \A i \in n + 1 .. n + 1 : i > n
    OBVIOUS
  <2>2. SweepRec(steps, n, n + 1, f)
    BY <2>1 DEF SweepRec
  <2>3. n + 1 - 0 = n + 1
    OBVIOUS
  <2> QED BY <2>2, <2>3
<1>2. ASSUME NEW k \in 0 .. n - 1, k \in Good
      PROVE  k + 1 \in Good
  <2> DEFINE l == n + 1 - k
             b == n + 1 - (k + 1)
  <2>1. PICK f : SweepRec(steps, n, l, f)
    BY <1>2
  <2>2. b \in 1 .. n /\ l = b + 1 /\ k + 1 \in Nat
    OBVIOUS
  <2> DEFINE g == [i \in b .. n + 1 |->
                      IF i > b THEN f[i]
                      ELSE IF steps[i].keep THEN f[i + 1] ELSE SwapRemove(f[i + 1], i)]
  <2> HIDE DEF b, l
  <2>3. f = [i \in l .. n + 1 |->
               IF i > n THEN [j \in 1 .. n |-> steps[j].peer]
               ELSE IF steps[i].keep THEN f[i + 1] ELSE SwapRemove(f[i + 1], i)]
    BY <2>1 DEF SweepRec
  <2>4. ASSUME NEW i \in b .. n + 1
        PROVE  g[i] = IF i > n THEN [j \in 1 .. n |-> steps[j].peer]
                      ELSE IF steps[i].keep THEN g[i + 1] ELSE SwapRemove(g[i + 1], i)
    <3>1. i <= n => g[i + 1] = f[i + 1]
      BY <2>2
    <3>2. CASE i > b
      <4>1. g[i] = f[i] /\ i \in l .. n + 1
        BY <2>2, <3>2
      <4>2. f[i] = IF i > n THEN [j \in 1 .. n |-> steps[j].peer]
                   ELSE IF steps[i].keep THEN f[i + 1] ELSE SwapRemove(f[i + 1], i)
        BY <2>3, <4>1
      <4>3. i > n \/ i <= n
        BY <2>2
      <4> HIDE DEF g
      <4> QED BY <3>1, <4>1, <4>2, <4>3
    <3>3. CASE ~(i > b)
      <4>1. i <= n /\ ~(i > n)
        BY <2>2, <3>3
      <4>2. g[i] = IF steps[i].keep THEN f[i + 1] ELSE SwapRemove(f[i + 1], i)
        BY <3>3
      <4> HIDE DEF g
      <4> QED BY <3>1, <4>1, <4>2
    <3> QED BY <3>2, <3>3
  <2>5. g = [i \in b .. n + 1 |-> g[i]]
    OBVIOUS
  <2> HIDE DEF g
  <2>6. SweepRec(steps, n, b, g)
    BY <2>4, <2>5 DEF SweepRec
  <2> QED BY <2>2, <2>6 DEF b
<1> HIDE DEF Good
<1>3. \A k \in 0 .. n : k \in Good
  BY <1>1, <1>2, Climb
<1>4. n \in Good /\ n + 1 - n = 1
  BY <1>3
<1> QED BY <1>4 DEF Good

\* The connections that are left when those from i on have been swept, in some order
\* `at`; those before i are still in their places.
Left(steps, n, i) == {j \in 1 .. n : j < i \/ steps[j].keep}
SweptBy(steps, n, i, s, m, at) ==
    /\ m \in Nat /\ at \in [1 .. m -> Left(steps, n, i)]
    /\ s = [j \in 1 .. m |-> steps[at[j]].peer]
    /\ \A j, k \in 1 .. m : at[j] = at[k] => j = k
    /\ \A l \in Left(steps, n, i) : \E j \in 1 .. m : at[j] = l
    /\ \A j \in 1 .. i - 1 : j <= m /\ at[j] = j

\* One connection more, in its place in the order or removed.
LEMMA SweepOne ==
    ASSUME NEW n \in Nat, NEW steps, NEW i \in 1 .. n, NEW s, NEW m, NEW at,
           SweptBy(steps, n, i + 1, s, m, at)
    PROVE  /\ steps[i].keep => SweptBy(steps, n, i, s, m, at)
           /\ ~steps[i].keep =>
                 \E o : SweptBy(steps, n, i, SwapRemove(s, i), m - 1, o)
<1>1. /\ m \in Nat /\ at \in [1 .. m -> Left(steps, n, i + 1)]
      /\ s = [j \in 1 .. m |-> steps[at[j]].peer]
      /\ \A j, k \in 1 .. m : at[j] = at[k] => j = k
      /\ \A l \in Left(steps, n, i + 1) : \E j \in 1 .. m : at[j] = l
      /\ \A j \in 1 .. i : j <= m /\ at[j] = j
  BY DEF SweptBy
<1>2. CASE steps[i].keep
  <2>1. Left(steps, n, i + 1) = Left(steps, n, i)
    BY <1>2 DEF Left
  <2> QED BY <1>1, <1>2, <2>1 DEF SweptBy
<1>3. CASE ~steps[i].keep
  <2>1. Left(steps, n, i) = Left(steps, n, i + 1) \ {i}
    BY <1>3 DEF Left
  <2>2. i \in 1 .. m /\ at[i] = i /\ m - 1 \in Nat /\ m \in 1 .. m
    BY <1>1
  <2> DEFINE o == [j \in 1 .. m - 1 |-> IF j = i THEN at[m] ELSE at[j]]
  <2>3. \A j \in 1 .. m - 1 : j \in 1 .. m /\ j # m
    BY <1>1
  <2>4. \A j \in 1 .. m - 1 : o[j] = IF j = i THEN at[m] ELSE at[j]
    OBVIOUS
  <2>5. o \in [1 .. m - 1 -> Left(steps, n, i)]
    <3>1. ASSUME NEW j \in 1 .. m - 1
          PROVE  o[j] \in Left(steps, n, i)
      <4>1. o[j] \in Left(steps, n, i + 1)
        BY <1>1, <2>2, <2>3, <2>4
      <4>2. o[j] # i
        BY <1>1, <2>2, <2>3, <2>4
      <4> QED BY <2>1, <4>1, <4>2
    <3> QED BY <3>1
  <2>6. SwapRemove(s, i) = [j \in 1 .. m - 1 |-> steps[o[j]].peer]
    <3>1. Len(s) = m /\ \A j \in 1 .. m : s[j] = steps[at[j]].peer
      BY <1>1
    <3> HIDE DEF o
    <3>2. SwapRemove(s, i) = [j \in 1 .. m - 1 |-> IF j = i THEN s[m] ELSE s[j]]
      BY <3>1 DEF SwapRemove
    <3> QED BY <2>2, <2>3, <2>4, <3>1, <3>2
  <2> HIDE DEF o
  <2>7. ASSUME NEW j \in 1 .. m - 1, NEW k \in 1 .. m - 1, o[j] = o[k]
        PROVE  j = k
    BY <1>1, <2>2, <2>3, <2>4, <2>7
  <2>8. ASSUME NEW l \in Left(steps, n, i)
        PROVE  \E j \in 1 .. m - 1 : o[j] = l
    <3>1. PICK j \in 1 .. m : at[j] = l
      BY <1>1, <2>1
    <3>2. j # i
      BY <2>1, <2>2, <3>1
    <3>3. CASE j = m
      <4>1. i \in 1 .. m - 1
        BY <2>2, <3>2, <3>3
      <4> QED BY <2>4, <3>1, <3>3, <4>1
    <3>4. CASE j # m
      <4>1. j \in 1 .. m - 1
        BY <2>2, <3>4
      <4> QED BY <2>4, <3>1, <3>2, <4>1
    <3> QED BY <3>3, <3>4
  <2>9. \A j \in 1 .. i - 1 : j <= m - 1 /\ o[j] = j
    BY <1>1, <2>2, <2>4
  <2>10. SweptBy(steps, n, i, SwapRemove(s, i), m - 1, o)
    BY <2>2, <2>5, <2>6, <2>7, <2>8, <2>9 DEF SweptBy
  <2> QED BY <1>3, <2>10
<1> QED BY <1>2, <1>3

\* A sweep keeps what is kept, each once, and nothing else, in whatever order.
LEMMA SweepIs ==
    ASSUME NEW n \in Nat, NEW steps, steps = [i \in 1 .. n |-> steps[i]],
           \A i \in 1 .. n : steps[i].keep \in BOOLEAN
    PROVE  \E m, at : SweptBy(steps, n, 1, Swept(steps), m, at)
<1> DEFINE f == CHOOSE f : SweepRec(steps, n, 1, f)
           Good == {k \in Nat : \E m, at : SweptBy(steps, n, n + 1 - k, f[n + 1 - k], m, at)}
<1>1. Len(steps) = n /\ DOMAIN steps = 1 .. n
  OBVIOUS
<1>2. Swept(steps) = f[1]
  BY <1>1 DEF Swept, SweepRec
<1>3. f = [i \in 1 .. n + 1 |->
             IF i > n THEN [j \in 1 .. n |-> steps[j].peer]
             ELSE IF steps[i].keep THEN f[i + 1] ELSE SwapRemove(f[i + 1], i)]
  <2>1. SweepRec(steps, n, 1, f)
    BY SweepExists
  <2> QED BY <2>1 DEF SweepRec
<1> HIDE DEF f
<1>4. 0 \in Good
  <2> DEFINE id == [j \in 1 .. n |-> j]
  <2>1. f[n + 1] = [j \in 1 .. n |-> steps[j].peer]
    BY <1>3
  <2>2. Left(steps, n, n + 1) = 1 .. n
    BY DEF Left
  <2>3. SweptBy(steps, n, n + 1, f[n + 1], n, id)
    <3>1. id \in [1 .. n -> 1 .. n] /\ \A j \in 1 .. n : id[j] = j
      OBVIOUS
    <3>2. f[n + 1] = [j \in 1 .. n |-> steps[id[j]].peer]
      BY <2>1
    <3> HIDE DEF id
    <3>3. id \in [1 .. n -> Left(steps, n, n + 1)]
      BY <2>2, <3>1
    <3>4. \A l \in Left(steps, n, n + 1) : \E j \in 1 .. n : id[j] = l
      BY <2>2, <3>1
    <3>5. \A j \in 1 .. (n + 1) - 1 : j <= n /\ id[j] = j
      BY <3>1
    <3>6. \A j, k \in 1 .. n : id[j] = id[k] => j = k
      BY <3>1
    <3> QED BY <3>2, <3>3, <3>4, <3>5, <3>6 DEF SweptBy
  <2>4. n + 1 - 0 = n + 1
    OBVIOUS
  <2> QED BY <2>3, <2>4
<1>5. ASSUME NEW k \in 0 .. n - 1, k \in Good
      PROVE  k + 1 \in Good
  <2> DEFINE i == n + 1 - (k + 1)
  <2>1. i \in 1 .. n /\ i + 1 = n + 1 - k /\ k + 1 \in Nat /\ ~(i > n) /\ i \in 1 .. n + 1
    OBVIOUS
  <2>2. PICK m, at : SweptBy(steps, n, i + 1, f[i + 1], m, at)
    BY <1>5, <2>1
  <2> HIDE DEF i
  <2>3. f[i] = IF steps[i].keep THEN f[i + 1] ELSE SwapRemove(f[i + 1], i)
    BY <1>3, <2>1
  <2>4. \E l, o : SweptBy(steps, n, i, f[i], l, o)
    <3>1. CASE steps[i].keep
      <4>1. f[i] = f[i + 1]
        BY <2>3, <3>1
      <4>2. SweptBy(steps, n, i, f[i + 1], m, at)
        BY <2>1, <2>2, <3>1, SweepOne
      <4> QED BY <4>1, <4>2
    <3>2. CASE ~steps[i].keep
      <4>1. f[i] = SwapRemove(f[i + 1], i)
        BY <2>3, <3>2
      <4>2. \E o : SweptBy(steps, n, i, SwapRemove(f[i + 1], i), m - 1, o)
        BY <2>1, <2>2, <3>2, SweepOne
      <4> QED BY <4>1, <4>2
    <3> QED BY <3>1, <3>2
  <2> QED BY <2>1, <2>4 DEF i
<1> HIDE DEF Good
<1>6. \A k \in 0 .. n : k \in Good
  BY <1>4, <1>5, Climb
<1>7. n \in Good /\ n + 1 - n = 1
  BY <1>6
<1> QED BY <1>2, <1>7 DEF Good

-----------------------------------------------------------------------------
(* Connections. *)

Frames == Hellos \cup {Request, Broken, Slow} \cup {Batch(es) : es \in Batches}
PinEvents == [t : {"pinned"}, id : Peers, key : Keys \cup {None}]

Conns ==
    [id : Peers \cup {None}, key : Keys \cup {None},
     st : {"awaiting_hello", "established"}, dialed : BOOLEAN, gone : BOOLEAN,
     wire : Seq(Frames)]

\* Before the hello a connection is nobody's, and has sent no events.
Tame(p) ==
    p.st = "awaiting_hello" =>
        p.id = None /\ ~p.dialed /\ \A n \in DOMAIN p.wire : p.wire[n].f # "batch"

\* A session the DAG must know of: not what a refused link to the parent leaves.
Known(p) == p.st = "established" /\ (~p.dialed \/ Parent \in {None, p.id})
Bound(d, p) == Known(p) => \E i \in DOMAIN d : d[i] = Pin(p.id, p.key)

\* The same session, whatever was read from it.
SameSession(p, r) == r.st = p.st /\ r.id = p.id /\ r.key = p.key /\ r.dialed = p.dialed

LEMMA ConnFields ==
    ASSUME NEW p \in Conns
    PROVE  /\ p.id \in Peers \cup {None} /\ p.key \in Keys \cup {None}
           /\ p.st \in {"awaiting_hello", "established"}
           /\ p.dialed \in BOOLEAN /\ p.gone \in BOOLEAN
           /\ p.wire \in Seq(Frames)
BY DEF Conns

\* What has been read is gone from the wire, or broken.
LEMMA ReadKeeps ==
    ASSUME NEW p \in Conns, Tame(p), p.wire # <<>>
    PROVE  /\ Consumed(p) \in Conns /\ Tame(Consumed(p)) /\ SameSession(p, Consumed(p))
           /\ Torn(p) \in Conns /\ Tame(Torn(p)) /\ SameSession(p, Torn(p))
           /\ Consumed(p).gone = p.gone
           /\ Consumed(p).wire = Tail(p.wire)
           /\ Torn(p).wire = <<Broken>> \o Tail(p.wire)
<1> DEFINE w == p.wire
           l == <<Broken>> \o Tail(w)
<1>1. w \in Seq(Frames) /\ Broken \in Frames
  BY ConnFields DEF Frames
<1>2. /\ Tail(w) \in Seq(Frames) /\ DOMAIN w = 1 .. Len(w)
      /\ DOMAIN Tail(w) = 1 .. Len(w) - 1 /\ Len(w) \in Nat \ {0}
      /\ \A n \in 1 .. Len(w) - 1 : Tail(w)[n] = w[n + 1]
  BY <1>1
<1>3. /\ l \in Seq(Frames) /\ DOMAIN l = 1 .. Len(w) /\ l[1] = Broken
      /\ \A n \in 2 .. Len(w) : l[n] = w[n]
  <2>1. /\ Len(<<Broken>>) = 1 /\ <<Broken>>[1] = Broken /\ <<Broken>> \in Seq(Frames)
    BY <1>1
  <2>2. Len(Tail(w)) = Len(w) - 1
    BY <1>1, <1>2
  <2>3. /\ l \in Seq(Frames) /\ Len(l) = Len(w) /\ DOMAIN l = 1 .. Len(w)
        /\ \A n \in 1 .. Len(w) : l[n] = IF n <= 1 THEN <<Broken>>[n] ELSE Tail(w)[n - 1]
    BY <1>2, <2>1, <2>2
  <2>4. ASSUME NEW n \in 2 .. Len(w)
        PROVE  l[n] = w[n]
    <3>1. n - 1 \in 1 .. Len(w) - 1 /\ (n - 1) + 1 = n /\ n \in 1 .. Len(w) /\ ~(n <= 1)
      BY <1>2
    <3> QED BY <1>2, <2>3, <3>1
  <2>5. 1 \in 1 .. Len(w)
    BY <1>2
  <2> QED BY <2>1, <2>3, <2>4, <2>5
<1>4. Consumed(p) = [p EXCEPT !.wire = Tail(w)] /\ Torn(p) = [p EXCEPT !.wire = l]
  BY DEF Consumed, Torn
<1> HIDE DEF w, l
<1>5. /\ Consumed(p) \in Conns /\ SameSession(p, Consumed(p))
      /\ Consumed(p).wire = Tail(w) /\ Consumed(p).gone = p.gone
  BY <1>2, <1>4 DEF Conns, SameSession
<1>6. Torn(p) \in Conns /\ SameSession(p, Torn(p)) /\ Torn(p).wire = l
  BY <1>3, <1>4 DEF Conns, SameSession
<1>7. p.st = "awaiting_hello" => \A n \in 1 .. Len(w) : w[n].f # "batch"
  BY <1>2 DEF Tame, w
<1>8. Tame(Consumed(p))
  <2>1. \A n \in 1 .. Len(w) - 1 : n + 1 \in 1 .. Len(w)
    BY <1>2
  <2> QED BY <1>2, <1>5, <1>7, <2>1 DEF Tame, SameSession
<1>9. Tame(Torn(p))
  <2>1. \A n \in 1 .. Len(w) : n = 1 \/ n \in 2 .. Len(w)
    BY <1>2
  <2>2. Broken.f # "batch"
    BY DEF Broken
  <2>3. p.st = "awaiting_hello" => \A n \in DOMAIN l : l[n].f # "batch"
    BY <1>3, <1>7, <2>1, <2>2
  <2> QED BY <1>6, <2>3 DEF Tame, SameSession
<1> QED BY <1>5, <1>6, <1>8, <1>9 DEF w, l

\* progress_awaiting_hello_peers, one connection.
LEMMA HelloKeeps ==
    ASSUME NEW p \in Conns, Tame(p)
    PROVE  LET s == HelloStep(p)
           IN  /\ s.keep \in BOOLEAN /\ s.peer \in Conns /\ Tame(s.peer)
               /\ s.pins \in Seq(PinEvents)
               /\ \/ SameSession(p, s.peer)
                  \/ \E n \in DOMAIN s.pins : s.pins[n] = Pin(s.peer.id, s.peer.key)
<1> DEFINE s == HelloStep(p)
           h == Head(p.wire)
           c == Consumed(p)
           greeted == [c EXCEPT !.st = "established", !.id = h.id, !.key = PinnedKey(h)]
<1>1. /\ Kept(p).keep = TRUE /\ Kept(p).peer = p /\ Kept(p).pins = <<>>
      /\ Dropped(p).keep = FALSE /\ Dropped(p).peer = p /\ Dropped(p).pins = <<>>
      /\ Kept(Torn(p)).keep = TRUE /\ Kept(Torn(p)).peer = Torn(p)
      /\ Kept(Torn(p)).pins = <<>>
  BY DEF Kept, Dropped
<1>2. <<>> \in Seq(PinEvents) /\ SameSession(p, p)
  BY DEF SameSession
<1>3. \/ s = Kept(p)
      \/ s = Dropped(p)
      \/ p.wire # <<>> /\ s = Kept(Torn(p))
      \/ /\ p.wire # <<>> /\ p.st = "awaiting_hello" /\ h.f = "hello" /\ h.id # Self
         /\ s = [Kept(greeted) EXCEPT !.pins = <<Pin(h.id, PinnedKey(h))>>, !.event = TRUE]
  BY ConnFields DEF HelloStep
<1> HIDE DEF s
<1>4. CASE s = Kept(p) \/ s = Dropped(p)
  BY <1>1, <1>2, <1>4 DEF s
<1>5. CASE p.wire # <<>> /\ s = Kept(Torn(p))
  BY <1>1, <1>2, <1>5, ReadKeeps, ZenonT(60) DEF s
<1>6. CASE /\ p.wire # <<>> /\ p.st = "awaiting_hello" /\ h.f = "hello" /\ h.id # Self
           /\ s = [Kept(greeted) EXCEPT !.pins = <<Pin(h.id, PinnedKey(h))>>, !.event = TRUE]
  <2>1. h.id \in Peers /\ PinnedKey(h) \in Keys \cup {None}
    <3>1. h \in Frames
      <4>1. p.wire \in Seq(Frames)
        BY ConnFields
      <4> QED BY <1>6, <4>1
    <3>2. h \in Hellos
      BY <1>6, <3>1 DEF Frames, Request, Broken, Slow, Batch
    <3>3. h.id \in Peers \cup {Self} /\ h.key \in Keys \cup {None}
      BY <3>2, FederationAssumption
    <3> QED BY <1>6, <3>3 DEF PinnedKey
  <2> HIDE DEF h
  <2>2. c \in Conns /\ Tame(c) /\ SameSession(p, c)
    BY <1>6, ReadKeeps
  <2> HIDE DEF c
  <2>3. /\ greeted \in Conns /\ greeted.st = "established" /\ greeted.id = h.id
        /\ greeted.key = PinnedKey(h)
    BY <2>1, <2>2 DEF Conns
  <2> HIDE DEF greeted
  <2>5. Tame(greeted)
    BY <2>3 DEF Tame
  <2>6. /\ s.keep = TRUE /\ s.peer = greeted /\ s.pins = <<Pin(h.id, PinnedKey(h))>>
    BY <1>6 DEF Kept, greeted
  <2>7. Pin(h.id, PinnedKey(h)) \in PinEvents
    BY <2>1 DEF Pin, PinEvents
  <2> DEFINE e == Pin(h.id, PinnedKey(h))
  <2>8. /\ <<e>> \in Seq(PinEvents) /\ 1 \in DOMAIN <<e>> /\ <<e>>[1] = e
    BY <2>7
  <2>9. \E n \in DOMAIN s.pins : s.pins[n] = Pin(s.peer.id, s.peer.key)
    BY <2>3, <2>6, <2>8
  <2> QED BY <2>3, <2>5, <2>6, <2>8, <2>9 DEF s
<1> QED BY <1>3, <1>4, <1>5, <1>6

\* progress_peers, one connection.
LEMMA EstablishedKeeps ==
    ASSUME NEW p \in Conns, Tame(p)
    PROVE  LET s == EstablishedStep(p)
           IN  /\ s.keep \in BOOLEAN /\ s.peer \in Conns /\ Tame(s.peer)
               /\ SameSession(p, s.peer)
<1> DEFINE s == EstablishedStep(p)
           frame == Head(p.wire)
<1>1. \/ s = Kept(p)
      \/ s = Dropped(p)
      \/ p.wire # <<>> /\ s = Kept(Torn(p))
      \/ p.wire # <<>> /\ s = [Kept(Consumed(p)) EXCEPT !.event = (frame = Request)]
  BY DEF EstablishedStep
<1> HIDE DEF frame
<1>2. \/ s.keep \in BOOLEAN /\ s.peer = p
      \/ p.wire # <<>> /\ s.keep \in BOOLEAN /\ s.peer \in {Torn(p), Consumed(p)}
  <2> HIDE DEF s
  <2>1. CASE s = Kept(p) \/ s = Dropped(p)
    <3>1. /\ Kept(p).keep = TRUE /\ Kept(p).peer = p
          /\ Dropped(p).keep = FALSE /\ Dropped(p).peer = p
      BY DEF Kept, Dropped
    <3> QED BY <2>1, <3>1
  <2>2. CASE p.wire # <<>> /\ s = Kept(Torn(p))
    BY <2>2 DEF Kept
  <2>3. CASE /\ p.wire # <<>>
             /\ s = [Kept(Consumed(p)) EXCEPT !.event = (frame = Request)]
    <3> DEFINE c == Consumed(p)
    <3>1. s = [Kept(c) EXCEPT !.event = (frame = Request)]
      BY <2>3
    <3> HIDE DEF c
    <3>2. s.keep = TRUE /\ s.peer = c
      BY <3>1 DEF Kept
    <3> QED BY <2>3, <3>2 DEF c
  <2> QED BY <1>1, <2>1, <2>2, <2>3
<1>3. SameSession(p, p)
  BY DEF SameSession
<1> HIDE DEF s
<1> QED BY <1>2, <1>3, ReadKeeps DEF s

-----------------------------------------------------------------------------
(* Accepting, greeting, serving. *)

\* The connections of a sequence are tame.
AllTame(ps) == ps \in Seq(Conns) /\ \A i \in DOMAIN ps : Tame(ps[i])

\* After a sweep: what is left is what the steps made of the connections.
LEMMA SweptTame ==
    ASSUME NEW n \in Nat, NEW steps, steps = [i \in 1 .. n |-> steps[i]],
           \A i \in 1 .. n : /\ steps[i].keep \in BOOLEAN /\ steps[i].peer \in Conns
                             /\ Tame(steps[i].peer)
    PROVE  /\ AllTame(Swept(steps))
           /\ \A j \in DOMAIN Swept(steps) : \E i \in 1 .. n :
                 steps[i].keep /\ Swept(steps)[j] = steps[i].peer
<1> DEFINE s == Swept(steps)
<1>1. PICK m, at : SweptBy(steps, n, 1, s, m, at)
  BY SweepIs
<1> HIDE DEF s
<1>2. /\ m \in Nat /\ s = [j \in 1 .. m |-> steps[at[j]].peer]
      /\ \A j \in 1 .. m : at[j] \in 1 .. n /\ steps[at[j]].keep
  BY <1>1, SMTT(30) DEF SweptBy, Left
<1>3. s \in [1 .. m -> Conns] /\ DOMAIN s = 1 .. m
  BY <1>2
<1>4. s \in Seq(Conns)
  BY <1>2, <1>3, SeqDef
<1> QED BY <1>2, <1>3, <1>4 DEF AllTame, s

LEMMA AcceptedIs ==
    /\ Accepted \in Conns /\ Tame(Accepted) /\ Accepted.st = "awaiting_hello"
    /\ Accepted.wire = <<>> /\ Accepted.id = None /\ ~Accepted.dialed
BY DEF Accepted, Conns, Tame

\* The connections once the backlog has been accepted.
Everyone == peers \o [i \in 1 .. backlog |-> Accepted]

LEMMA EveryoneIs ==
    ASSUME AllTame(peers), backlog \in Nat
    PROVE  /\ AllTame(Everyone) /\ Len(Everyone) = Len(peers) + backlog
           /\ DOMAIN Everyone = 1 .. Len(peers) + backlog /\ Len(peers) \in Nat
           /\ DOMAIN peers = 1 .. Len(peers)
           /\ \A i \in 1 .. Len(peers) : Everyone[i] = peers[i]
           /\ \A i \in Len(peers) + 1 .. Len(Everyone) : Everyone[i] = Accepted
<1> DEFINE b == [i \in 1 .. backlog |-> Accepted]
<1>1. peers \in Seq(Conns) /\ b \in [1 .. backlog -> Conns] /\ Len(b) = backlog
  BY AcceptedIs DEF AllTame
<1>2. b \in Seq(Conns)
  BY <1>1, SeqDef
<1>3. \A j \in 1 .. backlog : b[j] = Accepted
  OBVIOUS
<1> HIDE DEF b
<1>4. Joined(Conns, peers, b, Everyone)
  BY <1>1, <1>2, JoinIs DEF Everyone, b
<1>5. /\ Everyone \in Seq(Conns) /\ Len(Everyone) = Len(peers) + backlog
      /\ DOMAIN Everyone = 1 .. Len(peers) + backlog
      /\ Len(peers) \in Nat /\ DOMAIN peers = 1 .. Len(peers)
      /\ \A i \in 1 .. Len(peers) : Everyone[i] = peers[i]
  BY <1>1, <1>4 DEF Joined
<1>6. \A i \in Len(peers) + 1 .. Len(Everyone) : Everyone[i] = Accepted
  <2> SUFFICES ASSUME NEW i \in Len(peers) + 1 .. Len(Everyone) PROVE Everyone[i] = Accepted
    OBVIOUS
  <2>1. i - Len(peers) \in 1 .. backlog /\ Len(peers) + (i - Len(peers)) = i
    BY <1>5
  <2>2. DOMAIN b = 1 .. backlog /\ \A j \in DOMAIN b : Everyone[Len(peers) + j] = b[j]
    BY <1>1, <1>4 DEF Joined
  <2>3. Everyone[Len(peers) + (i - Len(peers))] = b[i - Len(peers)]
    BY <2>1, <2>2
  <2> QED BY <1>3, <2>1, <2>3
<1>7. \A i \in DOMAIN Everyone : i \in 1 .. Len(peers) \/ i \in Len(peers) + 1 .. Len(Everyone)
  BY <1>5
<1>8. \A i \in DOMAIN Everyone : Tame(Everyone[i])
  BY <1>5, <1>6, <1>7, AcceptedIs DEF AllTame
<1> QED BY <1>5, <1>6, <1>8 DEF AllTame

Greeting == [i \in DOMAIN Everyone |-> HelloStep(Everyone[i])]
Serving == [i \in DOMAIN Swept(Greeting) |-> EstablishedStep(Swept(Greeting)[i])]

LEMMA ProgressIs ==
    /\ Quiescent => Progress.peers = peers /\ Progress.pins = <<>>
    /\ ~Quiescent => Progress.peers = Swept(Serving) /\ Progress.pins = PinsIn(Greeting)
BY DEF Progress, Serving, Greeting, Everyone

\* Whoever is there after it was there before or has just been pinned.
LEMMA ProgressKeeps ==
    ASSUME AllTame(peers), backlog \in Nat
    PROVE  /\ AllTame(Progress.peers) /\ Progress.pins \in Seq(PinEvents)
           /\ \A j \in DOMAIN Progress.peers :
                 LET q == Progress.peers[j]
                 IN  \/ q.st = "awaiting_hello"
                     \/ \E i \in DOMAIN peers : SameSession(peers[i], q)
                     \/ \E n \in DOMAIN Progress.pins : Progress.pins[n] = Pin(q.id, q.key)
<1>1. CASE Quiescent
  <2>1. Progress.peers = peers /\ Progress.pins = <<>>
    BY <1>1, ProgressIs
  <2>2. <<>> \in Seq(PinEvents) /\ \A j \in DOMAIN peers : SameSession(peers[j], peers[j])
    BY DEF SameSession
  <2> QED BY <2>1, <2>2
<1>2. CASE ~Quiescent
  <2> DEFINE n == Len(Everyone)
             met == Swept(Greeting)
             left == Swept(Serving)
             pins == PinsIn(Greeting)
  <2>1. /\ n \in Nat /\ DOMAIN Everyone = 1 .. n /\ Everyone \in Seq(Conns)
        /\ \A i \in 1 .. n : Everyone[i] \in Conns /\ Tame(Everyone[i])
    <3>1. Everyone \in Seq(Conns) /\ \A i \in DOMAIN Everyone : Tame(Everyone[i])
      BY EveryoneIs DEF AllTame
    <3> QED BY <3>1
  <2>2. \A i \in 1 .. n : \/ Everyone[i].st = "awaiting_hello"
                          \/ \E k \in DOMAIN peers : SameSession(peers[k], Everyone[i])
    <3>1. \A i \in 1 .. n : i \in 1 .. Len(peers) \/ i \in Len(peers) + 1 .. n
      BY EveryoneIs
    <3>2. \A k \in DOMAIN peers : SameSession(peers[k], peers[k])
      BY DEF SameSession
    <3> QED BY <3>1, <3>2, EveryoneIs, AcceptedIs
  <2>3. Greeting = [i \in 1 .. n |-> HelloStep(Everyone[i])]
    BY <2>1 DEF Greeting
  <2> HIDE DEF n
  <2>4. ASSUME NEW i \in 1 .. n
        PROVE  /\ Greeting[i].keep \in BOOLEAN /\ Greeting[i].peer \in Conns
               /\ Tame(Greeting[i].peer) /\ Greeting[i].pins \in Seq(PinEvents)
               /\ \/ SameSession(Everyone[i], Greeting[i].peer)
                  \/ \E k \in DOMAIN Greeting[i].pins :
                        Greeting[i].pins[k] = Pin(Greeting[i].peer.id, Greeting[i].peer.key)
    BY <2>1, <2>3, HelloKeeps
  <2>5. Greeting = [i \in 1 .. n |-> Greeting[i]] /\ DOMAIN Greeting = 1 .. n
    BY <2>3
  <2>6. /\ AllTame(met)
        /\ \A j \in DOMAIN met : \E i \in 1 .. n : Greeting[i].keep /\ met[j] = Greeting[i].peer
    BY <2>1, <2>4, <2>5, SweptTame
  <2>7. /\ pins \in Seq(PinEvents)
        /\ \A i \in 1 .. n : \A k \in DOMAIN Greeting[i].pins : \E j \in DOMAIN pins :
              pins[j] = Greeting[i].pins[k]
    <3> DEFINE parts == [i \in 1 .. n |-> Greeting[i].pins]
    <3>1. parts \in [1 .. n -> Seq(PinEvents)]
      BY <2>4
    <3>2. pins = FlattenSeq(parts)
      BY <2>5 DEF PinsIn
    <3>3. \A i \in 1 .. n : parts[i] = Greeting[i].pins
      OBVIOUS
    <3> HIDE DEF parts, pins
    <3>4. Flattened(PinEvents, n, parts, FlattenSeq(parts))
      BY <2>1, <3>1, FlattenIs
    <3>5. Flattened(PinEvents, n, parts, pins)
      BY <3>2, <3>4
    <3>6. ASSUME NEW i \in 1 .. n, NEW k \in DOMAIN Greeting[i].pins
          PROVE  \E j \in DOMAIN pins : pins[j] = Greeting[i].pins[k]
      BY <3>3, <3>5 DEF Flattened
    <3> QED BY <3>5, <3>6 DEF Flattened
  <2> HIDE DEF met, pins
  <2> DEFINE m == Len(met)
  <2>8. m \in Nat /\ DOMAIN met = 1 .. m /\ \A i \in 1 .. m : met[i] \in Conns /\ Tame(met[i])
    BY <2>6 DEF AllTame
  <2>9. Serving = [i \in 1 .. m |-> EstablishedStep(met[i])]
    BY <2>8 DEF Serving, met
  <2> HIDE DEF m
  <2>10. ASSUME NEW i \in 1 .. m
         PROVE  /\ Serving[i].keep \in BOOLEAN /\ Serving[i].peer \in Conns
                /\ Tame(Serving[i].peer) /\ SameSession(met[i], Serving[i].peer)
    BY <2>8, <2>9, EstablishedKeeps
  <2>11. Serving = [i \in 1 .. m |-> Serving[i]]
    BY <2>9
  <2>12. /\ AllTame(left)
         /\ \A j \in DOMAIN left : \E i \in 1 .. m : Serving[i].keep /\ left[j] = Serving[i].peer
    BY <2>8, <2>10, <2>11, SweptTame
  <2>13. Progress.peers = left /\ Progress.pins = pins
    BY <1>2, ProgressIs DEF pins
  <2> HIDE DEF left
  <2>14. ASSUME NEW j \in DOMAIN left
         PROVE  \/ left[j].st = "awaiting_hello"
                \/ \E i \in DOMAIN peers : SameSession(peers[i], left[j])
                \/ \E k \in DOMAIN pins : pins[k] = Pin(left[j].id, left[j].key)
    <3>1. PICK i \in 1 .. m : left[j] = Serving[i].peer
      BY <2>12
    <3>2. SameSession(met[i], left[j])
      BY <2>10, <3>1
    <3>3. PICK k \in 1 .. n : met[i] = Greeting[k].peer
      BY <2>6, <2>8
    <3>4. CASE SameSession(Everyone[k], Greeting[k].peer)
      <4>1. SameSession(Everyone[k], left[j])
        BY <3>2, <3>3, <3>4 DEF SameSession
      <4> QED BY <2>2, <4>1 DEF SameSession
    <3>5. CASE \E l \in DOMAIN Greeting[k].pins :
                  Greeting[k].pins[l] = Pin(Greeting[k].peer.id, Greeting[k].peer.key)
      <4>1. \E l \in DOMAIN pins : pins[l] = Pin(Greeting[k].peer.id, Greeting[k].peer.key)
        BY <2>7, <3>5
      <4>2. left[j].id = Greeting[k].peer.id /\ left[j].key = Greeting[k].peer.key
        BY <3>2, <3>3 DEF SameSession
      <4> QED BY <4>1, <4>2
    <3> QED BY <2>4, <3>4, <3>5
  <2> QED BY <2>7, <2>12, <2>13, <2>14
<1> QED BY <1>1, <1>2

-----------------------------------------------------------------------------
(* Logs. *)

IsLog(d) == Len(d) \in Nat /\ d = [i \in 1 .. Len(d) |-> d[i]]

\* w is d with the events ev behind it.
Extended(d, ev, w) ==
    /\ IsLog(w) /\ Len(d) \in Nat /\ Len(w) \in Nat /\ Len(d) <= Len(w)
    /\ DOMAIN d = 1 .. Len(d) /\ DOMAIN w = 1 .. Len(w)
    /\ \A i \in DOMAIN d : i \in DOMAIN w /\ w[i] = d[i]
    /\ \A m \in DOMAIN ev : Len(d) + m \in DOMAIN w /\ w[Len(d) + m] = ev[m]
    /\ \A i \in DOMAIN w : i \in DOMAIN d \/ \E m \in DOMAIN ev : i = Len(d) + m

LEMMA SeqIsLog ==
    ASSUME NEW S, NEW u \in Seq(S)
    PROVE  IsLog(u)
BY DEF IsLog

LEMMA LogIsSeq ==
    ASSUME NEW d, IsLog(d)
    PROVE  d \in Seq({d[i] : i \in 1 .. Len(d)}) /\ DOMAIN d = 1 .. Len(d)
<1> DEFINE S == {d[i] : i \in 1 .. Len(d)}
           l == Len(d)
<1>1. l \in Nat /\ d = [i \in 1 .. l |-> d[i]]
  BY DEF IsLog
<1>2. \A i \in 1 .. l : d[i] \in S
  OBVIOUS
<1> HIDE DEF S, l
<1>3. d \in [1 .. l -> S] /\ DOMAIN d = 1 .. l
  BY <1>1, <1>2
<1>4. d \in Seq(S)
  BY <1>1, <1>3, SeqDef
<1> QED BY <1>3, <1>4 DEF S, l

LEMMA LogsExtend ==
    ASSUME NEW d, NEW ev, IsLog(d), IsLog(ev)
    PROVE  Extended(d, ev, d \o ev)
<1> DEFINE S == {d[i] : i \in 1 .. Len(d)} \cup {ev[i] : i \in 1 .. Len(ev)}
           w == d \o ev
<1>1. d \in Seq(S) /\ ev \in Seq(S)
  <2> DEFINE A == {d[i] : i \in 1 .. Len(d)}
             B == {ev[i] : i \in 1 .. Len(ev)}
  <2>1. d \in Seq(A) /\ ev \in Seq(B)
    BY LogIsSeq
  <2>2. S = A \cup B
    OBVIOUS
  <2> HIDE DEF A, B, S
  <2> QED BY <2>1, <2>2
<1> HIDE DEF S
<1>2. /\ w \in Seq(S) /\ Len(w) = Len(d) + Len(ev) /\ Len(d) \in Nat /\ Len(ev) \in Nat
      /\ DOMAIN d = 1 .. Len(d) /\ DOMAIN w = 1 .. Len(w) /\ DOMAIN ev = 1 .. Len(ev)
  BY <1>1
<1>3. Joined(S, d, ev, w)
  BY <1>1, JoinIs
<1> HIDE DEF w
<1>4. /\ \A i \in DOMAIN d : i \in DOMAIN w /\ w[i] = d[i]
      /\ \A m \in DOMAIN ev : Len(d) + m \in DOMAIN w /\ w[Len(d) + m] = ev[m]
  BY <1>3 DEF Joined
<1>5. ASSUME NEW i \in DOMAIN w
      PROVE  i \in DOMAIN d \/ \E m \in DOMAIN ev : i = Len(d) + m
  <2>1. CASE i <= Len(d)
    BY <1>2, <2>1
  <2>2. CASE ~(i <= Len(d))
    <3>1. i - Len(d) \in 1 .. Len(ev) /\ i = Len(d) + (i - Len(d))
      BY <1>2, <2>2
    <3> QED BY <1>2, <3>1
  <2> QED BY <2>1, <2>2
<1>6. IsLog(w)
  BY <1>2, SeqIsLog
<1>7. Len(w) \in Nat /\ Len(d) <= Len(w)
  BY <1>2
<1>8. Extended(d, ev, w)
  BY <1>2, <1>4, <1>5, <1>6, <1>7 DEF Extended
<1> QED BY <1>8 DEF w

\* What a restart keeps of a log.
LEMMA PrefixIs ==
    ASSUME NEW d, IsLog(d), NEW n \in Nat, n <= Len(d)
    PROVE  /\ IsLog(SubSeq(d, 1, n)) /\ Len(SubSeq(d, 1, n)) = n
           /\ DOMAIN SubSeq(d, 1, n) = 1 .. n /\ 1 .. n \subseteq DOMAIN d
           /\ \A i \in 1 .. n : SubSeq(d, 1, n)[i] = d[i]
<1> DEFINE w == SubSeq(d, 1, n)
           S == {d[i] : i \in 1 .. Len(d)}
<1>1. d \in Seq(S) /\ DOMAIN d = 1 .. Len(d) /\ Len(d) \in Nat
  BY LogIsSeq DEF IsLog
<1> HIDE DEF S
<1>2. w \in Seq(S) /\ Len(w) = n /\ \A i \in 1 .. n : w[i] = d[i]
  BY <1>1
<1>3. DOMAIN w = 1 .. n /\ 1 .. n \subseteq DOMAIN d
  BY <1>1, <1>2
<1>4. IsLog(w)
  BY <1>2, SeqIsLog
<1> QED BY <1>2, <1>3, <1>4

-----------------------------------------------------------------------------
(* The inductive invariant of the federation. *)

\* A pin is one of a peer; a wrapped event is of a peer that d knows.
Met(d, q) ==
    Parent \in {None, q} => \E j \in DOMAIN d : d[j].t = "pinned" /\ d[j].id = q
EventIn(e, d) ==
    /\ e.t = "pinned" => e \in PinEvents
    /\ e.t = "received" => Met(d, e.from)

\* A wrapped event has the pin of its peer before it.
Introduced(d, i) ==
    d[i].t = "received" /\ Parent \in {None, d[i].from}
        => \E j \in DOMAIN d : j < i /\ d[j].t = "pinned" /\ d[j].id = d[i].from

FedEvents == {"pinned", "floor", "parent_linked", "received"}

FedInv ==
    /\ backlog \in Nat /\ pulling \in Nat /\ pulling <= Len(peers)
    /\ AllTame(peers)
    /\ IsLog(dag) /\ saved \in Nat /\ saved <= Len(dag)
    /\ \A i \in DOMAIN peers : Bound(dag, peers[i])
    /\ \A i \in DOMAIN dag : (dag[i].t = "pinned" => dag[i] \in PinEvents) /\ Introduced(dag, i)

\* What a step of the federation does to the DAG: it records, or restarts.
DagStep ==
    \/ \E ev : /\ IsLog(ev) /\ \A m \in DOMAIN ev : ev[m].t \in FedEvents
               /\ dag' = dag \o ev
    \/ dag' = SubSeq(dag, 1, saved)

LEMMA NothingBehind ==
    ASSUME NEW d, IsLog(d)
    PROVE  d \o <<>> = d /\ IsLog(<<>>) /\ DOMAIN <<>> = {}
<1> DEFINE S == {d[i] : i \in 1 .. Len(d)}
<1>1. d \in Seq(S)
  BY LogIsSeq
<1> HIDE DEF S
<1>2. d \o <<>> = d
  BY <1>1
<1>3. <<>> \in Seq({}) /\ DOMAIN <<>> = {}
  OBVIOUS
<1> QED BY <1>2, <1>3, SeqIsLog

\* A step that records events, each of them admissible, and leaves no session but the
\* old ones and those it pins.
Follows(ps, ev, qs) ==
    \A j \in DOMAIN qs : \/ ~Known(qs[j])
                         \/ \E i \in DOMAIN ps : SameSession(ps[i], qs[j])
                         \/ \E m \in DOMAIN ev : ev[m] = Pin(qs[j].id, qs[j].key)

LEMMA Records ==
    ASSUME FedInv, NEW ev, IsLog(ev), dag' = dag \o ev,
           saved' = Len(dag') \/ saved' = saved,
           \A m \in DOMAIN ev : ev[m].t \in FedEvents /\ EventIn(ev[m], dag),
           backlog' \in Nat, pulling' \in Nat, pulling' <= Len(peers'),
           AllTame(peers'), Follows(peers, ev, peers')
    PROVE  FedInv' /\ DagStep
<1>1. Extended(dag, ev, dag')
  BY LogsExtend DEF FedInv
<1>2. DagStep
  BY DEF DagStep
<1>3. /\ IsLog(dag') /\ Len(dag') \in Nat /\ Len(dag) <= Len(dag') /\ Len(dag) \in Nat
      /\ \A i \in DOMAIN dag : i \in DOMAIN dag' /\ dag'[i] = dag[i]
      /\ \A m \in DOMAIN ev : Len(dag) + m \in DOMAIN dag' /\ dag'[Len(dag) + m] = ev[m]
      /\ \A i \in DOMAIN dag' : i \in DOMAIN dag \/ \E m \in DOMAIN ev : i = Len(dag) + m
  BY <1>1 DEF Extended
<1>4. saved' \in Nat /\ saved' <= Len(dag')
  BY <1>3 DEF FedInv
<1>5. ASSUME NEW j \in DOMAIN peers'
      PROVE  Bound(dag', peers'[j])
  <2>1. CASE ~Known(peers'[j])
    BY <2>1 DEF Bound
  <2>2. ASSUME NEW i \in DOMAIN peers, SameSession(peers[i], peers'[j])
        PROVE  Bound(dag', peers'[j])
    <3>1. Bound(dag, peers[i])
      BY DEF FedInv
    <3>2. Known(peers'[j]) = Known(peers[i])
      BY <2>2 DEF Known, SameSession
    <3> QED BY <1>3, <2>2, <3>1, <3>2 DEF Bound, SameSession
  <2>3. ASSUME NEW m \in DOMAIN ev, ev[m] = Pin(peers'[j].id, peers'[j].key)
        PROVE  Bound(dag', peers'[j])
    BY <1>3, <2>3 DEF Bound
  <2> QED BY <2>1, <2>2, <2>3 DEF Follows
<1>6. ASSUME NEW i \in DOMAIN dag'
      PROVE  (dag'[i].t = "pinned" => dag'[i] \in PinEvents) /\ Introduced(dag', i)
  <2>1. CASE i \in DOMAIN dag
    <3>1. (dag[i].t = "pinned" => dag[i] \in PinEvents) /\ Introduced(dag, i) /\ dag'[i] = dag[i]
      BY <1>3, <2>1 DEF FedInv
    <3> QED BY <1>3, <3>1 DEF Introduced
  <2>2. ASSUME NEW m \in DOMAIN ev, i = Len(dag) + m
        PROVE  (dag'[i].t = "pinned" => dag'[i] \in PinEvents) /\ Introduced(dag', i)
    <3>1. EventIn(ev[m], dag) /\ dag'[i] = ev[m]
      BY <1>3, <2>2
    <3>2. \A j \in DOMAIN dag : j < i
      <4>1. DOMAIN dag = 1 .. Len(dag) /\ DOMAIN ev = 1 .. Len(ev) /\ Len(ev) \in Nat
        BY <1>1, LogIsSeq DEF Extended, IsLog
      <4> QED BY <1>3, <2>2, <4>1
    <3> QED BY <1>3, <3>1, <3>2 DEF EventIn, Met, Introduced
  <2> QED BY <1>3, <2>1, <2>2
<1> QED BY <1>2, <1>3, <1>4, <1>5, <1>6 DEF FedInv

\* A step that leaves the DAG alone.
LEMMA Ignores ==
    ASSUME FedInv, dag' = dag, saved' = Len(dag') \/ saved' = saved,
           backlog' \in Nat, pulling' \in Nat, pulling' <= Len(peers'),
           AllTame(peers'), Follows(peers, <<>>, peers')
    PROVE  FedInv' /\ DagStep
<1>1. IsLog(<<>>) /\ DOMAIN <<>> = {} /\ dag' = dag \o <<>>
  BY NothingBehind DEF FedInv
<1> QED BY <1>1, Records

\* The same connections, read or written to.
Stays(ps, qs) ==
    /\ AllTame(qs) /\ Len(qs) = Len(ps) /\ DOMAIN qs = DOMAIN ps
    /\ \A j \in DOMAIN qs : SameSession(ps[j], qs[j])

LEMMA OneChanged ==
    ASSUME NEW ps, AllTame(ps), NEW i \in DOMAIN ps,
           NEW r \in Conns, Tame(r), SameSession(ps[i], r)
    PROVE  Stays(ps, [ps EXCEPT ![i] = r])
<1> DEFINE qs == [ps EXCEPT ![i] = r]
<1>1. ps \in Seq(Conns) /\ \A j \in DOMAIN ps : Tame(ps[j])
  BY DEF AllTame
<1>2. /\ qs \in Seq(Conns) /\ Len(qs) = Len(ps) /\ DOMAIN qs = DOMAIN ps
      /\ \A j \in DOMAIN qs : qs[j] = IF j = i THEN r ELSE ps[j]
  BY <1>1
<1>3. \A j \in DOMAIN ps : SameSession(ps[j], ps[j])
  BY DEF SameSession
<1> HIDE DEF qs
<1>4. Stays(ps, qs)
  BY <1>1, <1>2, <1>3 DEF Stays, AllTame
<1> QED BY <1>4 DEF qs

LEMMA SameStays ==
    ASSUME NEW ps, AllTame(ps)
    PROVE  Stays(ps, ps)
BY DEF Stays, SameSession

LEMMA StaysFollows ==
    ASSUME NEW ps, NEW qs, NEW ev, Stays(ps, qs)
    PROVE  Follows(ps, ev, qs)
BY DEF Stays, Follows

\* A connection dialed.
LEMMA DialedIs ==
    ASSUME NEW h \in Hellos, h.id # Self
    PROVE  /\ Dialed(h) \in Conns /\ Tame(Dialed(h))
           /\ Dialed(h).st = "established" /\ Dialed(h).dialed
           /\ Dialed(h).id = h.id /\ Dialed(h).key = PinnedKey(h)
           /\ h.id \in Peers /\ Pin(h.id, PinnedKey(h)) \in PinEvents
<1>1. h.id \in Peers /\ h.key \in Keys \cup {None}
  <2>1. h.id \in Peers \cup {Self} /\ h.key \in Keys \cup {None}
    BY FederationAssumption
  <2> QED BY <2>1
<1>2. PinnedKey(h) \in Keys \cup {None}
  BY <1>1 DEF PinnedKey
<1>3. Pin(h.id, PinnedKey(h)) \in PinEvents
  BY <1>1, <1>2 DEF Pin, PinEvents
<1> DEFINE r == Dialed(h)
<1>4. r = [Accepted EXCEPT !.id = h.id, !.key = PinnedKey(h), !.st = "established",
                           !.dialed = TRUE]
  BY DEF Dialed
<1>5. Accepted \in Conns
  BY DEF Accepted, Conns
<1> HIDE DEF r
<1>6. /\ r \in Conns /\ r.st = "established" /\ r.dialed /\ r.id = h.id
      /\ r.key = PinnedKey(h)
  BY <1>1, <1>2, <1>4, <1>5 DEF Conns
<1>7. Tame(r)
  BY <1>6 DEF Tame
<1> QED BY <1>1, <1>3, <1>6, <1>7 DEF r

LEMMA OneMore ==
    ASSUME NEW ps, AllTame(ps), NEW r \in Conns, Tame(r)
    PROVE  /\ AllTame(Append(ps, r)) /\ Len(ps) \in Nat
           /\ Len(Append(ps, r)) = Len(ps) + 1
           /\ \A j \in DOMAIN Append(ps, r) :
                 \/ j \in DOMAIN ps /\ Append(ps, r)[j] = ps[j]
                 \/ Append(ps, r)[j] = r
<1> DEFINE qs == Append(ps, r)
<1>1. ps \in Seq(Conns) /\ \A j \in DOMAIN ps : Tame(ps[j])
  BY DEF AllTame
<1>2. /\ qs \in Seq(Conns) /\ Len(qs) = Len(ps) + 1 /\ Len(ps) \in Nat
      /\ \A j \in DOMAIN qs : \/ j \in DOMAIN ps /\ qs[j] = ps[j]
                              \/ qs[j] = r
  BY <1>1
<1> HIDE DEF qs
<1>3. AllTame(qs)
  BY <1>1, <1>2 DEF AllTame
<1> QED BY <1>2, <1>3 DEF qs

\* Events to record.
EventLog(ev, d) == IsLog(ev) /\ \A m \in DOMAIN ev : ev[m].t \in FedEvents /\ EventIn(ev[m], d)

LEMMA NoEvents ==
    ASSUME NEW d
    PROVE  EventLog(<<>>, d)
<1>1. <<>> \in Seq({}) /\ DOMAIN <<>> = {}
  OBVIOUS
<1> QED BY <1>1, SeqIsLog DEF EventLog

LEMMA OneEvent ==
    ASSUME NEW e, NEW d, e.t \in FedEvents, EventIn(e, d)
    PROVE  EventLog(<<e>>, d) /\ 1 \in DOMAIN <<e>> /\ <<e>>[1] = e
<1>1. <<e>> \in Seq({e}) /\ DOMAIN <<e>> = {1} /\ <<e>>[1] = e
  OBVIOUS
<1> QED BY <1>1, SeqIsLog DEF EventLog

LEMMA PinsAreEvents ==
    ASSUME NEW d
    PROVE  /\ \A e \in PinEvents : e.t \in FedEvents /\ EventIn(e, d)
           /\ \A ev \in Seq(PinEvents) : EventLog(ev, d)
<1>1. \A e \in PinEvents : e.t \in FedEvents /\ EventIn(e, d)
  BY DEF PinEvents, FedEvents, EventIn
<1>2. ASSUME NEW ev \in Seq(PinEvents)
      PROVE  EventLog(ev, d)
  <2>1. \A m \in DOMAIN ev : ev[m] \in PinEvents
    OBVIOUS
  <2> QED BY <1>1, <2>1, SeqIsLog DEF EventLog
<1> QED BY <1>1, <1>2

LEMMA CrossingIs ==
    ASSUME NEW before, NEW after, NEW d
    PROVE  EventLog(Crossing(before, after), d)
<1> DEFINE e == Floor(FloorActive(after))
<1>1. e.t \in FedEvents /\ EventIn(e, d)
  BY DEF Floor, FedEvents, EventIn
<1> HIDE DEF e
<1>2. EventLog(<<>>, d) /\ EventLog(<<e>>, d)
  BY <1>1, NoEvents, OneEvent
<1> QED BY <1>2 DEF Crossing, e

LEMMA EventLogsJoin ==
    ASSUME NEW u, NEW v, NEW d, EventLog(u, d), EventLog(v, d)
    PROVE  /\ EventLog(u \o v, d)
           /\ \A m \in DOMAIN u : \E n \in DOMAIN (u \o v) : (u \o v)[n] = u[m]
<1> DEFINE w == u \o v
<1>1. Extended(u, v, w)
  BY LogsExtend DEF EventLog
<1> HIDE DEF w
<1>2. EventLog(w, d)
  BY <1>1 DEF Extended, EventLog
<1>3. \A m \in DOMAIN u : \E n \in DOMAIN w : w[n] = u[m]
  BY <1>1 DEF Extended
<1> QED BY <1>2, <1>3 DEF w

-----------------------------------------------------------------------------
(* The steps. *)

\* Save writes the DAG or leaves the file alone.
LEMMA SaveIs ==
    ASSUME Save
    PROVE  saved' = Len(dag') \/ saved' = saved
BY DEF Save

\* The sessions once h has been dialed, when its pin is recorded, or is not known.
LEMMA DialedFollows ==
    ASSUME AllTame(peers), NEW h \in Hellos, h.id # Self, NEW ev,
           \/ ~Known(Dialed(h))
           \/ \E m \in DOMAIN ev : ev[m] = Pin(h.id, PinnedKey(h))
    PROVE  /\ AllTame(Append(peers, Dialed(h)))
           /\ Follows(peers, ev, Append(peers, Dialed(h)))
           /\ Len(Append(peers, Dialed(h))) \in Nat
<1> DEFINE r == Dialed(h)
           qs == Append(peers, r)
<1>1. r \in Conns /\ Tame(r) /\ r.id = h.id /\ r.key = PinnedKey(h)
  BY DialedIs
<1>2. ~Known(r) \/ \E m \in DOMAIN ev : ev[m] = Pin(r.id, r.key)
  BY <1>1
<1> HIDE DEF r
<1>3. /\ AllTame(qs) /\ Len(qs) \in Nat
      /\ \A j \in DOMAIN qs : (j \in DOMAIN peers /\ qs[j] = peers[j]) \/ qs[j] = r
  BY <1>1, OneMore
<1>4. \A j \in DOMAIN peers : SameSession(peers[j], peers[j])
  BY DEF SameSession
<1> HIDE DEF qs
<1>5. Follows(peers, ev, qs)
  BY <1>2, <1>3, <1>4 DEF Follows
<1> QED BY <1>3, <1>5 DEF qs, r

LEMMA ConnectKeeps ==
    ASSUME FedInv, NEW h \in Hellos, Connect(h)
    PROVE  FedInv' /\ DagStep
<1>1. backlog' \in Nat /\ pulling' = 0
  BY DEF Connect, FedInv, Idle
<1>2. saved' = Len(dag') \/ saved' = saved
  BY SaveIs DEF Connect
<1>3. AllTame(peers) /\ Len(peers) \in Nat
  BY DEF FedInv, AllTame
<1>4. CASE Authentic(h) /\ h.id # Self /\ h.id \notin Ids(peers)
  <2> DEFINE e == Pin(h.id, PinnedKey(h))
             c == Crossing(peers, peers')
             ev == <<e>> \o c
  <2>1. peers' = Append(peers, Dialed(h)) /\ dag' = dag \o ev
    BY <1>4 DEF Connect, Record
  <2>2. e \in PinEvents
    BY <1>4, DialedIs
  <2> HIDE DEF e
  <2>3. EventLog(<<e>>, dag) /\ 1 \in DOMAIN <<e>> /\ <<e>>[1] = e
    BY <2>2, PinsAreEvents, OneEvent
  <2>4. EventLog(c, dag)
    BY CrossingIs
  <2> HIDE DEF c
  <2>5. EventLog(ev, dag) /\ \E n \in DOMAIN ev : ev[n] = e
    BY <2>3, <2>4, EventLogsJoin
  <2> HIDE DEF ev
  <2>6. AllTame(peers') /\ Follows(peers, ev, peers') /\ Len(peers') \in Nat
    BY <1>3, <1>4, <2>1, <2>5, DialedFollows DEF e
  <2>7. IsLog(ev) /\ \A m \in DOMAIN ev : ev[m].t \in FedEvents /\ EventIn(ev[m], dag)
    BY <2>5 DEF EventLog
  <2>8. dag' = dag \o ev /\ pulling' \in Nat /\ pulling' <= Len(peers')
    BY <1>1, <2>1, <2>6
  <2> QED BY <1>1, <1>2, <2>6, <2>7, <2>8, Records
<1>5. CASE ~(Authentic(h) /\ h.id # Self /\ h.id \notin Ids(peers))
  <2>1. peers' = peers /\ dag' = dag
    <3>1. peers' = peers /\ dag' = dag \o <<>>
      BY <1>5 DEF Connect, Record
    <3> QED BY <3>1, NothingBehind DEF FedInv
  <2>2. Follows(peers, <<>>, peers')
    BY <1>3, <2>1, SameStays, StaysFollows
  <2> QED BY <1>1, <1>2, <1>3, <2>1, <2>2, Ignores
<1> QED BY <1>4, <1>5

LEMMA LinkKeeps ==
    ASSUME FedInv, NEW h \in Hellos, LinkToParent(h)
    PROVE  FedInv' /\ DagStep
<1>1. backlog' \in Nat /\ pulling' = 0
  BY DEF LinkToParent, FedInv, Idle
<1>2. AllTame(peers) /\ Len(peers) \in Nat
  BY DEF FedInv, AllTame
<1>3. peers' = Append(peers, Dialed(h)) /\ h.id # Self /\ Parent # None
  BY DEF LinkToParent
<1>4. CASE h.id = Parent
  <2> DEFINE e == Pin(h.id, PinnedKey(h))
             l == Linked(h.id)
             ev == <<e, l>>
  <2>1. dag' = dag \o ev /\ (saved' = Len(dag') \/ saved' = saved)
    BY <1>4, SaveIs DEF LinkToParent, Record
  <2>2. e \in PinEvents
    BY <1>3, DialedIs
  <2>3. l.t \in FedEvents /\ EventIn(l, dag)
    BY DEF Linked, FedEvents, EventIn
  <2> HIDE DEF e, l
  <2>4. EventLog(<<e>>, dag) /\ 1 \in DOMAIN <<e>> /\ <<e>>[1] = e
    BY <2>2, PinsAreEvents, OneEvent
  <2>5. EventLog(<<l>>, dag)
    BY <2>3, OneEvent
  <2>6. ev = <<e>> \o <<l>>
    <3> DEFINE w == <<e>> \o <<l>>
    <3>1. w \in Seq({e, l}) /\ Len(w) = 2 /\ w[1] = e /\ w[2] = l
      <4>1. <<e>> \in Seq({e, l}) /\ <<l>> \in Seq({e, l})
        OBVIOUS
      <4> QED BY <4>1
    <3> HIDE DEF w
    <3>2. w = <<e, l>>
      BY <3>1
    <3> QED BY <3>2 DEF w
  <2>7. EventLog(ev, dag) /\ \E n \in DOMAIN ev : ev[n] = e
    <3> HIDE DEF ev
    <3>1. /\ EventLog(<<e>> \o <<l>>, dag)
          /\ \A m \in DOMAIN <<e>> : \E n \in DOMAIN (<<e>> \o <<l>>) :
                (<<e>> \o <<l>>)[n] = <<e>>[m]
      BY <2>4, <2>5, EventLogsJoin
    <3> QED BY <2>4, <2>6, <3>1
  <2> HIDE DEF ev
  <2>8. AllTame(peers') /\ Follows(peers, ev, peers') /\ Len(peers') \in Nat
    BY <1>2, <1>3, <2>7, DialedFollows DEF e
  <2>9. IsLog(ev) /\ \A m \in DOMAIN ev : ev[m].t \in FedEvents /\ EventIn(ev[m], dag)
    BY <2>7 DEF EventLog
  <2>10. pulling' \in Nat /\ pulling' <= Len(peers')
    BY <1>1, <2>8
  <2> QED BY <1>1, <2>1, <2>8, <2>9, <2>10, Records
<1>5. CASE h.id # Parent
  <2>1. dag' = dag /\ saved' = saved
    BY <1>5 DEF LinkToParent
  <2>2. ~Known(Dialed(h))
    BY <1>3, <1>5, DialedIs DEF Known
  <2>3. AllTame(peers') /\ Follows(peers, <<>>, peers') /\ Len(peers') \in Nat
    BY <1>2, <1>3, <2>2, DialedFollows
  <2> QED BY <1>1, <2>1, <2>3, Ignores
<1> QED BY <1>4, <1>5

\* The operator's poll and the tick.
LEMMA ProgressFollows ==
    ASSUME FedInv, peers' = Progress.peers, NEW c, EventLog(c, dag)
    PROVE  /\ AllTame(peers') /\ Len(peers') \in Nat
           /\ EventLog(Progress.pins \o c, dag)
           /\ Follows(peers, Progress.pins \o c, peers')
<1> DEFINE pins == Progress.pins
           ev == pins \o c
<1>1. AllTame(peers) /\ backlog \in Nat
  BY DEF FedInv
<1>2. /\ AllTame(peers') /\ pins \in Seq(PinEvents)
      /\ \A j \in DOMAIN peers' :
            \/ peers'[j].st = "awaiting_hello"
            \/ \E i \in DOMAIN peers : SameSession(peers[i], peers'[j])
            \/ \E n \in DOMAIN pins : pins[n] = Pin(peers'[j].id, peers'[j].key)
  BY <1>1, ProgressKeeps
<1> HIDE DEF pins
<1>3. EventLog(pins, dag)
  BY <1>2, PinsAreEvents
<1>4. EventLog(ev, dag) /\ \A m \in DOMAIN pins : \E n \in DOMAIN ev : ev[n] = pins[m]
  BY <1>3, EventLogsJoin
<1> HIDE DEF ev
<1>5. Follows(peers, ev, peers')
  <2> SUFFICES ASSUME NEW j \in DOMAIN peers', Known(peers'[j]),
                      ~\E i \in DOMAIN peers : SameSession(peers[i], peers'[j])
               PROVE  \E m \in DOMAIN ev : ev[m] = Pin(peers'[j].id, peers'[j].key)
    BY DEF Follows
  <2>1. PICK n \in DOMAIN pins : pins[n] = Pin(peers'[j].id, peers'[j].key)
    BY <1>2 DEF Known
  <2>2. PICK m \in DOMAIN ev : ev[m] = pins[n]
    BY <1>4
  <2> QED BY <2>1, <2>2
<1>6. Len(peers') \in Nat
  BY <1>2 DEF AllTame
<1> QED BY <1>2, <1>4, <1>5, <1>6 DEF ev, pins

LEMMA PollKeeps ==
    ASSUME FedInv, Poll
    PROVE  FedInv' /\ DagStep
<1> DEFINE c == Crossing(peers, peers')
           ev == Progress.pins \o c
<1>1. /\ peers' = Progress.peers /\ dag' = dag \o ev
      /\ backlog' = 0 /\ pulling' = 0 /\ (saved' = Len(dag') \/ saved' = saved)
  BY SaveIs DEF Poll, Record, Idle
<1>2. EventLog(c, dag)
  BY CrossingIs
<1> HIDE DEF c
<1>3. /\ AllTame(peers') /\ Len(peers') \in Nat
      /\ EventLog(ev, dag) /\ Follows(peers, ev, peers')
  BY <1>1, <1>2, ProgressFollows
<1> HIDE DEF ev
<1>4. IsLog(ev) /\ \A m \in DOMAIN ev : ev[m].t \in FedEvents /\ EventIn(ev[m], dag)
  BY <1>3 DEF EventLog
<1>5. pulling' \in Nat /\ pulling' <= Len(peers') /\ backlog' \in Nat
  BY <1>1, <1>3
<1> QED BY <1>1, <1>3, <1>4, <1>5, Records

LEMMA TickPollKeeps ==
    ASSUME FedInv, TickPoll
    PROVE  FedInv' /\ DagStep
<1> DEFINE ev == Progress.pins
<1>1. /\ peers' = Progress.peers /\ dag' = dag \o ev
      /\ backlog' = 0 /\ pulling' = 0 /\ (saved' = Len(dag') \/ saved' = saved)
  BY SaveIs DEF TickPoll, Record, Idle
<1>2. EventLog(<<>>, dag)
  BY NoEvents
<1>3. /\ AllTame(peers') /\ Len(peers') \in Nat
      /\ EventLog(ev \o <<>>, dag) /\ Follows(peers, ev \o <<>>, peers')
  BY <1>1, <1>2, ProgressFollows
<1>4. ev \o <<>> = ev
  <2>1. ev \in Seq(PinEvents)
    BY ProgressKeeps DEF FedInv
  <2> HIDE DEF ev
  <2> QED BY <2>1
<1> HIDE DEF ev
<1>5. IsLog(ev) /\ \A m \in DOMAIN ev : ev[m].t \in FedEvents /\ EventIn(ev[m], dag)
  BY <1>3, <1>4 DEF EventLog
<1>6. pulling' \in Nat /\ pulling' <= Len(peers') /\ backlog' \in Nat
  BY <1>1, <1>3
<1>7. Follows(peers, ev, peers')
  BY <1>3, <1>4
<1> QED BY <1>1, <1>3, <1>5, <1>6, <1>7, Records

\* A step of the network on one connection.
LEMMA OneConnection ==
    ASSUME FedInv, NEW i \in DOMAIN peers, NEW r \in Conns, Tame(r),
           SameSession(peers[i], r), peers' = [peers EXCEPT ![i] = r],
           dag' = dag, saved' = saved, backlog' = backlog,
           pulling' \in 0 .. Len(peers)
    PROVE  FedInv' /\ DagStep
<1>1. AllTame(peers) /\ Len(peers) \in Nat
  BY DEF FedInv, AllTame
<1>2. Stays(peers, peers')
  BY <1>1, OneChanged
<1>3. Follows(peers, <<>>, peers')
  BY <1>2, StaysFollows
<1>4. AllTame(peers') /\ pulling' \in Nat /\ pulling' <= Len(peers')
  BY <1>1, <1>2 DEF Stays
<1>5. backlog' \in Nat
  BY DEF FedInv
<1> QED BY <1>3, <1>4, <1>5, Ignores

LEMMA Connection ==
    ASSUME FedInv, NEW i \in DOMAIN peers
    PROVE  /\ peers[i] \in Conns /\ Tame(peers[i])
           /\ peers[i].wire \in Seq(Frames)
           /\ i \in 1 .. Len(peers) /\ Len(peers) \in Nat
<1>1. peers \in Seq(Conns) /\ Tame(peers[i])
  BY DEF FedInv, AllTame
<1>2. peers[i] \in Conns /\ i \in 1 .. Len(peers) /\ Len(peers) \in Nat
  BY <1>1
<1> QED BY <1>1, <1>2, ConnFields

LEMMA FrameWrites ==
    ASSUME NEW p \in Conns, Tame(p), NEW frame \in Frames,
           p.st = "awaiting_hello" => frame.f # "batch"
    PROVE  LET r == [p EXCEPT !.wire = Append(@, frame)]
           IN  r \in Conns /\ Tame(r) /\ SameSession(p, r)
<1> DEFINE w == Append(p.wire, frame)
           r == [p EXCEPT !.wire = w]
<1>1. p.wire \in Seq(Frames)
  BY ConnFields
<1>2. /\ w \in Seq(Frames)
      /\ \A n \in DOMAIN w : (n \in DOMAIN p.wire /\ w[n] = p.wire[n]) \/ w[n] = frame
  BY <1>1
<1> HIDE DEF w
<1>3. r \in Conns /\ r.wire = w /\ SameSession(p, r)
  BY <1>2 DEF Conns, SameSession
<1> HIDE DEF r
<1>4. p.st = "awaiting_hello" => \A n \in DOMAIN w : w[n].f # "batch"
  BY <1>2 DEF Tame
<1>5. Tame(r)
  BY <1>3, <1>4 DEF Tame, SameSession
<1> QED BY <1>3, <1>5 DEF r, w

LEMMA BeginPullKeeps ==
    ASSUME FedInv, NEW q \in Peers, BeginPull(q)
    PROVE  FedInv' /\ DagStep
<1>1. PICK i \in DOMAIN peers : pulling' = i
  BY DEF BeginPull
<1>2. peers' = peers /\ dag' = dag /\ saved' = saved /\ backlog' = backlog
  BY DEF BeginPull
<1>3. AllTame(peers) /\ backlog \in Nat
  BY DEF FedInv
<1>4. pulling' \in Nat /\ pulling' <= Len(peers')
  BY <1>1, <1>2, Connection
<1>5. Follows(peers, <<>>, peers')
  BY <1>2, <1>3, SameStays, StaysFollows
<1> QED BY <1>2, <1>3, <1>4, <1>5, Ignores

LEMMA PutKeeps ==
    ASSUME FedInv, NEW i \in DOMAIN peers, NEW frame \in Frames,
           peers[i].st = "awaiting_hello" => frame.f # "batch", Put(i, frame)
    PROVE  FedInv' /\ DagStep
<1> DEFINE p == peers[i]
           r == [p EXCEPT !.wire = Append(@, frame)]
<1>1. p \in Conns /\ Tame(p)
  BY Connection
<1>2. /\ peers' = [peers EXCEPT ![i] = r] /\ dag' = dag /\ saved' = saved
      /\ backlog' = backlog /\ pulling' = pulling
  BY DEF Put
<1>3. pulling' \in 0 .. Len(peers)
  BY <1>2, Connection DEF FedInv
<1>4. r \in Conns /\ Tame(r) /\ SameSession(p, r)
  <2>1. p.st = "awaiting_hello" => frame.f # "batch"
    OBVIOUS
  <2> HIDE DEF p
  <2> QED BY <1>1, <2>1, FrameWrites
<1> HIDE DEF r
<1> QED BY <1>2, <1>3, <1>4, OneConnection

LEMMA DeliverKeeps ==
    ASSUME FedInv, NEW i \in DOMAIN peers, NEW frame, Deliver(i, frame)
    PROVE  FedInv' /\ DagStep
<1>1. frame \in Frames
  BY DEF Deliver, Frames
<1>2. peers[i].st = "awaiting_hello" => frame.f # "batch"
  BY FederationAssumption DEF Deliver, Broken, Slow
<1> QED BY <1>1, <1>2, PutKeeps DEF Deliver

LEMMA HangupKeeps ==
    ASSUME FedInv, NEW i \in DOMAIN peers, Hangup(i)
    PROVE  FedInv' /\ DagStep
<1> DEFINE p == peers[i]
           r == [p EXCEPT !.gone = TRUE]
<1>1. p \in Conns /\ Tame(p)
  BY Connection
<1>2. /\ peers' = [peers EXCEPT ![i] = r] /\ dag' = dag /\ saved' = saved
      /\ backlog' = backlog /\ pulling' = pulling
  BY DEF Hangup
<1>3. pulling' \in 0 .. Len(peers)
  BY <1>2, Connection DEF FedInv
<1> HIDE DEF p
<1>4. r \in Conns /\ SameSession(p, r) /\ r.wire = p.wire
  BY <1>1 DEF Conns, SameSession
<1> HIDE DEF r
<1>5. Tame(r)
  BY <1>1, <1>4 DEF Tame, SameSession
<1> QED BY <1>2, <1>3, <1>4, <1>5, OneConnection DEF p

\* What is ingested of a batch is wrapped for the peer it came from.
LEMMA WrapsAre ==
    ASSUME NEW q, NEW es \in Batches, NEW d, Met(d, q)
    PROVE  EventLog(Wraps(q, es), d)
<1> DEFINE n == Len(es)
           S == {Wrap(q, es[j]) : j \in 1 .. n}
           parts == [j \in 1 .. n |-> IF Safe(es[j]) THEN <<Wrap(q, es[j])>> ELSE <<>>]
<1>1. n \in Nat /\ DOMAIN es = 1 .. n
  BY FederationAssumption
<1>2. parts \in [1 .. n -> Seq(S)]
  <2>1. ASSUME NEW j \in 1 .. n
        PROVE  parts[j] \in Seq(S)
    <3> DEFINE e == Wrap(q, es[j])
    <3>1. parts[j] = <<e>> \/ parts[j] = <<>>
      OBVIOUS
    <3>2. e \in S
      OBVIOUS
    <3> HIDE DEF S, parts, e
    <3>3. <<e>> \in Seq(S) /\ <<>> \in Seq(S)
      BY <3>2
    <3> QED BY <3>1, <3>3
  <2> HIDE DEF S
  <2> QED BY <2>1
<1>3. Wraps(q, es) = FlattenSeq(parts)
  BY <1>1 DEF Wraps
<1>4. ASSUME NEW e \in S
      PROVE  e.t \in FedEvents /\ EventIn(e, d)
  <2>1. e.t = "received" /\ e.from = q
    BY DEF Wrap
  <2> HIDE DEF S
  <2> QED BY <2>1 DEF EventIn, FedEvents
<1> HIDE DEF S, parts, n
<1>5. Flattened(S, n, parts, FlattenSeq(parts))
  BY <1>1, <1>2, FlattenIs
<1>6. Wraps(q, es) \in Seq(S)
  BY <1>3, <1>5 DEF Flattened
<1>7. \A m \in DOMAIN Wraps(q, es) : Wraps(q, es)[m] \in S
  BY <1>6
<1> QED BY <1>4, <1>6, <1>7, SeqIsLog DEF EventLog

LEMMA FinishPullKeeps ==
    ASSUME FedInv, FinishPull
    PROVE  FedInv' /\ DagStep
<1> DEFINE i == pulling
           p == peers[i]
           frame == Head(p.wire)
<1>1. /\ i \in DOMAIN peers /\ p.wire # <<>> /\ pulling' = 0
      /\ backlog' = backlog
  <2>1. i # 0 /\ p.wire # <<>> /\ pulling' = 0 /\ backlog' = backlog
    BY DEF FinishPull, Idle
  <2>2. DOMAIN peers = 1 .. Len(peers) /\ Len(peers) \in Nat
    BY DEF FedInv, AllTame
  <2> QED BY <2>1, <2>2 DEF FedInv
<1>2. p \in Conns /\ Tame(p) /\ p.wire \in Seq(Frames) /\ Len(peers) \in Nat
  BY <1>1, Connection
<1>3. pulling' \in 0 .. Len(peers) /\ AllTame(peers)
  BY <1>1, <1>2 DEF FedInv
<1>4. /\ Consumed(p) \in Conns /\ Tame(Consumed(p)) /\ SameSession(p, Consumed(p))
      /\ Torn(p) \in Conns /\ Tame(Torn(p)) /\ SameSession(p, Torn(p))
  BY <1>1, <1>2, ReadKeeps
<1>5. CASE frame.f = "batch"
  <2> DEFINE ev == Wraps(p.id, frame.events)
  <2>1. /\ peers' = [peers EXCEPT ![i] = Consumed(p)] /\ dag' = dag \o ev
        /\ saved' = Len(dag') \/ saved' = saved
    BY <1>5, SaveIs DEF FinishPull, Record
  <2>2. 1 \in DOMAIN p.wire /\ frame = p.wire[1] /\ frame \in Frames
    BY <1>1, <1>2
  <2>3. Met(dag, p.id)
    <3>1. p.st = "established"
      <4>1. p.st \in {"awaiting_hello", "established"}
        BY <1>2, ConnFields
      <4> HIDE DEF p, frame
      <4> QED BY <1>2, <1>5, <2>2, <4>1 DEF Tame
    <3>2. Parent \in {None, p.id} => \E j \in DOMAIN dag : dag[j] = Pin(p.id, p.key)
      BY <1>1, <3>1 DEF FedInv, Bound, Known
    <3> HIDE DEF p
    <3> QED BY <3>2 DEF Met, Pin
  <2>4. frame.events \in Batches
    <3> HIDE DEF frame
    <3>1. frame \notin Hellos
      BY <1>5, FederationAssumption
    <3>2. PICK es \in Batches : frame = Batch(es)
      BY <1>5, <2>2, <3>1 DEF Frames, Request, Broken, Slow
    <3>3. frame.events = es
      BY <3>2 DEF Batch
    <3> QED BY <3>3
  <2> HIDE DEF frame
  <2>5. EventLog(ev, dag)
    BY <2>3, <2>4, WrapsAre
  <2> HIDE DEF ev
  <2>6. Stays(peers, peers')
    BY <1>1, <1>3, <1>4, <2>1, OneChanged
  <2>7. Follows(peers, ev, peers')
    BY <2>6, StaysFollows
  <2>8. AllTame(peers') /\ pulling' \in Nat /\ pulling' <= Len(peers') /\ backlog' \in Nat
    BY <1>1, <1>2, <2>6 DEF Stays, FedInv
  <2>9. IsLog(ev) /\ \A m \in DOMAIN ev : ev[m].t \in FedEvents /\ EventIn(ev[m], dag)
    BY <2>5 DEF EventLog
  <2> QED BY <1>1, <2>1, <2>7, <2>8, <2>9, Records
<1>6. CASE frame.f # "batch"
  <2> DEFINE r == IF frame = Slow THEN Torn(p) ELSE Consumed(p)
  <2>1. peers' = [peers EXCEPT ![i] = r] /\ dag' = dag /\ saved' = saved
    BY <1>6 DEF FinishPull
  <2>2. r \in Conns /\ Tame(r) /\ SameSession(p, r)
    BY <1>4
  <2> HIDE DEF r
  <2> QED BY <1>1, <1>3, <2>1, <2>2, OneConnection
<1> QED BY <1>5, <1>6

LEMMA RestartKeeps ==
    ASSUME FedInv, Restart
    PROVE  FedInv' /\ DagStep
<1>1. /\ dag' = SubSeq(dag, 1, saved) /\ peers' = <<>> /\ backlog' = 0 /\ pulling' = 0
      /\ saved' = saved
  BY DEF Restart
<1>2. /\ IsLog(dag') /\ Len(dag') = saved /\ DOMAIN dag' = 1 .. saved
      /\ 1 .. saved \subseteq DOMAIN dag /\ \A i \in 1 .. saved : dag'[i] = dag[i]
  BY <1>1, PrefixIs DEF FedInv
<1>3. <<>> \in Seq(Conns) /\ DOMAIN <<>> = {} /\ Len(<<>>) = 0
  OBVIOUS
<1>4. AllTame(peers') /\ pulling' <= Len(peers') /\ DOMAIN peers' = {}
  BY <1>1, <1>3 DEF AllTame
<1>5. saved' \in Nat /\ saved' <= Len(dag')
  BY <1>1, <1>2 DEF FedInv
<1>6. ASSUME NEW i \in DOMAIN dag'
      PROVE  (dag'[i].t = "pinned" => dag'[i] \in PinEvents) /\ Introduced(dag', i)
  <2>1. (dag[i].t = "pinned" => dag[i] \in PinEvents) /\ Introduced(dag, i) /\ dag'[i] = dag[i]
    BY <1>2 DEF FedInv
  <2>2. \A j \in DOMAIN dag : j < i => j \in DOMAIN dag' /\ dag'[j] = dag[j]
    <3>1. DOMAIN dag = 1 .. Len(dag) /\ saved \in Nat /\ Len(dag) \in Nat
      BY LogIsSeq DEF FedInv, IsLog
    <3> QED BY <1>2, <3>1
  <2> QED BY <2>1, <2>2 DEF Introduced
<1>7. FedInv'
  BY <1>1, <1>2, <1>4, <1>5, <1>6 DEF FedInv
<1> QED BY <1>1, <1>7 DEF DagStep

\* Every step of the federation keeps the invariant, and records or restarts.
LEMMA FedSteps ==
    ASSUME FedInv, FedNext
    PROVE  FedInv' /\ DagStep
<1>1. AllTame(peers) /\ Len(peers) \in Nat /\ Follows(peers, <<>>, peers)
  <2>1. AllTame(peers)
    BY DEF FedInv
  <2>2. Stays(peers, peers)
    BY <2>1, SameStays
  <2>3. Follows(peers, <<>>, peers)
    BY <2>2, StaysFollows
  <2>4. Len(peers) \in Nat
    BY <2>1 DEF AllTame
  <2> QED BY <2>1, <2>3, <2>4
<1>2. dag \o <<>> = dag
  BY NothingBehind DEF FedInv
<1>3. ASSUME peers' = peers, dag' = dag, backlog' \in Nat,
             saved' = Len(dag') \/ saved' = saved, pulling' = 0
      PROVE  FedInv' /\ DagStep
  BY <1>1, <1>3, Ignores
<1>4. CASE OpenListener
  BY <1>2, <1>3, <1>4, SaveIs DEF OpenListener, Record, Idle
<1>5. CASE CloseListener
  BY <1>2, <1>3, <1>5, SaveIs DEF CloseListener, Record, Idle
<1>6. CASE PullTimesOut
  BY <1>3, <1>6 DEF PullTimesOut, FedInv
<1>7. CASE Arrive
  BY <1>3, <1>7 DEF Arrive, FedInv, Idle
<1>8. ASSUME NEW h \in Hellos, Connect(h)
      PROVE  FedInv' /\ DagStep
  BY <1>8, ConnectKeeps
<1>9. ASSUME NEW h \in Hellos, LinkToParent(h)
      PROVE  FedInv' /\ DagStep
  BY <1>9, LinkKeeps
<1>10. ASSUME NEW q \in Peers, BeginPull(q)
       PROVE  FedInv' /\ DagStep
  BY <1>10, BeginPullKeeps
<1>11. ASSUME NEW i \in DOMAIN peers, NEW frame, Deliver(i, frame)
       PROVE  FedInv' /\ DagStep
  BY <1>11, DeliverKeeps
<1>12. ASSUME NEW i \in DOMAIN peers, Hangup(i)
       PROVE  FedInv' /\ DagStep
  BY <1>12, HangupKeeps
<1>14. CASE Poll \/ TickPoll \/ FinishPull \/ Restart
  BY <1>14, PollKeeps, TickPollKeeps, FinishPullKeeps, RestartKeeps
<1> QED BY <1>4, <1>5, <1>6, <1>7, <1>8, <1>9, <1>10, <1>11, <1>12, <1>14 DEF FedNext

LEMMA FedStarts ==
    ASSUME FedInit
    PROVE  FedInv
<1>1. <<>> \in Seq(Conns) /\ DOMAIN <<>> = {} /\ Len(<<>>) = 0
  OBVIOUS
<1>2. IsLog(<<>>) /\ AllTame(peers)
  BY <1>1, SeqIsLog DEF FedInit, AllTame
<1> QED BY <1>1, <1>2 DEF FedInit, FedInv

\* In every behaviour of the federation the invariant holds.
LEMMA FederationInvariant == FedSpec => []FedInv
<1>1. FedInit => FedInv
  BY FedStarts
<1>2. FedInv /\ [FedNext]_fedVars => FedInv'
  <2>1. CASE FedNext
    BY <2>1, FedSteps
  <2>2. CASE UNCHANGED fedVars
    BY <2>2 DEF fedVars, FedInv
  <2> QED BY <2>1, <2>2
<1> QED BY <1>1, <1>2, PTL DEF FedSpec

\* Whatever connections came, were refused, dropped or lost in a restart, and whatever
\* saves failed, the id and the key of an established connection are pinned in the
\* DAG, but for the connection a refused link to the parent leaves.
THEOREM SessionsPinned == FedSpec => []SessionsArePinned
<1>1. FedInv => SessionsArePinned
  <2> SUFFICES ASSUME FedInv, NEW j \in DOMAIN peers, Known(peers[j])
               PROVE  \E i \in Events("pinned") : dag[i] = Pin(peers[j].id, peers[j].key)
    BY DEF SessionsArePinned, Known
  <2>1. PICK i \in DOMAIN dag : dag[i] = Pin(peers[j].id, peers[j].key)
    BY DEF FedInv, Bound
  <2>2. dag[i].t = "pinned"
    BY <2>1 DEF Pin
  <2> QED BY <2>1, <2>2 DEF Events
<1> QED BY <1>1, FederationInvariant, PTL

\* Whatever connection answered a pull, late or with whatever batch, and whatever a
\* restart keeps of the DAG, the events wrapped for a peer follow a pin of that peer,
\* but for the peer a refused link to the parent leaves connected.
THEOREM WrapsFollow == FedSpec => []WrapsFollowPins
<1>1. FedInv => WrapsFollowPins
  <2> SUFFICES ASSUME FedInv, NEW i \in Events("received"), Parent \in {None, dag[i].from}
               PROVE  \E j \in Events("pinned") : j < i /\ dag[j].id = dag[i].from
    BY DEF WrapsFollowPins
  <2>1. i \in DOMAIN dag /\ dag[i].t = "received"
    BY DEF Events
  <2>2. Introduced(dag, i)
    BY <2>1 DEF FedInv
  <2> QED BY <2>1, <2>2 DEF Introduced, Events
<1> QED BY <1>1, FederationInvariant, PTL

-----------------------------------------------------------------------------
(* Who is left after both passes. *)

\* Both steps of a connection, when the first keeps it.
Greeted(e) == HelloStep(e)
Served(e) == EstablishedStep(Greeted(e).peer)
Survives(e) == Greeted(e).keep /\ Served(e).keep

\* The m connections left are those of all that survive, each once, in the order o.
Ordered(all, n, after, m, o) ==
    /\ m \in Nat /\ after = [j \in 1 .. m |-> after[j]]
    /\ \A j \in 1 .. m : o[j] \in 1 .. n /\ Survives(all[o[j]]) /\ after[j] = Served(all[o[j]]).peer
    /\ \A j, k \in 1 .. m : o[j] = o[k] => j = k
    /\ \A i \in 1 .. n : Survives(all[i]) => \E j \in 1 .. m : o[j] = i

LEMMA ProgressOrder ==
    ASSUME AllTame(peers), backlog \in Nat, ~Quiescent
    PROVE  \E m, o : Ordered(Everyone, Len(Everyone), Progress.peers, m, o)
<1> DEFINE n == Len(Everyone)
           met == Swept(Greeting)
           left == Swept(Serving)
<1>1. /\ n \in Nat /\ DOMAIN Everyone = 1 .. n
      /\ \A i \in 1 .. n : Everyone[i] \in Conns /\ Tame(Everyone[i])
  <2>1. Everyone \in Seq(Conns) /\ \A i \in DOMAIN Everyone : Tame(Everyone[i])
    BY EveryoneIs DEF AllTame
  <2> QED BY <2>1
<1> HIDE DEF n
<1>2. Greeting = [i \in 1 .. n |-> Greeted(Everyone[i])]
  BY <1>1 DEF Greeting, Greeted
<1>3. \A i \in 1 .. n : /\ Greeted(Everyone[i]).keep \in BOOLEAN
                        /\ Greeted(Everyone[i]).peer \in Conns
                        /\ Tame(Greeted(Everyone[i]).peer)
  BY <1>1, HelloKeeps DEF Greeted
<1>4. /\ Greeting = [i \in 1 .. n |-> Greeting[i]]
      /\ \A i \in 1 .. n : Greeting[i] = Greeted(Everyone[i])
  BY <1>2
<1>5. PICK l, at : SweptBy(Greeting, n, 1, met, l, at)
  <2>1. \A i \in 1 .. n : Greeting[i].keep \in BOOLEAN
    BY <1>3, <1>4
  <2> QED BY <1>1, <1>4, <2>1, SweepIs
<1> HIDE DEF met
<1>6. /\ l \in Nat /\ met = [j \in 1 .. l |-> Greeting[at[j]].peer]
      /\ \A j \in 1 .. l : at[j] \in 1 .. n /\ Greeting[at[j]].keep
      /\ \A j, k \in 1 .. l : at[j] = at[k] => j = k
      /\ \A i \in 1 .. n : Greeting[i].keep => \E j \in 1 .. l : at[j] = i
  BY <1>5 DEF SweptBy, Left
<1>7. /\ DOMAIN met = 1 .. l
      /\ \A j \in 1 .. l : /\ met[j] = Greeted(Everyone[at[j]]).peer
                           /\ Greeted(Everyone[at[j]]).keep
  BY <1>4, <1>6
<1>8. Serving = [j \in 1 .. l |-> EstablishedStep(met[j])]
  BY <1>7 DEF Serving, met
<1>9. /\ Serving = [j \in 1 .. l |-> Serving[j]]
      /\ \A j \in 1 .. l : Serving[j] = Served(Everyone[at[j]])
  BY <1>7, <1>8 DEF Served
<1>10. \A j \in 1 .. l : Serving[j].keep \in BOOLEAN
  <2>1. \A j \in 1 .. l : met[j] \in Conns /\ Tame(met[j])
    BY <1>3, <1>6, <1>7
  <2> QED BY <1>8, <2>1, EstablishedKeeps
<1>11. PICK m, to : SweptBy(Serving, l, 1, left, m, to)
  BY <1>6, <1>9, <1>10, SweepIs
<1>12. Progress.peers = left
  BY ProgressIs
<1> HIDE DEF left
<1>13. /\ m \in Nat /\ left = [j \in 1 .. m |-> Serving[to[j]].peer]
       /\ \A j \in 1 .. m : to[j] \in 1 .. l /\ Serving[to[j]].keep
       /\ \A j, k \in 1 .. m : to[j] = to[k] => j = k
       /\ \A i \in 1 .. l : Serving[i].keep => \E j \in 1 .. m : to[j] = i
  BY <1>11 DEF SweptBy, Left
<1> DEFINE o == [j \in 1 .. m |-> at[to[j]]]
<1>14. \A j \in 1 .. m : o[j] = at[to[j]]
  OBVIOUS
<1> HIDE DEF o
<1>15. ASSUME NEW j \in 1 .. m
       PROVE  o[j] \in 1 .. n /\ Survives(Everyone[o[j]]) /\ left[j] = Served(Everyone[o[j]]).peer
  <2>1. to[j] \in 1 .. l /\ Serving[to[j]].keep /\ left[j] = Serving[to[j]].peer
    BY <1>13
  <2>2. Serving[to[j]] = Served(Everyone[o[j]])
    BY <1>9, <1>14, <2>1
  <2>3. Greeted(Everyone[o[j]]).keep /\ o[j] \in 1 .. n
    BY <1>6, <1>7, <1>14, <2>1
  <2> QED BY <2>1, <2>2, <2>3 DEF Survives
<1>16. ASSUME NEW j \in 1 .. m, NEW k \in 1 .. m, o[j] = o[k]
       PROVE  j = k
  <2>1. at[to[j]] = at[to[k]] /\ to[j] \in 1 .. l /\ to[k] \in 1 .. l
    BY <1>13, <1>14, <1>16
  <2>2. to[j] = to[k]
    BY <1>6, <2>1
  <2> QED BY <1>13, <2>2
<1>17. ASSUME NEW i \in 1 .. n, Survives(Everyone[i])
       PROVE  \E j \in 1 .. m : o[j] = i
  <2>1. PICK k \in 1 .. l : at[k] = i
    BY <1>4, <1>6, <1>17 DEF Survives
  <2>2. Serving[k].keep
    BY <1>9, <1>17, <2>1 DEF Survives
  <2>3. PICK j \in 1 .. m : to[j] = k
    BY <1>13, <2>2
  <2> QED BY <1>14, <2>1, <2>3
<1>18. left = [j \in 1 .. m |-> left[j]]
  BY <1>13
<1>19. Ordered(Everyone, n, left, m, o)
  BY <1>13, <1>15, <1>16, <1>17, <1>18 DEF Ordered
<1> QED BY <1>12, <1>19 DEF n

\* A connection with nothing to read goes through both passes as it is.
LEMMA QuietSurvives ==
    ASSUME NEW p, p.wire = <<>>
    PROVE  Survives(p) /\ Served(p).peer = p
<1>1. Kept(p).keep = TRUE /\ Kept(p).peer = p
  BY DEF Kept
<1>2. Greeted(p) = Kept(p)
  BY DEF Greeted, HelloStep
<1>3. Served(p) = Kept(p)
  BY <1>1, <1>2 DEF Served, EstablishedStep
<1> QED BY <1>1, <1>2, <1>3 DEF Survives

\* A frame that a pass may leave in front, broken.
Spare(w) == \E j \in DOMAIN w : w[j] = Slow \/ (j > 1 /\ w[j] = Broken)

\* What the first read leaves of a wire.
LEMMA ReadLeaves ==
    ASSUME NEW w \in Seq(Frames), w # <<>>
    PROVE  /\ Head(w) = Slow => Spare(w)
           /\ Tail(w) # <<>> /\ Head(Tail(w)) = Broken => Spare(w)
           /\ Spare(Tail(w)) => Spare(w)
<1> DEFINE t == Tail(w)
<1>1. /\ Len(w) \in Nat \ {0} /\ DOMAIN w = 1 .. Len(w) /\ Head(w) = w[1]
      /\ t \in Seq(Frames) /\ Len(t) = Len(w) - 1 /\ DOMAIN t = 1 .. Len(w) - 1
      /\ \A j \in DOMAIN t : t[j] = w[j + 1]
  OBVIOUS
<1>2. t # <<>> => Head(t) = t[1] /\ 1 \in DOMAIN t
  BY <1>1
<1> HIDE DEF t
<1>3. 1 \in DOMAIN w /\ \A j \in DOMAIN t : j + 1 \in DOMAIN w /\ j + 1 > 1 /\ t[j] = w[j + 1]
  BY <1>1
<1>4. Head(w) = Slow => Spare(w)
  BY <1>1, <1>3 DEF Spare
<1>5. t # <<>> /\ Head(t) = Broken => Spare(w)
  <2> SUFFICES ASSUME t # <<>>, Head(t) = Broken PROVE Spare(w)
    OBVIOUS
  <2>1. 1 + 1 \in DOMAIN w /\ 1 + 1 > 1 /\ w[1 + 1] = Broken
    BY <1>2, <1>3
  <2> QED BY <2>1 DEF Spare
<1>6. Spare(t) => Spare(w)
  <2> SUFFICES ASSUME NEW j \in DOMAIN t, t[j] = Slow \/ t[j] = Broken PROVE Spare(w)
    BY DEF Spare
  <2> QED BY <1>3 DEF Spare
<1> QED BY <1>4, <1>5, <1>6 DEF t

\* A connection that both passes keep has a broken frame in front only when one was
\* spared.
LEMMA BrokenWasSpared ==
    ASSUME NEW p \in Conns, Tame(p), Survives(p),
           Served(p).peer.wire # <<>>, Head(Served(p).peer.wire) = Broken
    PROVE  Spare(p.wire)
<1> DEFINE q == Greeted(p).peer
           r == Served(p).peer
           h == Head(p.wire)
           frame == Head(q.wire)
<1>1. q \in Conns /\ Tame(q)
  BY HelloKeeps DEF Greeted
<1>2. p.wire \in Seq(Frames) /\ q.wire \in Seq(Frames)
  BY <1>1, ConnFields
<1>3. p.st \in {"awaiting_hello", "established"} /\ q.st \in {"awaiting_hello", "established"}
  BY <1>1, ConnFields
<1>4. /\ \A x : Kept(x).keep = TRUE /\ Kept(x).peer = x
      /\ \A x : Dropped(x).keep = FALSE
  BY DEF Kept, Dropped
<1>5. \/ q = p /\ (p.st # "awaiting_hello" \/ p.wire = <<>>)
      \/ p.wire # <<>> /\ h = Slow
      \/ p.wire # <<>> /\ q.st = "established" /\ q.wire = Tail(p.wire)
  <2> DEFINE c == Consumed(p)
             d == [c EXCEPT !.st = "established", !.id = h.id, !.key = PinnedKey(h)]
             s == [Kept(d) EXCEPT !.pins = <<Pin(h.id, PinnedKey(h))>>, !.event = TRUE]
  <2>1. \/ (p.st # "awaiting_hello" \/ p.wire = <<>>) /\ Greeted(p) = Kept(p)
        \/ p.wire # <<>> /\ h = Slow
        \/ Greeted(p) = Dropped(p)
        \/ p.wire # <<>> /\ Greeted(p) = s
    BY DEF Greeted, HelloStep
  <2>2. CASE p.wire # <<>> /\ Greeted(p) = s
    <3>1. c \in Conns /\ c.wire = Tail(p.wire)
      BY <2>2, ReadKeeps
    <3> HIDE DEF c, h
    <3>2. d.st = "established" /\ d.wire = c.wire
      BY <3>1 DEF Conns
    <3> HIDE DEF d
    <3>3. s.peer = d
      BY DEF Kept
    <3> HIDE DEF s
    <3> QED BY <2>2, <3>1, <3>2, <3>3
  <2> HIDE DEF s, h
  <2> QED BY <1>4, <2>1, <2>2 DEF Survives
<1>6. \/ r = q /\ (q.st # "established" \/ q.wire = <<>>)
      \/ q.wire # <<>> /\ frame = Slow
      \/ q.wire # <<>> /\ r.wire = Tail(q.wire)
  <2> DEFINE c == Consumed(q)
             s == [Kept(c) EXCEPT !.event = (frame = Request)]
  <2>1. \/ (q.st # "established" \/ q.wire = <<>>) /\ Served(p) = Kept(q)
        \/ q.wire # <<>> /\ frame = Slow
        \/ Served(p) = Dropped(q)
        \/ q.wire # <<>> /\ Served(p) = s
    BY DEF Served, EstablishedStep
  <2>2. CASE q.wire # <<>> /\ Served(p) = s
    <3>1. c.wire = Tail(q.wire)
      BY <1>1, <2>2, ReadKeeps
    <3> HIDE DEF c, frame
    <3>2. s.peer = c
      BY DEF Kept
    <3> HIDE DEF s
    <3> QED BY <2>2, <3>1, <3>2
  <2> HIDE DEF s, frame
  <2> QED BY <1>4, <2>1, <2>2 DEF Survives
<1> HIDE DEF q, r, h, frame
<1>7. r.wire # <<>> /\ Head(r.wire) = Broken
  BY DEF r
<1>8. Spare(q.wire) => Spare(p.wire)
  BY <1>2, <1>5, ReadLeaves DEF h
<1>9. CASE r = q /\ (q.st # "established" \/ q.wire = <<>>)
  BY <1>2, <1>3, <1>5, <1>7, <1>9, ReadLeaves DEF h
<1>10. CASE q.wire # <<>> /\ (frame = Slow \/ r.wire = Tail(q.wire))
  BY <1>2, <1>7, <1>8, <1>10, ReadLeaves DEF frame
<1> QED BY <1>6, <1>9, <1>10

\* Counting places: an injection given place by place.
LEMMA Fewer ==
    ASSUME NEW n \in Nat, NEW m \in Nat, NEW A \in SUBSET (1 .. n), NEW B \in SUBSET (1 .. m),
           NEW o, \A i \in A : o[i] \in B, \A i, k \in A : o[i] = o[k] => i = k
    PROVE  Cardinality(A) <= Cardinality(B)
<1> DEFINE f == [i \in A |-> o[i]]
<1>1. IsFiniteSet(B)
  <2>1. IsFiniteSet(1 .. m)
    BY FS_Interval
  <2> QED BY <2>1, FS_Subset
<1>2. f \in Injection(A, B)
  BY DEF Injection, IsInjective
<1> QED BY <1>1, <1>2, FS_Injection

\* The other way round: every place of A is named by one of B.
LEMMA NoMore ==
    ASSUME NEW n \in Nat, NEW m \in Nat, NEW A \in SUBSET (1 .. n), NEW B \in SUBSET (1 .. m),
           NEW o, \A i \in A : \E j \in B : o[j] = i
    PROVE  Cardinality(A) <= Cardinality(B)
<1> DEFINE f == [i \in A |-> CHOOSE j \in B : o[j] = i]
<1>1. \A i \in A : f[i] \in B /\ o[f[i]] = i
  OBVIOUS
<1> HIDE DEF f
<1>2. \A i, k \in A : f[i] = f[k] => i = k
  BY <1>1
<1> QED BY <1>1, <1>2, Fewer

LEMMA FewEnough ==
    ASSUME NEW n \in Nat, NEW A \in SUBSET (1 .. n)
    PROVE  Cardinality(A) \in Nat
<1>1. IsFiniteSet(1 .. n)
  BY FS_Interval
<1>2. IsFiniteSet(A)
  BY <1>1, FS_Subset
<1> QED BY <1>2, FS_CardinalityType

LEMMA QuietStay ==
    ASSUME FedInv, NEW i \in DOMAIN peers
    PROVE  Quiet(Progress.peers, peers[i]) >= Quiet(peers, peers[i])
<1> DEFINE p == peers[i]
           after == Progress.peers
           n == Len(Everyone)
           A == {k \in DOMAIN peers : peers[k] = p /\ p.wire = <<>>}
           B == {j \in DOMAIN after : after[j] = p /\ p.wire = <<>>}
<1>1. /\ AllTame(peers) /\ backlog \in Nat /\ DOMAIN peers = 1 .. Len(peers)
      /\ Len(peers) \in Nat
  BY DEF FedInv, AllTame
<1>2. CASE Quiescent
  <2>1. after = peers
    BY <1>2, ProgressIs
  <2>2. Quiet(peers, p) \in Nat
    BY <1>1, FewEnough DEF Quiet
  <2> HIDE DEF after
  <2> QED BY <2>1, <2>2 DEF after
<1>3. CASE ~Quiescent
  <2>1. PICK m, o : Ordered(Everyone, n, after, m, o)
    BY <1>1, <1>3, ProgressOrder
  <2> HIDE DEF after, p
  <2>2. /\ n \in Nat /\ \A k \in 1 .. Len(peers) : k \in 1 .. n /\ Everyone[k] = peers[k]
    BY <1>1, EveryoneIs
  <2> HIDE DEF n
  <2>3. /\ m \in Nat /\ DOMAIN after = 1 .. m
        /\ \A j \in 1 .. m : after[j] = Served(Everyone[o[j]]).peer
        /\ \A k \in 1 .. n : Survives(Everyone[k]) => \E j \in 1 .. m : o[j] = k
    BY <2>1 DEF Ordered
  <2>4. ASSUME NEW k \in A
        PROVE  \E j \in B : o[j] = k
    <3>1. k \in 1 .. n /\ Everyone[k] = p /\ p.wire = <<>>
      BY <1>1, <2>2
    <3>2. Survives(p) /\ Served(p).peer = p
      BY <3>1, QuietSurvives
    <3>3. PICK j \in 1 .. m : o[j] = k
      BY <2>3, <3>1, <3>2
    <3> QED BY <2>3, <3>1, <3>2, <3>3
  <2>5. A \in SUBSET (1 .. Len(peers)) /\ B \in SUBSET (1 .. m)
    BY <1>1, <2>3
  <2> HIDE DEF A, B
  <2>6. Cardinality(A) <= Cardinality(B)
    BY <1>1, <2>3, <2>4, <2>5, NoMore
  <2>7. Cardinality(A) \in Nat /\ Cardinality(B) \in Nat
    BY <1>1, <2>3, <2>5, FewEnough
  <2>8. Quiet(peers, p) = Cardinality(A) /\ Quiet(after, p) = Cardinality(B)
    BY DEF Quiet, A, B
  <2> QED BY <2>6, <2>7, <2>8 DEF p, after
<1> QED BY <1>2, <1>3

LEMMA FailingWereSpared ==
    ASSUME FedInv
    PROVE  Cardinality(Failing(Progress.peers)) <= Cardinality(Spared(peers))
<1> DEFINE after == Progress.peers
           n == Len(Everyone)
<1>1. /\ AllTame(peers) /\ backlog \in Nat /\ DOMAIN peers = 1 .. Len(peers)
      /\ Len(peers) \in Nat
  BY DEF FedInv, AllTame
<1>2. Spared(peers) \in SUBSET (1 .. Len(peers))
  BY <1>1 DEF Spared
<1>3. CASE Quiescent
  <2>1. Failing(after) = {}
    BY <1>3, ProgressIs DEF Failing, Quiescent
  <2>2. Cardinality({}) = 0
    BY FS_EmptySet
  <2>3. Cardinality(Spared(peers)) \in Nat
    BY <1>1, <1>2, FewEnough
  <2> HIDE DEF after
  <2> QED BY <2>1, <2>2, <2>3 DEF after
<1>4. CASE ~Quiescent
  <2>1. PICK m, o : Ordered(Everyone, n, after, m, o)
    BY <1>1, <1>4, ProgressOrder
  <2> HIDE DEF after
  <2>2. /\ DOMAIN Everyone = 1 .. n /\ n = Len(peers) + backlog /\ n \in Nat
        /\ \A k \in 1 .. n : Everyone[k] \in Conns /\ Tame(Everyone[k])
        /\ \A k \in 1 .. Len(peers) : Everyone[k] = peers[k]
        /\ \A k \in Len(peers) + 1 .. n : Everyone[k].wire = <<>>
    <3>1. /\ AllTame(Everyone) /\ n = Len(peers) + backlog /\ DOMAIN Everyone = 1 .. n
          /\ \A k \in 1 .. Len(peers) : Everyone[k] = peers[k]
          /\ \A k \in Len(peers) + 1 .. n : Everyone[k] = Accepted
      BY <1>1, EveryoneIs
    <3>2. \A k \in 1 .. n : Everyone[k] \in Conns /\ Tame(Everyone[k])
      BY <3>1 DEF AllTame
    <3>3. n \in Nat
      BY <1>1, <3>1
    <3> HIDE DEF n
    <3> QED BY <3>1, <3>2, <3>3, AcceptedIs
  <2> HIDE DEF n
  <2>3. /\ m \in Nat /\ DOMAIN after = 1 .. m
        /\ \A j \in 1 .. m : /\ o[j] \in 1 .. n /\ Survives(Everyone[o[j]])
                             /\ after[j] = Served(Everyone[o[j]]).peer
        /\ \A j, k \in 1 .. m : o[j] = o[k] => j = k
    BY <2>1 DEF Ordered
  <2>4. Failing(after) \in SUBSET (1 .. m)
    BY <2>3 DEF Failing
  <2>5. ASSUME NEW j \in Failing(after)
        PROVE  o[j] \in Spared(peers)
    <3> DEFINE k == o[j]
               p == Everyone[k]
    <3>1. j \in 1 .. m /\ after[j].wire # <<>> /\ Head(after[j].wire) = Broken
      BY <2>3 DEF Failing
    <3>2. k \in 1 .. n /\ Survives(p) /\ after[j] = Served(p).peer
      BY <2>3, <3>1
    <3>3. p \in Conns /\ Tame(p)
      BY <2>2, <3>2
    <3> HIDE DEF k, p
    <3>4. Spare(p.wire)
      BY <3>1, <3>2, <3>3, BrokenWasSpared
    <3>5. k \in Len(peers) + 1 .. n \/ k \in 1 .. Len(peers)
      BY <1>1, <2>2, <3>2
    <3>6. DOMAIN <<>> = {}
      OBVIOUS
    <3>7. k \in 1 .. Len(peers) /\ peers[k] = p
      BY <2>2, <3>4, <3>5, <3>6 DEF Spare, p
    <3>8. k \in Spared(peers)
      BY <1>1, <3>4, <3>7 DEF Spare, Spared
    <3> QED BY <3>8 DEF k
  <2>6. \A j, k \in Failing(after) : o[j] = o[k] => j = k
    BY <2>3, <2>4
  <2>7. Cardinality(Failing(after)) <= Cardinality(Spared(peers))
    BY <1>1, <1>2, <2>3, <2>4, <2>5, <2>6, Fewer
  <2> QED BY <2>7 DEF after
<1> QED BY <1>3, <1>4

\* A sweep closes the connections that failed in that pass and no other: those with
\* nothing to read stay, and no more connections are left with a broken frame in front
\* than had one, or a late one, further back.
THEOREM SweepsExact == FedSpec => []SweepIsExact
<1>1. FedInv => SweepIsExact
  BY QuietStay, FailingWereSpared DEF SweepIsExact
<1> QED BY <1>1, FederationInvariant, PTL

-----------------------------------------------------------------------------
(* PopulationConsensus: votes and certificates in a log. *)

LEMMA AppendIs ==
    ASSUME NEW d, IsLog(d), NEW e
    PROVE  /\ IsLog(Append(d, e)) /\ Len(d) \in Nat /\ DOMAIN d = 1 .. Len(d)
           /\ Len(Append(d, e)) = Len(d) + 1 /\ DOMAIN Append(d, e) = 1 .. Len(d) + 1
           /\ \A i \in 1 .. Len(d) : Append(d, e)[i] = d[i]
           /\ Append(d, e)[Len(d) + 1] = e
<1> DEFINE A == {d[i] : i \in 1 .. Len(d)}
           S == A \cup {e}
           w == Append(d, e)
<1>1. d \in Seq(A) /\ DOMAIN d = 1 .. Len(d) /\ Len(d) \in Nat
  BY LogIsSeq DEF IsLog
<1> HIDE DEF A
<1>2. d \in Seq(S) /\ e \in S
  BY <1>1
<1> HIDE DEF S
<1>3. /\ w \in Seq(S) /\ Len(w) = Len(d) + 1 /\ w[Len(d) + 1] = e
      /\ \A i \in 1 .. Len(d) : w[i] = d[i]
  BY <1>1, <1>2
<1>4. DOMAIN w = 1 .. Len(d) + 1
  BY <1>1, <1>3
<1>5. IsLog(w)
  BY <1>3, SeqIsLog
<1> QED BY <1>1, <1>3, <1>4, <1>5

\* VoteOncePerRound and CertsRestOnPins, of any log.
OnceIn(d) ==
    \A i, j \in DOMAIN d :
        (/\ d[i].t = "vote" /\ d[j].t = "vote" /\ d[i].vote.claim = d[j].vote.claim
         /\ d[i].vote.round = d[j].vote.round /\ d[i].vote.voter = d[j].vote.voter)
            => i = j
RestsOn(v, d, i) ==
    \/ v.voter = Self /\ v.key = OwnKey
    \/ v.voter \notin Revoked /\ \E j \in DOMAIN d : j < i /\ d[j] = Pin(v.voter, v.key)
RestIn(d) == \A i \in DOMAIN d : d[i].t = "cert" => \A v \in d[i].cert.votes : RestsOn(v, d, i)

\* A log whose votes were cast, once each, and whose certificates rest on its pins.
Sound(d, signed) ==
    /\ IsLog(d)
    /\ \A i \in DOMAIN d : /\ d[i].t = "pinned" => d[i] \in PinEvents
                           /\ d[i].t = "vote" => d[i].vote \in signed
    /\ OnceIn(d)
    /\ RestIn(d)

LEMMA SoundMeans ==
    ASSUME NEW signed, Sound(dag, signed)
    PROVE  VoteOncePerRound /\ CertsRestOnPins
<1>1. VoteOncePerRound
  BY DEF Sound, OnceIn, VoteOncePerRound, Events
<1>2. CertsRestOnPins
  <2> SUFFICES ASSUME NEW i \in Events("cert"), NEW v \in dag[i].cert.votes
               PROVE  \/ v.voter = Self /\ v.key = OwnKey
                      \/ /\ v.voter \notin Revoked
                         /\ \E j \in Events("pinned") : j < i /\ dag[j] = Pin(v.voter, v.key)
    BY DEF CertsRestOnPins
  <2>1. RestsOn(v, dag, i)
    BY DEF Sound, RestIn, Events
  <2>2. \A j \in DOMAIN dag : dag[j] = Pin(v.voter, v.key) => j \in Events("pinned")
    BY DEF Pin, Events
  <2> QED BY <2>1, <2>2 DEF RestsOn
<1> QED BY <1>1, <1>2

\* What the federation records is neither a vote nor a certificate.
LEMMA FedEventsKeepSound ==
    ASSUME NEW d, NEW signed, Sound(d, signed), NEW ev, IsLog(ev),
           \A m \in DOMAIN ev : /\ ev[m].t \in FedEvents
                                /\ ev[m].t = "pinned" => ev[m] \in PinEvents
    PROVE  Sound(d \o ev, signed) /\ CertsIn(d \o ev) \subseteq CertsIn(d)
<1> DEFINE w == d \o ev
<1>1. Extended(d, ev, w)
  BY LogsExtend DEF Sound
<1> HIDE DEF w
<1>2. /\ IsLog(w) /\ Len(d) \in Nat /\ DOMAIN d = 1 .. Len(d)
      /\ \A i \in DOMAIN d : i \in DOMAIN w /\ w[i] = d[i]
  BY <1>1 DEF Extended
<1>3. \A i \in DOMAIN w : \/ i \in DOMAIN d /\ w[i] = d[i]
                          \/ w[i].t \in FedEvents /\ (w[i].t = "pinned" => w[i] \in PinEvents)
  BY <1>1 DEF Extended
<1>4. "vote" \notin FedEvents /\ "cert" \notin FedEvents
  BY DEF FedEvents
<1>5. \A i \in DOMAIN w : /\ w[i].t = "pinned" => w[i] \in PinEvents
                          /\ w[i].t = "vote" => w[i].vote \in signed
  BY <1>3, <1>4 DEF Sound
<1>6. OnceIn(w)
  BY <1>3, <1>4 DEF Sound, OnceIn
<1>7. RestIn(w)
  BY <1>2, <1>3, <1>4 DEF Sound, RestIn, RestsOn
<1>8. CertsIn(w) \subseteq CertsIn(d)
  BY <1>3, <1>4 DEF CertsIn
<1>9. Sound(w, signed)
  BY <1>2, <1>5, <1>6, <1>7 DEF Sound
<1> QED BY <1>8, <1>9 DEF w

\* A pin that a certificate rests on is older, and in the same prefix of the log.
LEMMA PrefixKeepsSound ==
    ASSUME NEW d, NEW signed, Sound(d, signed), NEW n \in Nat, n <= Len(d)
    PROVE  Sound(SubSeq(d, 1, n), signed) /\ CertsIn(SubSeq(d, 1, n)) \subseteq CertsIn(d)
<1> DEFINE w == SubSeq(d, 1, n)
<1>1. /\ IsLog(w) /\ DOMAIN w = 1 .. n /\ 1 .. n \subseteq DOMAIN d
      /\ \A i \in 1 .. n : w[i] = d[i]
  BY PrefixIs DEF Sound
<1>2. DOMAIN d = 1 .. Len(d) /\ Len(d) \in Nat
  BY LogIsSeq DEF Sound, IsLog
<1> HIDE DEF w
<1>3. \A i \in DOMAIN w : /\ w[i].t = "pinned" => w[i] \in PinEvents
                          /\ w[i].t = "vote" => w[i].vote \in signed
  BY <1>1 DEF Sound
<1>4. OnceIn(w)
  BY <1>1 DEF Sound, OnceIn
<1>5. RestIn(w)
  <2> SUFFICES ASSUME NEW i \in DOMAIN w, w[i].t = "cert", NEW v \in w[i].cert.votes
               PROVE  RestsOn(v, w, i)
    BY DEF RestIn
  <2>1. RestsOn(v, d, i)
    BY <1>1 DEF Sound, RestIn
  <2>2. \A j \in DOMAIN d : j < i => j \in DOMAIN w /\ w[j] = d[j]
    BY <1>1, <1>2
  <2> QED BY <2>1, <2>2 DEF RestsOn
<1>6. CertsIn(w) \subseteq CertsIn(d)
  BY <1>1 DEF CertsIn
<1>7. Sound(w, signed)
  BY <1>1, <1>3, <1>4, <1>5 DEF Sound
<1> QED BY <1>6, <1>7 DEF w

LEMMA VoteKeepsSound ==
    ASSUME NEW d, NEW signed, Sound(d, signed), NEW v \in signed,
           \A i \in DOMAIN d : d[i].t = "vote" =>
               ~(/\ d[i].vote.claim = v.claim /\ d[i].vote.round = v.round
                 /\ d[i].vote.voter = v.voter)
    PROVE  /\ Sound(Append(d, VoteEvent(v)), signed)
           /\ CertsIn(Append(d, VoteEvent(v))) \subseteq CertsIn(d)
<1> DEFINE e == VoteEvent(v)
           w == Append(d, e)
<1>1. e.t = "vote" /\ e.vote = v
  BY DEF VoteEvent
<1> HIDE DEF e
<1>2. /\ IsLog(w) /\ Len(d) \in Nat /\ DOMAIN d = 1 .. Len(d) /\ DOMAIN w = 1 .. Len(d) + 1
      /\ \A i \in 1 .. Len(d) : w[i] = d[i]
      /\ w[Len(d) + 1] = e
  BY AppendIs DEF Sound
<1> HIDE DEF w
<1>3. \A i \in DOMAIN w : (i \in DOMAIN d /\ w[i] = d[i]) \/ (i = Len(d) + 1 /\ w[i] = e)
  BY <1>2
<1>4. \A i \in DOMAIN d : i \in DOMAIN w /\ w[i] = d[i]
  BY <1>2
<1>5. \A i \in DOMAIN w : /\ w[i].t = "pinned" => w[i] \in PinEvents
                          /\ w[i].t = "vote" => w[i].vote \in signed
  BY <1>1, <1>3 DEF Sound
<1>6. OnceIn(w)
  BY <1>1, <1>3 DEF Sound, OnceIn
<1>7. RestIn(w)
  BY <1>1, <1>3, <1>4 DEF Sound, RestIn, RestsOn
<1>8. CertsIn(w) \subseteq CertsIn(d)
  BY <1>1, <1>3 DEF CertsIn
<1>9. Sound(w, signed)
  BY <1>2, <1>5, <1>6, <1>7 DEF Sound
<1> QED BY <1>8, <1>9 DEF w, e

LEMMA CertKeepsSound ==
    ASSUME NEW d, NEW signed, Sound(d, signed), NEW c,
           \A v \in c.votes : RestsOn(v, d, Len(d) + 1)
    PROVE  /\ Sound(Append(d, CertEvent(c)), signed)
           /\ CertsIn(Append(d, CertEvent(c))) \subseteq CertsIn(d) \cup {c}
<1> DEFINE e == CertEvent(c)
           w == Append(d, e)
<1>1. e.t = "cert" /\ e.cert = c
  BY DEF CertEvent
<1> HIDE DEF e
<1>2. /\ IsLog(w) /\ Len(d) \in Nat /\ DOMAIN d = 1 .. Len(d) /\ DOMAIN w = 1 .. Len(d) + 1
      /\ \A i \in 1 .. Len(d) : w[i] = d[i]
      /\ w[Len(d) + 1] = e
  BY AppendIs DEF Sound
<1> HIDE DEF w
<1>3. \A i \in DOMAIN w : (i \in DOMAIN d /\ w[i] = d[i]) \/ (i = Len(d) + 1 /\ w[i] = e)
  BY <1>2
<1>4. \A i \in DOMAIN d : i \in DOMAIN w /\ w[i] = d[i]
  BY <1>2
<1>5. \A i \in DOMAIN w : /\ w[i].t = "pinned" => w[i] \in PinEvents
                          /\ w[i].t = "vote" => w[i].vote \in signed
  BY <1>1, <1>3 DEF Sound
<1>6. OnceIn(w)
  BY <1>1, <1>3 DEF Sound, OnceIn
<1>7. RestIn(w)
  <2> SUFFICES ASSUME NEW i \in DOMAIN w, w[i].t = "cert", NEW v \in w[i].cert.votes
               PROVE  RestsOn(v, w, i)
    BY DEF RestIn
  <2>1. RestsOn(v, d, i)
    BY <1>1, <1>3 DEF Sound, RestIn
  <2> QED BY <1>4, <2>1 DEF RestsOn
<1>8. CertsIn(w) \subseteq CertsIn(d) \cup {c}
  BY <1>1, <1>3 DEF CertsIn
<1>9. Sound(w, signed)
  BY <1>2, <1>5, <1>6, <1>7 DEF Sound
<1> QED BY <1>8, <1>9 DEF w, e

\* The pins a vote is verified against are pins of the DAG, of peers not revoked.
LEMMA PinsAre ==
    ASSUME NEW d, NEW signed, Sound(d, signed), NEW q \in DOMAIN PinsOf(d)
    PROVE  q \notin Revoked /\ \E j \in DOMAIN d : d[j] = Pin(q, PinsOf(d)[q])
<1> DEFINE pinned == {i \in DOMAIN d : /\ d[i].t = "pinned" /\ d[i].key # None
                                       /\ d[i].id \notin Revoked}
           mine == {i \in pinned : d[i].id = q}
           last == CHOOSE i \in pinned : /\ d[i].id = q
                                         /\ \A j \in pinned : d[j].id = q => j <= i
<1>1. PinsOf(d)[q] = d[last].key /\ \E i \in pinned : d[i].id = q
  BY DEF PinsOf
<1>2. DOMAIN d = 1 .. Len(d) /\ Len(d) \in Nat
  BY LogIsSeq DEF Sound, IsLog
<1>3. mine \in SUBSET (0 .. Len(d)) /\ mine # {}
  BY <1>1, <1>2
<1>4. PICK m \in mine : \A i \in mine : i <= m
  <2> HIDE DEF mine
  <2> QED BY <1>2, <1>3, Greatest
<1>5. last \in pinned /\ d[last].id = q
  <2>1. \E i \in pinned : /\ d[i].id = q
                          /\ \A j \in pinned : d[j].id = q => j <= i
    BY <1>4
  <2> HIDE DEF pinned
  <2> QED BY <2>1
<1>6. last \in DOMAIN d /\ d[last].t = "pinned" /\ d[last].id = q /\ q \notin Revoked
  <2> HIDE DEF last
  <2> QED BY <1>5
<1> HIDE DEF last, pinned
<1>7. d[last] \in PinEvents
  BY <1>6 DEF Sound
<1>8. d[last] = Pin(d[last].id, d[last].key)
  BY <1>7 DEF PinEvents, Pin
<1> QED BY <1>1, <1>6, <1>8

-----------------------------------------------------------------------------
(* The quorum. *)

LEMMA FiniteImage ==
    ASSUME NEW A, IsFiniteSet(A), NEW f
    PROVE  IsFiniteSet({f[x] : x \in A})
<1> DEFINE B == {f[x] : x \in A}
           h == [x \in A |-> f[x]]
<1>1. h \in Surjection(A, B)
  BY DEF Surjection
<1> HIDE DEF B, h
<1>2. IsFiniteSet(B)
  BY <1>1, FS_Surjection
<1> QED BY <1>2 DEF B

\* This substrate is one of the participants, who are finitely many.
LEMMA AtLeastOne ==
    ASSUME FedInv
    PROVE  N \in Nat /\ N >= 1 /\ Threshold(N) \in Int
<1> DEFINE n == Len(peers)
           f == [i \in 1 .. n |-> peers[i].id]
           A == {f[i] : i \in 1 .. n}
           others == Ids(peers) \ Revoked
<1>1. n \in Nat /\ DOMAIN peers = 1 .. n
  BY DEF FedInv, AllTame
<1>2. IsFiniteSet(1 .. n)
  BY <1>1, FS_Interval
<1>3. IsFiniteSet(A)
  <2> HIDE DEF f
  <2> QED BY <1>2, FiniteImage
<1>4. others \subseteq A
  BY <1>1 DEF Ids
<1> HIDE DEF A
<1>5. IsFiniteSet(others)
  BY <1>3, <1>4, FS_Subset
<1> HIDE DEF others
<1>6. Participants = others \cup {Self}
  BY DEF Participants, others
<1>7. IsFiniteSet(Participants)
  BY <1>5, <1>6, FS_AddElement
<1>8. {Self} \subseteq Participants /\ Cardinality({Self}) = 1
  BY <1>6, FS_Singleton
<1>9. 1 <= Cardinality(Participants) /\ Cardinality(Participants) \in Nat
  BY <1>7, <1>8, FS_Subset, FS_CardinalityType
<1>10. N \in Nat /\ N >= 1
  BY <1>9 DEF N
<1>11. Threshold(N) \in Int
  <2> DEFINE k == N
  <2>1. k \in Nat /\ k >= 1
    BY <1>10
  <2> HIDE DEF k
  <2>2. Threshold(k) = k - (IF k = 0 THEN 0 ELSE (k - 1) \div 3)
    BY DEF Threshold, Ledger!Threshold, Ledger!Tolerated
  <2>3. (k - 1) \div 3 \in Int
    BY <2>1
  <2>4. Threshold(k) \in Int
    BY <2>1, <2>2, <2>3
  <2> QED BY <2>4 DEF k
<1> QED BY <1>10, <1>11

\* A vote that has been signed is what its claim, round, voter and key make it.
Signed(votes) ==
    \A v \in votes : v = Vote(v.claim, v.round, v.voter, v.key) /\ v.round \in 0 .. MaxRound

LEMMA VotersCounted ==
    ASSUME NEW d, IsLog(d), NEW c, NEW r
    PROVE  Cardinality(Voters(Tally(d, c, r))) \in Nat
<1> DEFINE at == {i \in DOMAIN d : d[i].t = "vote"}
           f == [i \in at |-> d[i].vote]
           all == {f[i] : i \in at}
           tally == Tally(d, c, r)
           h == [v \in tally |-> v.voter]
           who == {h[v] : v \in tally}
<1>1. IsFiniteSet(at)
  <2>1. DOMAIN d = 1 .. Len(d) /\ Len(d) \in Nat
    BY LogIsSeq DEF IsLog
  <2>2. IsFiniteSet(DOMAIN d)
    BY <2>1, FS_Interval
  <2> QED BY <2>2, FS_Subset
<1>2. IsFiniteSet(all)
  <2> HIDE DEF at, f
  <2> QED BY <1>1, FiniteImage
<1>3. tally \subseteq all
  BY DEF Tally, VotesIn
<1>4. IsFiniteSet(tally)
  <2> HIDE DEF tally, all
  <2> QED BY <1>2, <1>3, FS_Subset
<1>5. IsFiniteSet(who)
  <2> HIDE DEF tally, h
  <2> QED BY <1>4, FiniteImage
<1>6. Voters(tally) = who
  <2> HIDE DEF tally
  <2> QED BY DEF Voters, Ledger!Voters
<1> QED BY <1>5, <1>6, FS_CardinalityType

\* The ledger counts as the floor does.
LEMMA SameCount == \A S : Ledger!Cardinality(S) = Cardinality(S)
BY DEF Cardinality, Ledger!Cardinality

LEMMA BackedIs ==
    ASSUME NEW b, NEW signed, b.n > 0,
           Cardinality(Ledger!Voters(b.votes)) >= Ledger!Threshold(b.n),
           \A u \in b.votes :
               [claim |-> b.claim, round |-> b.round, voter |-> u.voter, key |-> u.key]
                  \in signed
    PROVE  Ledger!Backed(b, signed)
BY SameCount DEF Ledger!Backed

\* The certificate of a tally, and what the recheck makes of the log.
CertOf(d, c, r, payload) ==
    [claim |-> c, round |-> r, n |-> N, payload |-> payload,
     votes |-> {[voter |-> v.voter, key |-> v.key] : v \in Tally(d, c, r)}]

LEMMA RecheckKeepsSound ==
    ASSUME FedInv, NEW d, NEW signed, Sound(d, signed), Signed(signed),
           NEW c, NEW r, NEW payload
    PROVE  LET w == Rechecked(d, c, r, payload)
           IN  /\ Sound(w, signed)
               /\ w = d \/ w = Append(d, CertEvent(CertOf(d, c, r, payload)))
               /\ \A x \in CertsIn(w) \ CertsIn(d) : Ledger!Backed(Bare(x), signed)
<1> DEFINE votes == Tally(d, c, r)
           x == CertOf(d, c, r, payload)
           w == Rechecked(d, c, r, payload)
<1>1. CASE w = d
  BY <1>1
<1>2. CASE w # d
  <2>1. w = Append(d, CertEvent(x)) /\ ~(Cardinality(Voters(votes)) < Threshold(N))
    BY <1>2 DEF Rechecked, CertOf
  <2>2. /\ x.claim = c /\ x.round = r /\ x.n = N
        /\ x.votes = {[voter |-> v.voter, key |-> v.key] : v \in votes}
    BY DEF CertOf
  <2>3. IsLog(d) /\ DOMAIN d = 1 .. Len(d) /\ Len(d) \in Nat
    BY LogIsSeq DEF Sound, IsLog
  <2>4. ASSUME NEW v \in votes
        PROVE  /\ v \in signed /\ v.claim = c /\ v.round = r /\ Verifies(d, v)
    BY DEF Tally, VotesIn, Sound
  <2> HIDE DEF votes, x, w
  <2>5. ASSUME NEW u \in x.votes
        PROVE  RestsOn(u, d, Len(d) + 1)
    <3>1. PICK v \in votes : u = [voter |-> v.voter, key |-> v.key]
      BY <2>2
    <3>2. u.voter = v.voter /\ u.key = v.key /\ Verifies(d, v)
      BY <2>4, <3>1
    <3>3. CASE v.voter = Self
      BY <3>2, <3>3 DEF Verifies, RestsOn
    <3>4. CASE v.voter # Self
      <4>1. v.voter \in DOMAIN PinsOf(d) /\ PinsOf(d)[v.voter] = v.key
        BY <3>2, <3>4 DEF Verifies
      <4>2. v.voter \notin Revoked /\ \E j \in DOMAIN d : d[j] = Pin(v.voter, v.key)
        BY <4>1, PinsAre
      <4>3. \A j \in DOMAIN d : j < Len(d) + 1
        BY <2>3
      <4> QED BY <3>2, <4>2, <4>3 DEF RestsOn
    <3> QED BY <3>3, <3>4
  <2>6. Sound(w, signed) /\ CertsIn(w) \subseteq CertsIn(d) \cup {x}
    BY <2>1, <2>5, CertKeepsSound
  <2>7. Ledger!Backed(Bare(x), signed)
    <3> DEFINE b == Bare(x)
    <3>1. b.claim = c /\ b.round = r /\ b.n = N /\ b.votes = x.votes
      BY <2>2 DEF Bare
    <3> HIDE DEF b
    <3>2. Ledger!Voters(b.votes) = Voters(votes)
      <4>1. \A v \in votes : [voter |-> v.voter, key |-> v.key].voter = v.voter
        OBVIOUS
      <4>2. \A v \in votes : [voter |-> v.voter, key |-> v.key] \in x.votes
        BY <2>2
      <4>3. \A u \in x.votes : \E v \in votes : u.voter = v.voter
        BY <2>2, <4>1
      <4>4. {u.voter : u \in x.votes} \subseteq {v.voter : v \in votes}
        BY <4>3
      <4>5. {v.voter : v \in votes} \subseteq {u.voter : u \in x.votes}
        BY <4>1, <4>2
      <4>6. {u.voter : u \in x.votes} = {v.voter : v \in votes}
        BY <4>4, <4>5
      <4> QED BY <3>1, <4>6 DEF Voters, Ledger!Voters
    <3>3. Cardinality(Voters(votes)) \in Nat
      BY <2>3, VotersCounted DEF votes
    <3>4. N \in Nat /\ N >= 1 /\ Threshold(N) \in Int
      BY AtLeastOne
    <3>5. Cardinality(Ledger!Voters(b.votes)) >= Ledger!Threshold(b.n)
      <4>1. Ledger!Threshold(b.n) = Threshold(N)
        BY <3>1 DEF Threshold
      <4> QED BY <2>1, <3>2, <3>3, <3>4, <4>1
    <3>6. ASSUME NEW u \in b.votes
          PROVE  [claim |-> b.claim, round |-> b.round, voter |-> u.voter, key |-> u.key] \in signed
      <4>1. PICK v \in votes : u = [voter |-> v.voter, key |-> v.key]
        BY <2>2, <3>1
      <4>2. v \in signed /\ v.claim = c /\ v.round = r /\ u.voter = v.voter /\ u.key = v.key
        BY <2>4, <4>1
      <4>3. v = [claim |-> v.claim, round |-> v.round, voter |-> v.voter, key |-> v.key]
        BY <4>2 DEF Signed, Vote
      <4> QED BY <3>1, <4>2, <4>3
    <3>7. b.n > 0
      BY <3>1, <3>4
    <3>8. Ledger!Backed(b, signed)
      BY <3>5, <3>6, <3>7, BackedIs
    <3> QED BY <3>8 DEF b
  <2>8. \A y \in CertsIn(w) \ CertsIn(d) : Ledger!Backed(Bare(y), signed)
    BY <2>6, <2>7
  <2> QED BY <2>1, <2>6, <2>8 DEF w, x
<1> QED BY <1>1, <1>2

-----------------------------------------------------------------------------
(* The inductive invariant of the floor, and its steps. *)

PopInv ==
    /\ FedInv
    /\ Signed(cast)
    /\ Sound(dag, cast)

\* w is d with votes and certificates behind it.
Voted(d, w) ==
    /\ IsLog(w) /\ Len(d) \in Nat /\ Len(w) \in Nat /\ Len(d) <= Len(w)
    /\ \A i \in DOMAIN d : i \in DOMAIN w /\ w[i] = d[i]
    /\ \A i \in DOMAIN w : (i \in DOMAIN d /\ w[i] = d[i]) \/ w[i].t \in {"vote", "cert"}

LEMMA VotedStays ==
    ASSUME NEW d, IsLog(d)
    PROVE  Voted(d, d)
BY DEF Voted, IsLog

LEMMA VotedMore ==
    ASSUME NEW d, NEW w, Voted(d, w), NEW e, e.t \in {"vote", "cert"}
    PROVE  Voted(d, Append(w, e))
<1> DEFINE u == Append(w, e)
<1>1. /\ IsLog(u) /\ Len(w) \in Nat /\ DOMAIN w = 1 .. Len(w)
      /\ Len(u) = Len(w) + 1 /\ DOMAIN u = 1 .. Len(w) + 1
      /\ \A i \in 1 .. Len(w) : u[i] = w[i]
      /\ u[Len(w) + 1] = e
  BY AppendIs DEF Voted
<1> HIDE DEF u
<1>2. /\ Len(d) \in Nat /\ Len(d) <= Len(w)
      /\ \A i \in DOMAIN d : i \in DOMAIN w /\ w[i] = d[i]
      /\ \A i \in DOMAIN w : (i \in DOMAIN d /\ w[i] = d[i]) \/ w[i].t \in {"vote", "cert"}
  BY DEF Voted
<1>3. \A i \in DOMAIN u : (i \in DOMAIN w /\ u[i] = w[i]) \/ u[i] = e
  BY <1>1
<1>4. \A i \in DOMAIN w : i \in DOMAIN u /\ u[i] = w[i]
  BY <1>1
<1>5. Len(u) \in Nat /\ Len(d) <= Len(u)
  BY <1>1, <1>2
<1>6. \A i \in DOMAIN d : i \in DOMAIN u /\ u[i] = d[i]
  BY <1>2, <1>4
<1>7. \A i \in DOMAIN u : (i \in DOMAIN d /\ u[i] = d[i]) \/ u[i].t \in {"vote", "cert"}
  BY <1>2, <1>3
<1>8. Voted(d, u)
  BY <1>1, <1>2, <1>5, <1>6, <1>7 DEF Voted
<1> QED BY <1>8 DEF u

LEMMA VotedKeepsFed ==
    ASSUME FedInv, Voted(dag, dag'), Save,
           UNCHANGED <<backlog, peers, pulling>>
    PROVE  FedInv'
<1>1. /\ IsLog(dag') /\ Len(dag') \in Nat /\ Len(dag) <= Len(dag') /\ Len(dag) \in Nat
      /\ \A i \in DOMAIN dag : i \in DOMAIN dag' /\ dag'[i] = dag[i]
      /\ \A i \in DOMAIN dag' : \/ i \in DOMAIN dag /\ dag'[i] = dag[i]
                                \/ dag'[i].t \in {"vote", "cert"}
  BY DEF Voted
<1>2. saved' = Len(dag') \/ saved' = saved
  BY SaveIs
<1>3. saved' \in Nat /\ saved' <= Len(dag')
  BY <1>1, <1>2 DEF FedInv
<1>4. \A i \in DOMAIN peers : Bound(dag', peers[i])
  BY <1>1 DEF FedInv, Bound
<1>5. ASSUME NEW i \in DOMAIN dag'
      PROVE  (dag'[i].t = "pinned" => dag'[i] \in PinEvents) /\ Introduced(dag', i)
  <2>1. CASE i \in DOMAIN dag /\ dag'[i] = dag[i]
    <3>1. (dag[i].t = "pinned" => dag[i] \in PinEvents) /\ Introduced(dag, i)
      BY <2>1 DEF FedInv
    <3> QED BY <1>1, <2>1, <3>1 DEF Introduced
  <2>2. CASE dag'[i].t \in {"vote", "cert"}
    BY <2>2 DEF Introduced
  <2> QED BY <1>1, <2>1, <2>2
<1> QED BY <1>1, <1>3, <1>4, <1>5 DEF FedInv

LEMMA RecheckVotes ==
    ASSUME NEW d, NEW w, Voted(d, w), NEW c, NEW r, NEW payload
    PROVE  Voted(d, Rechecked(w, c, r, payload))
<1> DEFINE e == CertEvent(CertOf(w, c, r, payload))
           u == Rechecked(w, c, r, payload)
<1>1. u = w \/ u = Append(w, e)
  BY DEF Rechecked, CertOf
<1>2. e.t \in {"vote", "cert"}
  BY DEF CertEvent
<1> HIDE DEF e, u
<1>3. Voted(d, u)
  <2>1. Voted(d, Append(w, e))
    BY <1>2, VotedMore
  <2> QED BY <1>1, <2>1
<1> QED BY <1>3 DEF u

\* More signed votes only make more sound.
LEMMA SoundMore ==
    ASSUME NEW d, NEW signed, Sound(d, signed), NEW more, signed \subseteq more
    PROVE  Sound(d, more)
BY DEF Sound

\* What a new round is: no vote for the claim in it or after it.
LEMMA NewRound ==
    ASSUME NEW d, Sound(d, cast), Signed(cast), NEW c
    PROVE  /\ NextRound(d, c) \in Nat
           /\ \A i \in DOMAIN d : d[i].t = "vote" /\ d[i].vote.claim = c =>
                 d[i].vote.round # NextRound(d, c)
<1> DEFINE S == {v.round : v \in {w \in VotesIn(d) : w.claim = c}}
           best == CHOOSE r \in S : \A s \in S : s <= r
<1>1. VotesIn(d) \subseteq cast
  BY DEF VotesIn, Sound
<1>2. S \in SUBSET (0 .. MaxRound) /\ MaxRound \in Nat
  BY <1>1, ConsensusAssumption DEF Signed
<1>3. \A i \in DOMAIN d : d[i].t = "vote" /\ d[i].vote.claim = c => d[i].vote.round \in S
  BY DEF VotesIn
<1>4. NextRound(d, c) = IF S = {} THEN 0 ELSE 1 + best
  BY DEF NextRound
<1> HIDE DEF S
<1>5. CASE S = {}
  BY <1>3, <1>4, <1>5
<1>6. CASE S # {}
  <2>1. \E r \in S : \A s \in S : s <= r
    BY <1>2, <1>6, Greatest
  <2>2. best \in S /\ \A s \in S : s <= best
    BY <2>1
  <2> HIDE DEF best
  <2>3. best \in Nat /\ \A s \in S : s \in Nat /\ s # 1 + best
    BY <1>2, <2>2
  <2> QED BY <1>3, <1>4, <1>6, <2>3
<1> QED BY <1>5, <1>6

\* What a step may do to the ledger.
Allowed(signed, more, d, w) ==
    signed \subseteq more /\ \A x \in CertsIn(w) \ CertsIn(d) : Ledger!Backed(Bare(x), more)

LEMMA ProposeKeeps ==
    ASSUME PopInv, NEW c, Propose(c)
    PROVE  PopInv' /\ Allowed(cast, cast', dag, dag')
<1> DEFINE r == NextRound(dag, c)
           own == Vote(c, r, Self, OwnKey)
           d == Append(dag, VoteEvent(own))
<1>1. /\ r <= MaxRound /\ cast' = cast \cup {own} /\ dag' = Rechecked(d, c, r, TRUE) /\ Save
      /\ UNCHANGED <<listening, backlog, peers, pulling, restarts>>
  BY DEF Propose
<1>2. FedInv /\ Sound(dag, cast) /\ Signed(cast) /\ IsLog(dag)
  BY DEF PopInv, Sound
<1>3. /\ r \in Nat
      /\ \A i \in DOMAIN dag : dag[i].t = "vote" /\ dag[i].vote.claim = c => dag[i].vote.round # r
  BY <1>2, NewRound
<1> HIDE DEF r
<1>4. own.claim = c /\ own.round = r /\ own = Vote(own.claim, own.round, own.voter, own.key)
  BY DEF Vote
<1>5. VoteEvent(own).t = "vote"
  BY DEF VoteEvent
<1> HIDE DEF own
<1>6. Signed(cast')
  BY <1>1, <1>2, <1>3, <1>4, ConsensusAssumption DEF Signed
<1>7. own \in cast' /\ cast \subseteq cast'
  BY <1>1
<1>8. Sound(dag, cast')
  BY <1>2, <1>7, SoundMore
<1>9. Sound(d, cast') /\ CertsIn(d) \subseteq CertsIn(dag)
  BY <1>3, <1>4, <1>7, <1>8, VoteKeepsSound
<1>10. Voted(dag, d)
  BY <1>2, <1>5, VotedStays, VotedMore
<1> HIDE DEF d
<1>11. /\ Sound(dag', cast')
       /\ \A x \in CertsIn(dag') \ CertsIn(d) : Ledger!Backed(Bare(x), cast')
  BY <1>1, <1>2, <1>6, <1>9, RecheckKeepsSound
<1>12. Voted(dag, dag')
  BY <1>1, <1>10, RecheckVotes
<1>13. FedInv'
  BY <1>1, <1>2, <1>12, VotedKeepsFed
<1>14. Allowed(cast, cast', dag, dag')
  BY <1>7, <1>9, <1>11 DEF Allowed
<1> QED BY <1>6, <1>11, <1>13, <1>14 DEF PopInv

LEMMA SubmitVoteKeeps ==
    ASSUME PopInv, NEW v \in cast, NEW payload, SubmitVote(v, payload)
    PROVE  PopInv' /\ Allowed(cast, cast', dag, dag')
<1> DEFINE d == IF Recorded(v) THEN dag ELSE Append(dag, VoteEvent(v))
<1>1. /\ dag' = Rechecked(d, v.claim, v.round, payload) /\ Save /\ cast' = cast
      /\ UNCHANGED <<listening, backlog, peers, pulling, restarts>>
  BY DEF SubmitVote
<1>2. FedInv /\ Sound(dag, cast) /\ Signed(cast) /\ IsLog(dag)
  BY DEF PopInv, Sound
<1>3. Sound(d, cast) /\ CertsIn(d) \subseteq CertsIn(dag) /\ Voted(dag, d)
  <2>1. CASE Recorded(v)
    BY <1>2, <2>1, VotedStays
  <2>2. CASE ~Recorded(v)
    <3>1. d = Append(dag, VoteEvent(v))
      BY <2>2
    <3>2. \A i \in DOMAIN dag : dag[i].t = "vote" =>
             ~(/\ dag[i].vote.claim = v.claim /\ dag[i].vote.round = v.round
               /\ dag[i].vote.voter = v.voter)
      BY <2>2 DEF Recorded, VotesIn
    <3>3. VoteEvent(v).t = "vote"
      BY DEF VoteEvent
    <3> HIDE DEF d
    <3>4. Sound(d, cast) /\ CertsIn(d) \subseteq CertsIn(dag)
      BY <1>2, <3>1, <3>2, VoteKeepsSound
    <3>5. Voted(dag, d)
      BY <1>2, <3>1, <3>3, VotedStays, VotedMore
    <3> QED BY <3>4, <3>5
  <2> QED BY <2>1, <2>2
<1> HIDE DEF d
<1>4. /\ Sound(dag', cast')
      /\ \A x \in CertsIn(dag') \ CertsIn(d) : Ledger!Backed(Bare(x), cast')
  BY <1>1, <1>2, <1>3, RecheckKeepsSound
<1>5. Voted(dag, dag')
  BY <1>1, <1>3, RecheckVotes
<1>6. FedInv'
  BY <1>1, <1>2, <1>5, VotedKeepsFed
<1>7. Allowed(cast, cast', dag, dag')
  BY <1>1, <1>3, <1>4 DEF Allowed
<1> QED BY <1>1, <1>2, <1>4, <1>6, <1>7 DEF PopInv

LEMMA FedStepKeeps ==
    ASSUME PopInv, FedNext, UNCHANGED cast
    PROVE  PopInv' /\ Allowed(cast, cast', dag, dag')
<1>1. FedInv' /\ DagStep
  BY FedSteps DEF PopInv
<1>2. Sound(dag, cast) /\ Signed(cast)
  BY DEF PopInv
<1>3. Sound(dag', cast) /\ CertsIn(dag') \subseteq CertsIn(dag)
  <2>1. CASE dag' = SubSeq(dag, 1, saved)
    BY <1>2, <2>1, PrefixKeepsSound DEF PopInv, FedInv
  <2>2. ASSUME NEW ev, IsLog(ev), \A m \in DOMAIN ev : ev[m].t \in FedEvents, dag' = dag \o ev
        PROVE  Sound(dag', cast) /\ CertsIn(dag') \subseteq CertsIn(dag)
    <3>1. Extended(dag, ev, dag')
      BY <2>2, LogsExtend DEF PopInv, FedInv
    <3>2. \A m \in DOMAIN ev : ev[m].t = "pinned" => ev[m] \in PinEvents
      BY <1>1, <3>1 DEF Extended, FedInv
    <3> QED BY <1>2, <2>2, <3>2, FedEventsKeepSound
  <2> QED BY <1>1, <2>1, <2>2 DEF DagStep
<1>4. Allowed(cast, cast', dag, dag')
  BY <1>3 DEF Allowed
<1> QED BY <1>1, <1>2, <1>3, <1>4 DEF PopInv

LEMMA PeerVotesKeeps ==
    ASSUME PopInv, NEW c, NEW r \in 0 .. MaxRound, NEW q, NEW k,
           PeerVotes(Vote(c, r, q, k))
    PROVE  PopInv' /\ Allowed(cast, cast', dag, dag')
<1> DEFINE v == Vote(c, r, q, k)
<1>1. cast' = cast \cup {v} /\ UNCHANGED fedVars
  BY DEF PeerVotes
<1>2. v.round = r /\ v = Vote(v.claim, v.round, v.voter, v.key)
  BY DEF Vote
<1> HIDE DEF v
<1>3. FedInv /\ Sound(dag, cast) /\ Signed(cast)
  BY DEF PopInv
<1>4. Signed(cast')
  BY <1>1, <1>2, <1>3 DEF Signed
<1>5. Sound(dag', cast')
  BY <1>1, <1>3, SoundMore DEF fedVars
<1>6. FedInv'
  BY <1>1, <1>3 DEF FedInv, fedVars
<1>7. Allowed(cast, cast', dag, dag')
  BY <1>1 DEF Allowed, fedVars
<1> QED BY <1>4, <1>5, <1>6, <1>7 DEF PopInv

LEMMA PopSteps ==
    ASSUME PopInv, [PopNext]_popVars
    PROVE  PopInv' /\ Allowed(cast, cast', dag, dag')
<1>1. CASE UNCHANGED popVars
  BY <1>1 DEF popVars, PopInv, FedInv, Signed, Sound, Allowed
<1>2. CASE FedNext /\ UNCHANGED cast
  BY <1>2, FedStepKeeps
<1>3. ASSUME NEW c \in Claims, Propose(c)
      PROVE  PopInv' /\ Allowed(cast, cast', dag, dag')
  BY <1>3, ProposeKeeps
<1>4. ASSUME NEW v \in cast, NEW payload \in Payloads, SubmitVote(v, payload)
      PROVE  PopInv' /\ Allowed(cast, cast', dag, dag')
  BY <1>4, SubmitVoteKeeps
<1>5. ASSUME NEW c \in Claims, NEW r \in 0 .. MaxRound, NEW h \in Hellos,
             PeerVotes(Vote(c, r, h.id, h.key))
      PROVE  PopInv' /\ Allowed(cast, cast', dag, dag')
  BY <1>5, PeerVotesKeeps
<1> QED BY <1>1, <1>2, <1>3, <1>4, <1>5 DEF PopNext

LEMMA PopStarts ==
    ASSUME PopInit
    PROVE  PopInv
<1>1. <<>> \in Seq({}) /\ DOMAIN <<>> = {}
  OBVIOUS
<1>2. IsLog(<<>>)
  BY <1>1, SeqIsLog
<1>3. FedInv /\ dag = <<>> /\ cast = {}
  BY FedStarts DEF PopInit, FedInit
<1>4. Sound(dag, cast)
  BY <1>1, <1>2, <1>3 DEF Sound, OnceIn, RestIn
<1> QED BY <1>3, <1>4 DEF PopInv, Signed

LEMMA PopulationInvariant == PopSpec => []PopInv
<1>1. PopInit => PopInv
  BY PopStarts
<1>2. PopInv /\ [PopNext]_popVars => PopInv'
  BY PopSteps
<1> QED BY <1>1, <1>2, PTL DEF PopSpec

\* However often a vote is handed over, with whatever key, before or after a restart,
\* its voter is in the DAG once for that claim and round.
THEOREM VotesAreOnce == PopSpec => []VoteOncePerRound
<1>1. PopInv => VoteOncePerRound
  BY SoundMeans DEF PopInv
<1> QED BY <1>1, PopulationInvariant, PTL

\* Each peer voter of a certificate was pinned, earlier in the same DAG, with the key
\* it signed with, and is not revoked; a restart loses the certificate first.
THEOREM CertsRest == PopSpec => []CertsRestOnPins
<1>1. PopInv => CertsRestOnPins
  BY SoundMeans DEF PopInv
<1> QED BY <1>1, PopulationInvariant, PTL

\* The floor implements the quorum ledger: initial states map to initial states, and
\* a step adds signed votes and backed certificates, forgets some, or stutters.
THEOREM FloorRefinesLedger == PopSpec => ImplementsLedger
<1>1. PopInit => Ledger!LedgerInit
  <2> SUFFICES ASSUME PopInit PROVE Ledger!LedgerInit
    OBVIOUS
  <2>1. dag = <<>> /\ cast = {} /\ DOMAIN <<>> = {}
    BY DEF PopInit, FedInit
  <2>2. CertsIn(dag) = {}
    BY <2>1 DEF CertsIn
  <2> QED BY <2>1, <2>2 DEF Ledger!LedgerInit
<1>2. PopInv /\ [PopNext]_popVars => [Ledger!LedgerNext]_(Ledger!ledgerVars)
  <2> SUFFICES ASSUME PopInv, [PopNext]_popVars PROVE Ledger!LedgerNext
    OBVIOUS
  <2>1. Allowed(cast, cast', dag, dag')
    BY PopSteps
  <2> DEFINE C == {Bare(c) : c \in CertsIn(dag)}
             D == {Bare(c) : c \in CertsIn(dag')}
  <2>2. ASSUME NEW b \in D \ C
        PROVE  Ledger!Backed(b, cast')
    <3>1. PICK x \in CertsIn(dag') : b = Bare(x)
      OBVIOUS
    <3>2. x \notin CertsIn(dag)
      BY <2>2, <3>1
    <3> QED BY <2>1, <3>1, <3>2 DEF Allowed
  <2>3. cast \subseteq cast'
    BY <2>1 DEF Allowed
  <2> QED BY <2>2, <2>3 DEF Ledger!LedgerNext
<1> QED BY <1>1, <1>2, PopulationInvariant, PTL DEF PopSpec, ImplementsLedger, Ledger!LedgerSpec
=============================================================================
