--------------------------- MODULE PruneScanProofs ---------------------------
(***************************************************************************)
(* Proofs about PruneScan, for every interval, grace, window and bound.    *)
(*                                                                         *)
(* The model recurs over the places of the DAG: the ancestry of the tip,   *)
(* the candidates of a rule, the rules of a scan. Least, Greatest and      *)
(* Climb do the inductions, by the least place at which what is claimed    *)
(* fails, and with them ScanIs says what a whole scan does: it appends one *)
(* tombstone for each part that a rule found ripe and no earlier rule of   *)
(* this scan had buried.                                                   *)
(*                                                                         *)
(* PruneInv is inductive. Rooted: a node names earlier nodes only, its     *)
(* predecessor among its parents. Mourned: no two tombstones for a part,   *)
(* and for each of them what its rule saw in the nodes before it. Counted: *)
(* one cycle_advanced per cycle. Alarmed: no C54 is younger than the cycle *)
(* before. The memory of the cooldown is a boundary of the past, so that   *)
(* it never holds a report back, and that of the limiter a report (Spoken).*)
(***************************************************************************)
EXTENDS PruneScan, FiniteSetTheorems, SequenceTheorems, TLAPS

-----------------------------------------------------------------------------
(* Recursion over places. *)

\* The natural numbers are well ordered.
Less == {p \in Nat \X Nat : p[1] < p[2]}

LEMMA LessWellFounded == IsWellFoundedOn(Less, Nat)
<1>1. IsWellFoundedOn(OpToRel(<, Nat), Nat)
  BY NatLessThanWellFounded
<1>2. OpToRel(<, Nat) = Less
  BY DEF OpToRel, Less
<1> QED BY <1>1, <1>2

LEMMA Least ==
    ASSUME NEW S \in SUBSET Nat, S # {}
    PROVE  \E m \in S : \A n \in S : m <= n
<1>1. PICK m \in S : \A n \in S : ~(<<n, m>> \in Less)
  BY LessWellFounded, WFMin
<1>2. ASSUME NEW n \in S
      PROVE  m <= n
  <2>1. <<n, m>> \in Nat \X Nat /\ <<n, m>>[1] = n /\ <<n, m>>[2] = m
    OBVIOUS
  <2>2. ~(n < m)
    BY <1>1, <2>1 DEF Less
  <2> QED BY <2>2
<1> QED BY <1>2

\* A bounded set of numbers has a greatest one.
LEMMA Greatest ==
    ASSUME NEW n \in Nat, NEW S \in SUBSET (0 .. n), S # {}
    PROVE  \E m \in S : \A i \in S : i <= m
<1> DEFINE T == {k \in Nat : n - k \in S}
<1>1. PICK s \in S : s \in 0 .. n
  OBVIOUS
<1>2. n - s \in Nat /\ n - (n - s) = s
  BY <1>1
<1>3. T \in SUBSET Nat /\ T # {}
  BY <1>1, <1>2
<1>4. PICK m \in T : \A k \in T : m <= k
  BY <1>3, Least
<1>5. ASSUME NEW i \in S
      PROVE  i <= n - m
  <2>1. i \in 0 .. n
    OBVIOUS
  <2>2. n - i \in Nat /\ n - (n - i) = i
    BY <2>1
  <2>3. n - i \in T
    BY <2>2
  <2>4. m <= n - i /\ m \in Nat
    BY <1>4, <2>3
  <2> QED BY <2>1, <2>4
<1> QED BY <1>4, <1>5

\* What holds at the start and is inherited holds up to n.
LEMMA Climb ==
    ASSUME NEW n \in Nat, NEW Good, 0 \in Good,
           \A k \in 0 .. n - 1 : k \in Good => k + 1 \in Good
    PROVE  \A k \in 0 .. n : k \in Good
<1> SUFFICES ASSUME NEW k \in 0 .. n, k \notin Good PROVE FALSE
  OBVIOUS
<1> DEFINE Bad == {i \in 0 .. n : i \notin Good}
<1>1. PICK m \in Bad : \A i \in Bad : m <= i
  <2>1. Bad \in SUBSET Nat /\ k \in Bad
    OBVIOUS
  <2> HIDE DEF Bad
  <2> QED BY <2>1, Least
<1>2. m \in 0 .. n /\ m # 0 /\ m - 1 \in 0 .. n - 1 /\ (m - 1) + 1 = m
  BY <1>1
<1>3. m - 1 \in Good
  <2>1. m - 1 \in 0 .. n /\ ~(m <= m - 1)
    BY <1>2
  <2> QED BY <1>1, <2>1
<1> QED BY <1>1, <1>2, <1>3


-----------------------------------------------------------------------------
(* A DAG that grows. *)

IsLog(d) == Len(d) \in Nat /\ d = [i \in 1 .. Len(d) |-> d[i]]

\* e is d with younger nodes.
Extends(d, e) ==
    /\ IsLog(d) /\ IsLog(e) /\ Len(d) \in Nat /\ Len(e) \in Nat /\ Len(d) <= Len(e)
    /\ DOMAIN d = 1 .. Len(d) /\ DOMAIN e = 1 .. Len(e)
    /\ \A i \in 1 .. Len(d) : i \in 1 .. Len(e) /\ e[i] = d[i]

\* e is d with one node.
Grown(d, r, e) ==
    /\ Extends(d, e) /\ Len(e) = Len(d) + 1 /\ e[Len(d) + 1] = r
    /\ \A i \in 1 .. Len(e) : i \in 1 .. Len(d) \/ i = Len(d) + 1

LEMMA LogIsSeq ==
    ASSUME NEW d, IsLog(d)
    PROVE  d \in Seq({d[i] : i \in 1 .. Len(d)}) /\ DOMAIN d = 1 .. Len(d)
<1> DEFINE S == {d[i] : i \in 1 .. Len(d)}
           l == Len(d)
<1>1. l \in Nat /\ d = [i \in 1 .. l |-> d[i]]
  BY DEF IsLog
<1>2. \A i \in 1 .. l : d[i] \in S
  OBVIOUS
<1> HIDE DEF S, l
<1>3. d \in [1 .. l -> S] /\ DOMAIN d = 1 .. l
  BY <1>1, <1>2
<1>4. d \in Seq(S)
  BY <1>1, <1>3, SeqDef
<1> QED BY <1>3, <1>4 DEF S, l

\* What stood when the first n nodes did.
LEMMA PrefixIs ==
    ASSUME NEW d, IsLog(d), NEW n \in Nat, n <= Len(d)
    PROVE  /\ IsLog(SubSeq(d, 1, n)) /\ Len(SubSeq(d, 1, n)) = n
           /\ DOMAIN SubSeq(d, 1, n) = 1 .. n /\ 1 .. n \subseteq DOMAIN d
           /\ \A i \in 1 .. n : SubSeq(d, 1, n)[i] = d[i]
<1> DEFINE w == SubSeq(d, 1, n)
           S == {d[i] : i \in 1 .. Len(d)}
<1>1. d \in Seq(S) /\ DOMAIN d = 1 .. Len(d) /\ Len(d) \in Nat
  BY LogIsSeq DEF IsLog
<1> HIDE DEF S
<1>2. w \in Seq(S) /\ Len(w) = n /\ \A i \in 1 .. n : w[i] = d[i]
  BY <1>1
<1>3. DOMAIN w = 1 .. n /\ 1 .. n \subseteq DOMAIN d
  BY <1>1, <1>2
<1>4. IsLog(w)
  BY <1>2 DEF IsLog
<1> QED BY <1>2, <1>3, <1>4

LEMMA AppendIs ==
    ASSUME NEW d, NEW r, IsLog(d)
    PROVE  Grown(d, r, Append(d, r))
<1> DEFINE S == {d[i] : i \in 1 .. Len(d)} \cup {r}
           w == Append(d, r)
<1>1. d \in Seq(S) /\ r \in S /\ DOMAIN d = 1 .. Len(d) /\ Len(d) \in Nat
  <2> DEFINE A == {d[i] : i \in 1 .. Len(d)}
  <2>1. d \in Seq(A) /\ DOMAIN d = 1 .. Len(d)
    BY LogIsSeq
  <2>2. S = A \cup {r}
    OBVIOUS
  <2> HIDE DEF A, S
  <2> QED BY <2>1, <2>2
<1> HIDE DEF S
<1>2. /\ w \in Seq(S) /\ Len(w) = Len(d) + 1 /\ DOMAIN w = 1 .. Len(w)
      /\ w[Len(d) + 1] = r /\ \A i \in 1 .. Len(d) : w[i] = d[i]
  BY <1>1
<1> HIDE DEF w
<1>3. IsLog(w) /\ Len(w) \in Nat
  BY <1>2 DEF IsLog
<1>4. \A i \in 1 .. Len(w) : i \in 1 .. Len(d) \/ i = Len(d) + 1
  BY <1>1, <1>2
<1>5. Grown(d, r, w)
  BY <1>1, <1>2, <1>3, <1>4 DEF Grown, Extends
<1> QED BY <1>5 DEF w

LEMMA ExtendsTwice ==
    ASSUME NEW d, NEW e, NEW f, Extends(d, e), Extends(e, f)
    PROVE  Extends(d, f)
BY DEF Extends

LEMMA ExtendsItself ==
    ASSUME NEW d, IsLog(d)
    PROVE  Extends(d, d)
BY LogIsSeq DEF Extends, IsLog

-----------------------------------------------------------------------------
(* Nodes. *)

Node(kind, name, c, sups, parents, part, heir, rule) ==
    [kind |-> kind, name |-> name, cycle |-> c, supersedes |-> sups,
     parents |-> parents, part |-> part, heir |-> heir, rule |-> rule]

Fresh(kind, name, c, parents) == Node(kind, name, c, {}, parents, None, None, "none")
Plate(c, sups, parents) == Node("plate", None, c, sups, parents, None, None, "none")
Stone(rule, x, c, last) ==
    Node("tombstone", None, c, {}, {x.part} \cup {last}, x.part, x.heir, rule)

\* A node with one field changed.
LEMMA SupersedesChanges ==
    ASSUME NEW kind, NEW name, NEW c, NEW sups, NEW parents, NEW part, NEW heir, NEW rule, NEW v
    PROVE  [Node(kind, name, c, sups, parents, part, heir, rule) EXCEPT !.supersedes = v]
             = Node(kind, name, c, v, parents, part, heir, rule)
BY DEF Node

LEMMA PartChanges ==
    ASSUME NEW kind, NEW name, NEW c, NEW sups, NEW parents, NEW part, NEW heir, NEW rule, NEW v
    PROVE  [Node(kind, name, c, sups, parents, part, heir, rule) EXCEPT !.part = v]
             = Node(kind, name, c, sups, parents, v, heir, rule)
BY DEF Node

LEMMA HeirChanges ==
    ASSUME NEW kind, NEW name, NEW c, NEW sups, NEW parents, NEW part, NEW heir, NEW rule, NEW v
    PROVE  [Node(kind, name, c, sups, parents, part, heir, rule) EXCEPT !.heir = v]
             = Node(kind, name, c, sups, parents, part, v, rule)
BY DEF Node

LEMMA RuleChanges ==
    ASSUME NEW kind, NEW name, NEW c, NEW sups, NEW parents, NEW part, NEW heir, NEW rule, NEW v
    PROVE  [Node(kind, name, c, sups, parents, part, heir, rule) EXCEPT !.rule = v]
             = Node(kind, name, c, sups, parents, part, heir, v)
BY DEF Node

\* A node that is inserted speaks of the tip.
LEMMA InsertIs ==
    ASSUME NEW d, NEW kind, NEW name, NEW c, NEW parts, IsLog(d), Len(d) # 0
    PROVE  Grown(d, Fresh(kind, name, c, parts \cup {Len(d)}), Insert(d, kind, name, c, parts))
<1>1. d # <<>>
  OBVIOUS
<1>2. Insert(d, kind, name, c, parts) = Append(d, Fresh(kind, name, c, parts \cup {Len(d)}))
  BY <1>1 DEF Insert, Fresh, Node
<1> QED BY <1>2, AppendIs

LEMMA FirstIs == Grown(<<>>, Fresh("genesis", None, 0, {}), Insert(<<>>, "genesis", None, 0, {}))
<1>1. IsLog(<<>>)
  BY DEF IsLog
<1>2. Insert(<<>>, "genesis", None, 0, {}) = Append(<<>>, Fresh("genesis", None, 0, {}))
  BY DEF Insert, Fresh, Node
<1> QED BY <1>1, <1>2, AppendIs

LEMMA ForgedIs ==
    ASSUME NEW d, NEW sources, NEW sups, NEW c, IsLog(d), Len(d) # 0
    PROVE  Grown(d, Plate(c, sups, sources \cup {Len(d)}), Forged(d, sources, sups, c))
<1> DEFINE r == Insert(d, "plate", None, c, sources)[Len(d) + 1]
<1>1. r = Fresh("plate", None, c, sources \cup {Len(d)})
  BY InsertIs DEF Grown
<1> HIDE DEF r
<1>2. [r EXCEPT !.supersedes = sups] = Plate(c, sups, sources \cup {Len(d)})
  <2> DEFINE p == sources \cup {Len(d)}
             q == Node("plate", None, c, {}, p, None, None, "none")
  <2>1. [q EXCEPT !.supersedes = sups] = Node("plate", None, c, sups, p, None, None, "none")
    <3> HIDE DEF p
    <3> QED BY SupersedesChanges
  <2>2. r = q /\ Plate(c, sups, p) = Node("plate", None, c, sups, p, None, None, "none")
    BY <1>1 DEF Fresh, Plate
  <2> HIDE DEF q
  <2> QED BY <2>1, <2>2
<1>3. Forged(d, sources, sups, c) = Append(d, Plate(c, sups, sources \cup {Len(d)}))
  BY <1>2 DEF Forged, r
<1> QED BY <1>3, AppendIs

LEMMA BuryIs ==
    ASSUME NEW d, NEW rule, NEW x, NEW c, IsLog(d), Len(d) # 0
    PROVE  Grown(d, Stone(rule, x, c, Len(d)), Bury(d, rule, x, c))
<1> DEFINE r == Fresh("tombstone", None, c, {x.part} \cup {Len(d)})
           t == Insert(d, "tombstone", None, c, {x.part})
           n == Len(d) + 1
           parents == {x.part} \cup {Len(d)}
           r1 == Node("tombstone", None, c, {}, parents, x.part, None, "none")
           r2 == Node("tombstone", None, c, {}, parents, x.part, x.heir, "none")
           t1 == [t EXCEPT ![n] = r1]
           t2 == [t1 EXCEPT ![n] = r2]
           t3 == [t2 EXCEPT ![n] = Stone(rule, x, c, Len(d))]
<1>1. Grown(d, r, t)
  BY InsertIs
<1>2. Len(t) = n /\ n \in DOMAIN t /\ t[n] = r
  BY <1>1 DEF Grown, Extends
<1>3. Bury(d, rule, x, c) = t3
  <2>1. Bury(d, rule, x, c) =
        [[[t EXCEPT ![n].part = x.part] EXCEPT ![n].heir = x.heir] EXCEPT ![n].rule = rule]
    BY <1>2 DEF Bury
  <2>2. /\ [r EXCEPT !.part = x.part] = r1 /\ [r1 EXCEPT !.heir = x.heir] = r2
        /\ [r2 EXCEPT !.rule = rule] = Stone(rule, x, c, Len(d))
    <3> HIDE DEF parents
    <3>1. [r EXCEPT !.part = x.part] = r1
      <4> DEFINE q == Node("tombstone", None, c, {}, parents, None, None, "none")
      <4>1. r = q
        BY DEF Fresh, r, parents
      <4>2. [q EXCEPT !.part = x.part] = r1
        BY PartChanges DEF r1
      <4> HIDE DEF q
      <4> QED BY <4>1, <4>2
    <3>2. [r1 EXCEPT !.heir = x.heir] = r2
      BY HeirChanges DEF r1, r2
    <3>3. [r2 EXCEPT !.rule = rule] = Node("tombstone", None, c, {}, parents, x.part, x.heir, rule)
      BY RuleChanges DEF r2
    <3> QED BY <3>1, <3>2, <3>3 DEF Stone, parents
  <2> HIDE DEF t, n, r, r1, r2
  <2>3. [t EXCEPT ![n].part = x.part] = t1 /\ n \in DOMAIN t1 /\ t1[n] = r1
    BY <1>2, <2>2
  <2> HIDE DEF t1
  <2>4. [t1 EXCEPT ![n].heir = x.heir] = t2 /\ n \in DOMAIN t2 /\ t2[n] = r2
    BY <2>2, <2>3
  <2> HIDE DEF t2
  <2>5. [t2 EXCEPT ![n].rule = rule] = t3
    BY <2>2, <2>4
  <2> QED BY <2>1, <2>3, <2>4, <2>5
<1>4. Grown(d, Stone(rule, x, c, Len(d)), t3)
  <2> DEFINE s == Stone(rule, x, c, Len(d))
  <2>1. DOMAIN t3 = DOMAIN t /\ t3[n] = s /\ \A i \in DOMAIN t : i # n => t3[i] = t[i]
    <3> HIDE DEF t, n, s, r, r1, r2
    <3>1. DOMAIN t1 = DOMAIN t /\ \A i \in DOMAIN t : i # n => t1[i] = t[i]
      BY <1>2
    <3> HIDE DEF t1
    <3>2. DOMAIN t2 = DOMAIN t /\ \A i \in DOMAIN t : i # n => t2[i] = t[i]
      BY <1>2, <3>1
    <3> HIDE DEF t2
    <3> QED BY <1>2, <3>2 DEF s
  <2>2. Extends(d, t) /\ Len(t) = Len(d) + 1 /\ DOMAIN t = 1 .. n
    BY <1>1, <1>2 DEF Grown, Extends
  <2>3. Len(t3) = n /\ IsLog(t3)
    <3> HIDE DEF t, s
    <3>1. n \in Nat
      BY DEF IsLog
    <3>2. t3 = [i \in 1 .. n |-> t3[i]]
      BY <2>1, <2>2
    <3> HIDE DEF t3, n
    <3>3. Len(t3) = n
      BY <3>1, <3>2
    <3> QED BY <3>1, <3>2, <3>3 DEF IsLog
  <2> HIDE DEF t3, s
  <2>4. \A i \in 1 .. Len(d) : i # n /\ i \in 1 .. n /\ t3[i] = d[i]
    <3>1. \A i \in 1 .. Len(d) : i \in 1 .. Len(t) /\ t[i] = d[i]
      BY <2>2 DEF Extends
    <3>2. \A i \in 1 .. Len(d) : i # n
      BY DEF IsLog
    <3> HIDE DEF t, n
    <3> QED BY <1>2, <2>1, <2>2, <3>1, <3>2
  <2>5. n \in Nat /\ Len(d) \in Nat /\ Len(d) <= n /\ \A i \in 1 .. n : i \in 1 .. Len(d) \/ i = n
    BY DEF IsLog
  <2>6. DOMAIN t3 = 1 .. Len(t3) /\ DOMAIN d = 1 .. Len(d)
    BY <2>1, <2>2, <2>3, LogIsSeq
  <2>7. Extends(d, t3)
    BY <2>3, <2>4, <2>5, <2>6 DEF Extends
  <2> QED BY <2>1, <2>3, <2>5, <2>7 DEF Grown, s
<1> QED BY <1>3, <1>4
-----------------------------------------------------------------------------
(* The inductive invariant. *)

\* A node points back, at the node before it among others, and knows its time.
NodeOK(d, c, i) ==
    /\ d[i].cycle \in 0 .. c
    /\ d[i].kind = "genesis" <=> i = 1
    /\ d[i].kind # "accusation"
    /\ d[i].parents \subseteq 1 .. i - 1 /\ (i # 1 => i - 1 \in d[i].parents)
    /\ \A j \in d[i].supersedes : j \in 1 .. i - 1 /\ d[j].kind = "plate"
    /\ d[i].part \in 0 .. i - 1 /\ d[i].heir \in 0 .. i - 1

Rooted(d, c) == IsLog(d) /\ Len(d) # 0 /\ \A i \in 1 .. Len(d) : NodeOK(d, c, i)

\* All that the first n nodes say of p is older than c by the grace.
Quiet(d, n, c, kinds, name, grace) ==
    \A j \in 1 .. n : d[j].kind \in kinds /\ d[j].name = name => c - d[j].cycle >= grace

\* What the rule has established of p from the first n nodes.
Fits(d, n, rule, p, c) ==
    \/ /\ rule = "stale" /\ d[p].kind = "axis_registered"
       /\ Quiet(d, n, c, {"axis_registered", "axis_perturbed", "axis_reset"}, d[p].name, StaleGrace)
    \/ /\ rule = "falsified" /\ d[p].kind = "evolution_succeeded"
       /\ Quiet(d, n, c, {"evolution_failed"}, d[p].name, ErroneousGrace + 1)
    \/ /\ rule = "duplicate" /\ d[p].kind \in {"raw_material", "sporocarp"}
       /\ c - d[p].cycle >= RedundantGrace
       /\ \A j \in 1 .. n : d[j].kind = d[p].kind /\ d[j].name = d[p].name => p <= j
       /\ \E j \in 1 .. n : d[j].kind = d[p].kind /\ d[j].name = d[p].name /\ j # p
    \/ /\ rule = "superseded" /\ d[p].kind = "plate"
       /\ \E j \in 1 .. n : d[j].kind = "plate" /\ p \in d[j].supersedes
       /\ \A j \in 1 .. n : d[j].kind = "plate" /\ p \in d[j].supersedes
             => c - d[j].cycle >= PlateGrace + 1

\* A tombstone stands on what its rule has established.
StoneOK(d, t) ==
    /\ d[t].part \in 1 .. t - 1
    /\ Fits(d, t, d[t].rule, d[t].part, d[t].cycle)

OneStone(d) ==
    \A t, u \in 1 .. Len(d) :
        d[t].kind = "tombstone" /\ d[u].kind = "tombstone" /\ d[t].part = d[u].part => t = u

Mourned(d) == OneStone(d) /\ \A t \in 1 .. Len(d) : d[t].kind = "tombstone" => StoneOK(d, t)

\* One cycle_advanced per cycle.
Counted(d, c) ==
    /\ Cardinality(Kind(d, {"cycle_advanced"})) = c
    /\ c # 0 => \E i \in Kind(d, {"cycle_advanced"}) : d[i].cycle = c

\* C54 is one of the cycle before.
Alarmed(d, c) == \A i \in Kind(d, {"immune"}) : d[i].name = "C54" => d[i].cycle < c

\* What the limiter remembers has been written.
Spoken(d, c, b) == b = Never \/ (b \in 1 .. c /\ Reported(d, b))

PruneInv ==
    /\ cycle \in Nat /\ Rooted(dag, cycle) /\ Mourned(dag)
    /\ Counted(dag, cycle) /\ Alarmed(dag, cycle)
    /\ alarmAt = Never \/ (alarmAt \in 0 .. cycle /\ alarmAt % Interval = 0)
    /\ Spoken(dag, cycle, spoken)

-----------------------------------------------------------------------------
(* What a new node keeps. *)

\* A node that may be inserted into d.
Fitting(d, c, r) ==
    /\ r.cycle \in 0 .. c /\ r.kind # "genesis" /\ r.kind # "accusation"
    /\ r.parents \subseteq 1 .. Len(d) /\ Len(d) \in r.parents
    /\ \A j \in r.supersedes : j \in 1 .. Len(d) /\ d[j].kind = "plate"
    /\ r.part \in 0 .. Len(d) /\ r.heir \in 0 .. Len(d)

LEMMA RootedGrows ==
    ASSUME NEW d, NEW r, NEW e, NEW b \in Nat, NEW c \in Nat, b <= c,
           Rooted(d, b), Grown(d, r, e), Fitting(d, c, r)
    PROVE  Rooted(e, c)
<1>1. /\ Len(d) \in Nat /\ Len(d) # 0 /\ Len(e) = Len(d) + 1 /\ IsLog(e)
      /\ \A i \in 1 .. Len(d) : e[i] = d[i]
      /\ e[Len(d) + 1] = r
  BY DEF Rooted, Grown, Extends
<1>2. ASSUME NEW i \in 1 .. Len(e)
      PROVE  NodeOK(e, c, i)
  <2>1. CASE i \in 1 .. Len(d)
    <3>1. e[i] = d[i] /\ NodeOK(d, b, i)
      BY <1>1, <2>1 DEF Rooted
    <3>2. \A j \in 1 .. i - 1 : e[j] = d[j]
      BY <1>1, <2>1
    <3>3. 0 .. b \subseteq 0 .. c
      OBVIOUS
    <3> QED BY <3>1, <3>2, <3>3 DEF NodeOK
  <2>2. CASE i = Len(d) + 1
    <3>1. e[i] = r /\ i - 1 = Len(d) /\ i # 1
      BY <1>1, <2>2
    <3> QED BY <1>1, <3>1 DEF NodeOK, Fitting
  <2>3. i \in 1 .. Len(d) \/ i = Len(d) + 1
    BY <1>1
  <2> QED BY <2>1, <2>2, <2>3
<1>3. Len(e) # 0
  BY <1>1
<1> QED BY <1>1, <1>2, <1>3 DEF Rooted

LEMMA RootedLater ==
    ASSUME NEW d, NEW b \in Nat, NEW c \in Nat, b <= c, Rooted(d, b)
    PROVE  Rooted(d, c)
<1>1. 0 .. b \subseteq 0 .. c
  OBVIOUS
<1> QED BY <1>1 DEF Rooted, NodeOK

\* A node without part and heir.
LEMMA FreshFits ==
    ASSUME NEW d, NEW c \in Nat, NEW b \in 0 .. c, NEW kind, NEW name, NEW parts,
           Len(d) \in Nat, Len(d) # 0, parts \subseteq 1 .. Len(d),
           kind \notin {"genesis", "accusation"}
    PROVE  Fitting(d, c, Fresh(kind, name, b, parts \cup {Len(d)}))
<1> DEFINE r == Fresh(kind, name, b, parts \cup {Len(d)})
<1>1. /\ r.cycle = b /\ r.kind = kind /\ r.parents = parts \cup {Len(d)}
      /\ r.supersedes = {} /\ r.part = 0 /\ r.heir = 0
  BY DEF Fresh, Node, None
<1>2. Len(d) \in 1 .. Len(d) /\ 0 \in 0 .. Len(d)
  OBVIOUS
<1> HIDE DEF r
<1>3. Fitting(d, c, r)
  BY <1>1, <1>2 DEF Fitting
<1> QED BY <1>3 DEF r

LEMMA PlateFits ==
    ASSUME NEW d, NEW c \in Nat, NEW sources, NEW sups,
           Len(d) \in Nat, Len(d) # 0, sources \subseteq 1 .. Len(d),
           \A j \in sups : j \in 1 .. Len(d) /\ d[j].kind = "plate"
    PROVE  Fitting(d, c, Plate(c, sups, sources \cup {Len(d)}))
<1> DEFINE r == Plate(c, sups, sources \cup {Len(d)})
<1>1. /\ r.cycle = c /\ r.kind = "plate" /\ r.parents = sources \cup {Len(d)}
      /\ r.supersedes = sups /\ r.part = 0 /\ r.heir = 0
  BY DEF Plate, Node, None
<1>2. Len(d) \in 1 .. Len(d) /\ 0 \in 0 .. Len(d) /\ c \in 0 .. c
  OBVIOUS
<1> HIDE DEF r
<1>3. Fitting(d, c, r)
  BY <1>1, <1>2 DEF Fitting
<1> QED BY <1>3 DEF r

\* What a rule has established stays so under nodes that are no evidence.
LEMMA FitsKeeps ==
    ASSUME NEW d, NEW e, NEW n \in Nat, NEW m \in Nat, n <= m,
           NEW rule, NEW p \in 1 .. n, NEW c,
           \A j \in 1 .. n : e[j] = d[j],
           \A j \in n + 1 .. m : e[j].kind = "tombstone",
           Fits(d, n, rule, p, c)
    PROVE  Fits(e, m, rule, p, c)
<1>1. \A j \in 1 .. m : j \in 1 .. n \/ j \in n + 1 .. m
  OBVIOUS
<1>2. \A j \in 1 .. n : j \in 1 .. m
  OBVIOUS
<1>3. e[p] = d[p]
  OBVIOUS
<1>4. ASSUME NEW kinds, NEW name, NEW grace, "tombstone" \notin kinds,
             Quiet(d, n, c, kinds, name, grace)
      PROVE  Quiet(e, m, c, kinds, name, grace)
  BY <1>1, <1>4 DEF Quiet
<1>5. CASE rule = "stale"
  <2>1. Quiet(e, m, c, {"axis_registered", "axis_perturbed", "axis_reset"}, d[p].name, StaleGrace)
    BY <1>4, <1>5 DEF Fits
  <2> QED BY <1>3, <1>5, <2>1 DEF Fits
<1>6. CASE rule = "falsified"
  <2>1. Quiet(e, m, c, {"evolution_failed"}, d[p].name, ErroneousGrace + 1)
    BY <1>4, <1>6 DEF Fits
  <2> QED BY <1>3, <1>6, <2>1 DEF Fits
<1>7. CASE rule = "duplicate"
  <2>1. /\ d[p].kind \in {"raw_material", "sporocarp"} /\ c - d[p].cycle >= RedundantGrace
        /\ \A j \in 1 .. n : d[j].kind = d[p].kind /\ d[j].name = d[p].name => p <= j
        /\ \E j \in 1 .. n : d[j].kind = d[p].kind /\ d[j].name = d[p].name /\ j # p
    BY <1>7 DEF Fits
  <2>2. \A j \in 1 .. m : e[j].kind = e[p].kind /\ e[j].name = e[p].name => p <= j
    BY <1>1, <1>3, <2>1
  <2>3. \E j \in 1 .. m : e[j].kind = e[p].kind /\ e[j].name = e[p].name /\ j # p
    BY <1>2, <1>3, <2>1
  <2> QED BY <1>3, <1>7, <2>1, <2>2, <2>3 DEF Fits
<1>8. CASE rule = "superseded"
  <2>1. /\ d[p].kind = "plate"
        /\ \E j \in 1 .. n : d[j].kind = "plate" /\ p \in d[j].supersedes
        /\ \A j \in 1 .. n : d[j].kind = "plate" /\ p \in d[j].supersedes
              => c - d[j].cycle >= PlateGrace + 1
    BY <1>8 DEF Fits
  <2>2. \E j \in 1 .. m : e[j].kind = "plate" /\ p \in e[j].supersedes
    BY <1>2, <2>1
  <2>3. \A j \in 1 .. m : e[j].kind = "plate" /\ p \in e[j].supersedes
              => c - e[j].cycle >= PlateGrace + 1
    BY <1>1, <2>1
  <2> QED BY <1>3, <1>8, <2>1, <2>2, <2>3 DEF Fits
<1> QED BY <1>5, <1>6, <1>7, <1>8 DEF Fits

\* Stones that stood before still stand.
LEMMA StoneStands ==
    ASSUME NEW d, NEW e, Extends(d, e), NEW t \in 1 .. Len(d), StoneOK(d, t)
    PROVE  StoneOK(e, t)
<1>1. t \in Nat /\ t <= Len(d) /\ Len(d) \in Nat /\ e[t] = d[t]
  BY DEF Extends
<1>2. d[t].part \in 1 .. t - 1 /\ Fits(d, t, d[t].rule, d[t].part, d[t].cycle)
  BY DEF StoneOK
<1>3. d[t].part \in 1 .. t
  BY <1>1, <1>2
<1>4. \A j \in 1 .. t : e[j] = d[j]
  BY <1>1 DEF Extends
<1>5. \A j \in t + 1 .. t : e[j].kind = "tombstone"
  BY <1>1
<1>6. Fits(e, t, d[t].rule, d[t].part, d[t].cycle)
  BY <1>1, <1>2, <1>3, <1>4, <1>5, FitsKeeps
<1> QED BY <1>1, <1>2, <1>6 DEF StoneOK

LEMMA MournedGrows ==
    ASSUME NEW d, NEW r, NEW e, Mourned(d), Grown(d, r, e), r.kind # "tombstone"
    PROVE  Mourned(e)
<1>1. Extends(d, e) /\ e[Len(d) + 1] = r
      /\ \A i \in 1 .. Len(e) : i \in 1 .. Len(d) \/ i = Len(d) + 1
  BY DEF Grown
<1>2. \A i \in 1 .. Len(e) : e[i].kind = "tombstone" => i \in 1 .. Len(d) /\ e[i] = d[i]
  BY <1>1 DEF Extends
<1>3. OneStone(e)
  BY <1>2 DEF Mourned, OneStone
<1>4. \A t \in 1 .. Len(e) : e[t].kind = "tombstone" => StoneOK(e, t)
  BY <1>1, <1>2, StoneStands DEF Mourned
<1> QED BY <1>3, <1>4 DEF Mourned

-----------------------------------------------------------------------------
(* What the rules find. *)

\* A nonempty set of nodes has a latest one.
LEMMA LatestIs ==
    ASSUME NEW d, NEW c \in Nat, NEW n \in Nat, NEW S \in SUBSET (1 .. n), S # {},
           \A i \in 1 .. n : d[i].cycle \in 0 .. c
    PROVE  Latest(d, S) \in S /\ \A i \in S : d[i].cycle <= d[Latest(d, S)].cycle
<1> DEFINE T == {d[i].cycle : i \in S}
<1>1. T \in SUBSET (0 .. c) /\ T # {}
  OBVIOUS
<1>2. PICK b \in T : \A k \in T : k <= b
  <2> HIDE DEF T
  <2> QED BY <1>1, Greatest
<1> DEFINE U == {i \in S : d[i].cycle = b}
<1>3. U \in SUBSET (0 .. n) /\ U # {}
  <2>1. \E i \in S : d[i].cycle = b
    BY <1>2
  <2>2. 1 .. n \subseteq 0 .. n
    OBVIOUS
  <2> QED BY <2>1, <2>2
<1>4. PICK m \in U : \A i \in U : i <= m
  <2> HIDE DEF U
  <2> QED BY <1>3, Greatest
<1> DEFINE Newest(i) == \A j \in S : d[j].cycle < d[i].cycle \/ (d[j].cycle = d[i].cycle /\ j <= i)
<1>5. m \in S /\ Newest(m)
  <2>1. m \in S /\ d[m].cycle = b
    BY <1>4
  <2>2. ASSUME NEW j \in S
        PROVE  d[j].cycle < b \/ (d[j].cycle = b /\ j <= m)
    <3>1. d[j].cycle \in T /\ d[j].cycle \in Int /\ b \in Int
      BY <1>1, <1>2
    <3>2. d[j].cycle <= b
      BY <1>2, <3>1
    <3>3. d[j].cycle = b => j <= m
      BY <1>4
    <3> QED BY <3>1, <3>2, <3>3
  <2> QED BY <2>1, <2>2
<1>6. Latest(d, S) \in S /\ Newest(Latest(d, S))
  BY <1>5 DEF Latest
<1> HIDE DEF U, T
<1>7. ASSUME NEW i \in S
      PROVE  d[i].cycle \in Int
  <2>1. d[i].cycle \in 0 .. c
    OBVIOUS
  <2> QED BY <2>1
<1>8. ASSUME NEW i \in S
      PROVE  d[i].cycle <= d[Latest(d, S)].cycle
  <2>1. d[i].cycle \in Int /\ d[Latest(d, S)].cycle \in Int
    BY <1>6, <1>7
  <2> QED BY <1>6, <2>1
<1> QED BY <1>6, <1>8

PassRec(d, roots, n, f) ==
    f = [k \in 0 .. n |->
            IF k = 0 THEN roots
            ELSE LET R == f[k - 1]
                     i == Len(d) + 1 - k
                 IN  IF i \in R THEN R \cup d[i].parents ELSE R]

LEMMA PassExists ==
    ASSUME NEW d, NEW roots, NEW n \in Nat
    PROVE  \E f : PassRec(d, roots, n, f)
<1> DEFINE Good == {k \in Nat : \E f : PassRec(d, roots, k, f)}
<1>1. 0 \in Good
  <2> DEFINE f == [k \in 0 .. 0 |-> roots]
  <2>1. PassRec(d, roots, 0, f)
    BY DEF PassRec
  <2> QED BY <2>1
<1>2. ASSUME NEW m \in 0 .. n - 1, m \in Good
      PROVE  m + 1 \in Good
  <2>1. PICK f : PassRec(d, roots, m, f)
    BY <1>2
  <2> DEFINE i == Len(d) + 1 - (m + 1)
             g == [k \in 0 .. m + 1 |->
                      IF k <= m THEN f[k] ELSE IF i \in f[m] THEN f[m] \cup d[i].parents ELSE f[m]]
  <2>2. f = [k \in 0 .. m |->
                IF k = 0 THEN roots
                ELSE LET R == f[k - 1]
                         j == Len(d) + 1 - k
                     IN  IF j \in R THEN R \cup d[j].parents ELSE R]
    BY <2>1 DEF PassRec
  <2>3. ASSUME NEW k \in 0 .. m + 1
        PROVE  g[k] = IF k = 0 THEN roots
                      ELSE LET R == g[k - 1]
                               j == Len(d) + 1 - k
                           IN  IF j \in R THEN R \cup d[j].parents ELSE R
    <3>1. CASE k <= m
      <4>1. k \in 0 .. m /\ g[k] = f[k] /\ (k # 0 => g[k - 1] = f[k - 1])
        BY <3>1
      <4> HIDE DEF g
      <4> QED BY <2>2, <4>1
    <3>2. CASE ~(k <= m)
      <4>1. k = m + 1 /\ k # 0 /\ k - 1 = m
        BY <3>2
      <4>2. g[k] = IF i \in f[m] THEN f[m] \cup d[i].parents ELSE f[m]
        BY <4>1
      <4>3. g[k - 1] = f[m]
        BY <4>1
      <4> HIDE DEF g
      <4> QED BY <4>1, <4>2, <4>3
    <3> QED BY <3>1, <3>2
  <2>4. PassRec(d, roots, m + 1, g)
    <3>1. g = [k \in 0 .. m + 1 |-> g[k]]
      OBVIOUS
    <3> HIDE DEF g
    <3> QED BY <2>3, <3>1 DEF PassRec
  <2> QED BY <2>4
<1> HIDE DEF Good
<1>3. \A k \in 0 .. n : k \in Good
  BY <1>1, <1>2, Climb
<1>4. n \in Good
  BY <1>3
<1> QED BY <1>4 DEF Good

\* Every node is an ancestor of the tip.
LEMMA AncestryIs ==
    ASSUME NEW d, NEW c, Rooted(d, c), NEW roots, Len(d) \in roots, roots \subseteq 1 .. Len(d)
    PROVE  Ancestry(d, roots) = 1 .. Len(d)
<1> DEFINE n == Len(d)
           f == CHOOSE f : PassRec(d, roots, n, f)
<1>1. n \in Nat /\ n # 0 /\ \A i \in 1 .. n : NodeOK(d, c, i)
  BY DEF Rooted, IsLog
<1>2. Ancestry(d, roots) = f[n]
  BY DEF Ancestry, PassRec
<1>3. f = [k \in 0 .. n |->
              IF k = 0 THEN roots
              ELSE LET R == f[k - 1]
                       i == n + 1 - k
                   IN  IF i \in R THEN R \cup d[i].parents ELSE R]
  <2>1. \E g : PassRec(d, roots, n, g)
    BY <1>1, PassExists
  <2> QED BY <2>1 DEF PassRec
<1> HIDE DEF f
<1> DEFINE Good == {k \in Nat : f[k] \subseteq 1 .. n /\ \A i \in 1 .. n : n - k <= i => i \in f[k]}
<1>4. 0 \in Good
  <2>1. f[0] = roots
    BY <1>1, <1>3
  <2>2. \A i \in 1 .. n : n - 0 <= i => i = n
    BY <1>1
  <2> QED BY <2>1, <2>2
<1>5. ASSUME NEW k \in 0 .. n - 1, k \in Good
      PROVE  k + 1 \in Good
  <2> DEFINE i == n - k
  <2>1. i \in 1 .. n /\ i = n + 1 - (k + 1) /\ k + 1 \in 0 .. n /\ k + 1 # 0 /\ (k + 1) - 1 = k
    BY <1>1
  <2>2. f[k] \subseteq 1 .. n /\ \A j \in 1 .. n : n - k <= j => j \in f[k]
    BY <1>5
  <2>3. i \in f[k]
    BY <2>1, <2>2
  <2>4. f[k + 1] = f[k] \cup d[i].parents
    <3> HIDE DEF i, n
    <3> QED BY <1>3, <2>1, <2>3
  <2>5. d[i].parents \subseteq 1 .. i - 1 /\ (i # 1 => i - 1 \in d[i].parents)
    BY <1>1, <2>1 DEF NodeOK
  <2>6. 1 .. i - 1 \subseteq 1 .. n
    BY <1>1, <2>1
  <2>7. ASSUME NEW j \in 1 .. n, n - (k + 1) <= j
        PROVE  j \in f[k + 1]
    <3>1. CASE n - k <= j
      BY <2>2, <2>4, <3>1
    <3>2. CASE ~(n - k <= j)
      <4>1. j = i - 1 /\ i # 1
        BY <1>1, <2>7, <3>2
      <4> QED BY <2>4, <2>5, <4>1
    <3> QED BY <3>1, <3>2
  <2>8. f[k + 1] \subseteq 1 .. n /\ k + 1 \in Nat
    BY <2>2, <2>4, <2>5, <2>6
  <2> HIDE DEF i
  <2> QED BY <2>7, <2>8
<1> HIDE DEF Good
<1>6. n \in Good
  <2>1. \A k \in 0 .. n : k \in Good
    BY <1>1, <1>4, <1>5, Climb
  <2> QED BY <1>1, <2>1
<1>7. f[n] \subseteq 1 .. n /\ \A i \in 1 .. n : n - n <= i => i \in f[n]
  BY <1>6 DEF Good
<1>8. \A i \in 1 .. n : n - n <= i
  BY <1>1
<1> QED BY <1>2, <1>7, <1>8

\* No node but the tip is unreferenced.
LEMMA NothingOrphaned ==
    ASSUME NEW d, NEW b, Rooted(d, b), NEW c
    PROVE  Orphans(d, c) \subseteq {Len(d)}
<1>1. DOMAIN d = 1 .. Len(d) /\ Len(d) \in Nat
  BY LogIsSeq DEF Rooted, IsLog
<1>2. ASSUME NEW i \in 1 .. Len(d), i # Len(d)
      PROVE  i \in Referenced(d)
  <2>1. i + 1 \in 1 .. Len(d) /\ i + 1 # 1 /\ (i + 1) - 1 = i
    <3>1. Len(d) \in Nat
      BY <1>1
    <3> QED BY <1>2, <3>1
  <2>2. i \in d[i + 1].parents
    BY <2>1 DEF Rooted, NodeOK
  <2> QED BY <1>1, <2>1, <2>2 DEF Referenced
<1> QED BY <1>1, <1>2 DEF Orphans

LEMMA NothingCut ==
    ASSUME NEW d, NEW b, Rooted(d, b), NEW c
    PROVE  Cut(d, c) = {}
<1>1. DOMAIN d = 1 .. Len(d) /\ Len(d) \in Nat /\ Len(d) # 0
  BY LogIsSeq DEF Rooted, IsLog
<1>2. \A i \in 1 .. Len(d) : d[i].parents \subseteq 1 .. Len(d)
  <2>1. \A i \in 1 .. Len(d) : d[i].parents \subseteq 1 .. i - 1 /\ 1 .. i - 1 \subseteq 1 .. Len(d)
    BY <1>1 DEF Rooted, NodeOK
  <2> QED BY <2>1
<1> DEFINE recent == {i \in DOMAIN d : d[i].cycle > c - OrphanGrace}
           roots == {Len(d)} \cup UNION {d[i].parents : i \in recent}
<1>3. Cut(d, c) = (Referenced(d) \ recent) \ Ancestry(d, roots)
  BY DEF Cut
<1>4. Len(d) \in roots /\ roots \subseteq 1 .. Len(d)
  BY <1>1, <1>2
<1>5. Referenced(d) \subseteq 1 .. Len(d)
  BY <1>1, <1>2 DEF Referenced
<1> HIDE DEF recent, roots
<1>6. Ancestry(d, roots) = 1 .. Len(d)
  BY <1>4, AncestryIs
<1> QED BY <1>3, <1>5, <1>6

-----------------------------------------------------------------------------
(* What the scan buries. *)

\* e is d with tombstones.
Stoned(d, e) ==
    Extends(d, e) /\ \A i \in Len(d) + 1 .. Len(e) : e[i].kind = "tombstone"

\* A part may be buried by the rule, and once.
Ripe(d, c, rule, x) ==
    /\ x.part \in 1 .. Len(d) /\ x.part \notin Dead(d) /\ x.heir \in 0 .. Len(d)
    /\ Fits(d, Len(d), rule, x.part, c)

\* A node of another kind than a tombstone is an old one.
LEMMA OldNode ==
    ASSUME NEW d, NEW e, Stoned(d, e), NEW kinds, "tombstone" \notin kinds
    PROVE  /\ \A i \in Kind(e, kinds) : /\ i \in 1 .. Len(d) /\ i \in 1 .. Len(e)
                                        /\ e[i] = d[i] /\ d[i].kind \in kinds
           /\ \A i \in 1 .. Len(d) : d[i].kind \in kinds => i \in Kind(e, kinds) /\ e[i] = d[i]
<1>1. /\ Len(d) \in Nat /\ Len(e) \in Nat /\ DOMAIN e = 1 .. Len(e)
      /\ \A i \in 1 .. Len(d) : i \in 1 .. Len(e) /\ e[i] = d[i]
      /\ \A i \in Len(d) + 1 .. Len(e) : e[i].kind = "tombstone"
  BY DEF Stoned, Extends
<1>2. \A i \in 1 .. Len(e) : i \in 1 .. Len(d) \/ i \in Len(d) + 1 .. Len(e)
  BY <1>1
<1> QED BY <1>1, <1>2 DEF Kind

\* The latest of old nodes.
LEMMA LatestSame ==
    ASSUME NEW d, NEW e, NEW c \in Nat, Rooted(d, c), Extends(d, e),
           NEW S \in SUBSET (1 .. Len(d)), S # {}
    PROVE  Latest(e, S) \in S /\ \A i \in S : e[i].cycle <= e[Latest(e, S)].cycle
<1>1. Len(d) \in Nat /\ \A i \in 1 .. Len(d) : e[i] = d[i] /\ d[i].cycle \in 0 .. c
  BY DEF Rooted, NodeOK, Extends
<1>2. \A i \in 1 .. Len(d) : e[i].cycle \in 0 .. c
  BY <1>1
<1> QED BY <1>1, <1>2, LatestIs

LEMMA StaleIsRipe ==
    ASSUME NEW d, NEW e, NEW c \in Nat, Rooted(d, c), Stoned(d, e),
           NEW x \in Stale(e, Scan(d), c)
    PROVE  Ripe(d, c, "stale", x)
<1>1. PICK i \in Kind(e, {"axis_registered"}) :
         /\ x = Doomed(i, None) /\ Eligible(e, Scan(d), i)
         /\ \A j \in Touches(e, e[i].name) : e[j].cycle <= c - StaleGrace
  BY DEF Stale
<1>2. x.part = i /\ x.heir = 0
  BY <1>1 DEF Doomed, None
<1>3. i \in 1 .. Len(d) /\ e[i] = d[i] /\ d[i].kind = "axis_registered" /\ i \notin Dead(d)
  BY <1>1, OldNode DEF Eligible, Scan
<1> DEFINE K == {"axis_registered", "axis_perturbed", "axis_reset"}
<1>4. ASSUME NEW j \in 1 .. Len(d), d[j].kind \in K, d[j].name = d[i].name
      PROVE  c - d[j].cycle >= StaleGrace
  <2>1. j \in Kind(e, K) /\ e[j] = d[j]
    <3>1. "tombstone" \notin K
      OBVIOUS
    <3> HIDE DEF K
    <3> QED BY <1>4, <3>1, OldNode
  <2>2. d[j].cycle <= c - StaleGrace
    BY <1>1, <1>3, <1>4, <2>1 DEF Touches
  <2>3. d[j].cycle \in Nat /\ StaleGrace \in Nat
    BY PruneAssumption, SMTT(30) DEF Rooted, NodeOK
  <2> QED BY <2>2, <2>3
<1>5. Quiet(d, Len(d), c, K, d[i].name, StaleGrace)
  BY <1>4 DEF Quiet
<1>6. Fits(d, Len(d), "stale", i, c)
  BY <1>3, <1>5 DEF Fits
<1>7. 0 \in 0 .. Len(d)
  BY DEF Rooted, IsLog
<1> QED BY <1>2, <1>3, <1>6, <1>7 DEF Ripe

LEMMA FalsifiedIsRipe ==
    ASSUME NEW d, NEW e, NEW c \in Nat, Rooted(d, c), Stoned(d, e),
           NEW x \in Falsified(e, Scan(d), c)
    PROVE  Ripe(d, c, "falsified", x)
<1>1. PICK i \in Kind(e, {"evolution_succeeded"}) :
         LET f == Latest(e, Failures(e, e[i].name))
         IN  /\ x = Doomed(i, f) /\ Eligible(e, Scan(d), i) /\ Failures(e, e[i].name) # {}
             /\ c - e[f].cycle > ErroneousGrace
  BY DEF Falsified
<1> DEFINE F == Failures(e, e[i].name)
           f == Latest(e, F)
<1>2. x.part = i /\ x.heir = f /\ F # {} /\ c - e[f].cycle > ErroneousGrace
  BY <1>1 DEF Doomed
<1>3. i \in 1 .. Len(d) /\ e[i] = d[i] /\ d[i].kind = "evolution_succeeded" /\ i \notin Dead(d)
  BY <1>1, OldNode DEF Eligible, Scan
<1>4. F = {j \in 1 .. Len(d) : d[j].kind = "evolution_failed" /\ d[j].name = d[i].name}
      /\ \A j \in F : e[j] = d[j]
  BY <1>3, OldNode DEF Failures
<1>5. f \in F /\ \A j \in F : e[j].cycle <= e[f].cycle
  <2>1. F \in SUBSET (1 .. Len(d)) /\ F # {} /\ Extends(d, e)
    BY <1>2, <1>4 DEF Stoned
  <2> HIDE DEF F
  <2> QED BY <2>1, LatestSame
<1>6. \A j \in 1 .. Len(d) : d[j].cycle \in Nat
  BY DEF Rooted, NodeOK
<1>7. ErroneousGrace \in Nat
  BY PruneAssumption
<1> HIDE DEF f, F
<1>8. ASSUME NEW j \in 1 .. Len(d), d[j].kind \in {"evolution_failed"}, d[j].name = d[i].name
      PROVE  c - d[j].cycle >= ErroneousGrace + 1
  <2>1. j \in F
    BY <1>4, <1>8
  <2>2. d[j].cycle <= d[f].cycle /\ c - d[f].cycle > ErroneousGrace /\ f \in 1 .. Len(d)
    BY <1>2, <1>4, <1>5, <2>1
  <2>3. d[j].cycle \in Nat /\ d[f].cycle \in Nat
    BY <1>6, <2>2
  <2> QED BY <1>7, <2>2, <2>3, SMTT(30)
<1>9. Quiet(d, Len(d), c, {"evolution_failed"}, d[i].name, ErroneousGrace + 1)
  BY <1>8 DEF Quiet
<1>10. Fits(d, Len(d), "falsified", i, c)
  BY <1>3, <1>9 DEF Fits
<1>11. f \in 0 .. Len(d)
  BY <1>4, <1>5
<1> QED BY <1>2, <1>3, <1>10, <1>11 DEF Ripe

LEMMA DuplicateIsRipe ==
    ASSUME NEW d, NEW e, NEW c \in Nat, Rooted(d, c), Stoned(d, e),
           NEW x \in Duplicate(e, Scan(d), c)
    PROVE  Ripe(d, c, "duplicate", x)
<1> DEFINE K == {"raw_material", "sporocarp"}
<1>1. PICK i \in Kind(e, K) :
         /\ x = Doomed(i, CHOOSE j \in Copies(e, i) \ {i} : \A k \in Copies(e, i) \ {i} : j <= k)
         /\ e[i].cycle <= c - RedundantGrace /\ Copies(e, i) # {i}
         /\ \A j \in Copies(e, i) : i <= j
         /\ Eligible(e, Scan(d), i)
  BY DEF Duplicate
<1> DEFINE C == Copies(e, i)
           h == CHOOSE j \in C \ {i} : \A k \in C \ {i} : j <= k
<1>2. x.part = i /\ x.heir = h
  BY <1>1 DEF Doomed
<1>3. i \in 1 .. Len(d) /\ e[i] = d[i] /\ d[i].kind \in K /\ i \notin Dead(d)
  BY <1>1, OldNode DEF Eligible, Scan
<1>4. C = {j \in 1 .. Len(d) : d[j].kind = d[i].kind /\ d[j].name = d[i].name}
  <2>1. "tombstone" \notin K
    OBVIOUS
  <2>2. C = {j \in Kind(e, K) : e[j].kind = e[i].kind /\ e[j].name = e[i].name}
    BY DEF Copies
  <2> HIDE DEF K, C
  <2>3. /\ \A j \in Kind(e, K) : j \in 1 .. Len(d) /\ e[j] = d[j] /\ d[j].kind \in K
        /\ \A j \in 1 .. Len(d) : d[j].kind \in K => j \in Kind(e, K) /\ e[j] = d[j]
    BY <2>1, OldNode
  <2>4. ASSUME NEW j \in C
        PROVE  j \in 1 .. Len(d) /\ d[j].kind = d[i].kind /\ d[j].name = d[i].name
    BY <1>3, <2>2, <2>3
  <2>5. ASSUME NEW j \in 1 .. Len(d), d[j].kind = d[i].kind, d[j].name = d[i].name
        PROVE  j \in C
    BY <1>3, <2>2, <2>3, <2>5
  <2> QED BY <2>4, <2>5
<1>5. C \ {i} \in SUBSET Nat /\ C \ {i} # {}
  BY <1>1, <1>3, <1>4
<1>6. h \in C \ {i}
  <2> HIDE DEF C
  <2>1. \E j \in C \ {i} : \A k \in C \ {i} : j <= k
    BY <1>5, Least
  <2> QED BY <2>1
<1>7. \A j \in C : i <= j
  BY <1>1
<1> HIDE DEF h, C
<1>8. /\ \A j \in 1 .. Len(d) : d[j].kind = d[i].kind /\ d[j].name = d[i].name => i <= j
      /\ \E j \in 1 .. Len(d) : d[j].kind = d[i].kind /\ d[j].name = d[i].name /\ j # i
  BY <1>4, <1>6, <1>7
<1>9. c - d[i].cycle >= RedundantGrace
  <2>1. d[i].cycle <= c - RedundantGrace /\ d[i].cycle \in Nat /\ RedundantGrace \in Nat
    BY <1>1, <1>3, PruneAssumption, SMTT(30) DEF Rooted, NodeOK
  <2> QED BY <2>1
<1>10. Fits(d, Len(d), "duplicate", i, c)
  BY <1>3, <1>8, <1>9 DEF Fits
<1>11. h \in 0 .. Len(d)
  BY <1>4, <1>6
<1> QED BY <1>2, <1>3, <1>10, <1>11 DEF Ripe

LEMMA SupersededIsRipe ==
    ASSUME NEW d, NEW e, NEW c \in Nat, Rooted(d, c), Stoned(d, e),
           NEW x \in Superseded(e, Scan(d), c)
    PROVE  Ripe(d, c, "superseded", x)
<1>1. PICK i \in Kind(e, {"plate"}) :
         LET f == Latest(e, Superseders(e, i))
         IN  /\ x = Doomed(i, f) /\ Eligible(e, Scan(d), i) /\ Superseders(e, i) # {}
             /\ c - e[f].cycle > PlateGrace
  BY DEF Superseded
<1> DEFINE F == Superseders(e, i)
           f == Latest(e, F)
<1>2. x.part = i /\ x.heir = f /\ F # {} /\ c - e[f].cycle > PlateGrace
  BY <1>1 DEF Doomed
<1>3. i \in 1 .. Len(d) /\ e[i] = d[i] /\ d[i].kind = "plate" /\ i \notin Dead(d)
  BY <1>1, OldNode DEF Eligible, Scan
<1>4. F = {j \in 1 .. Len(d) : d[j].kind = "plate" /\ i \in d[j].supersedes}
      /\ \A j \in F : e[j] = d[j]
  BY <1>3, OldNode DEF Superseders
<1>5. f \in F /\ \A j \in F : e[j].cycle <= e[f].cycle
  <2>1. F \in SUBSET (1 .. Len(d)) /\ F # {} /\ Extends(d, e)
    BY <1>2, <1>4 DEF Stoned
  <2> HIDE DEF F
  <2> QED BY <2>1, LatestSame
<1>6. \A j \in 1 .. Len(d) : d[j].cycle \in Nat
  BY DEF Rooted, NodeOK
<1>7. PlateGrace \in Nat
  BY PruneAssumption
<1> HIDE DEF f, F
<1>8. ASSUME NEW j \in 1 .. Len(d), d[j].kind = "plate", i \in d[j].supersedes
      PROVE  c - d[j].cycle >= PlateGrace + 1
  <2>1. j \in F
    BY <1>4, <1>8
  <2>2. d[j].cycle <= d[f].cycle /\ c - d[f].cycle > PlateGrace /\ f \in 1 .. Len(d)
    BY <1>2, <1>4, <1>5, <2>1
  <2>3. d[j].cycle \in Nat /\ d[f].cycle \in Nat
    BY <1>6, <2>2
  <2> QED BY <1>7, <2>2, <2>3, SMTT(30)
<1>9. \E j \in 1 .. Len(d) : d[j].kind = "plate" /\ i \in d[j].supersedes
  BY <1>4, <1>5
<1>10. Fits(d, Len(d), "superseded", i, c)
  BY <1>3, <1>8, <1>9 DEF Fits
<1>11. f \in 0 .. Len(d)
  BY <1>4, <1>5
<1> QED BY <1>2, <1>3, <1>10, <1>11 DEF Ripe

LEMMA CandidateIsRipe ==
    ASSUME NEW d, NEW e, NEW c \in Nat, Rooted(d, c), Rooted(e, c), Stoned(d, e),
           NEW r \in 1 .. Len(Rules), NEW x \in Candidates(Rules[r], e, Scan(d), c)
    PROVE  Ripe(d, c, Rules[r], x)
<1>1. Rules[r] \in {"orphan", "stale", "falsified", "duplicate", "unreachable", "superseded"}
  BY DEF Rules
<1>2. CASE Rules[r] = "orphan"
  <2>1. x \in Orphan(e, Scan(d), c)
    BY <1>2 DEF Candidates
  <2>2. PICK i \in Orphans(e, c) \ {Len(d)} : TRUE
    BY <2>1 DEF Orphan, Scan
  <2>3. i = Len(e) /\ e[i].kind # "tombstone"
    BY <2>2, NothingOrphaned DEF Orphans, Protected
  <2>4. Len(e) \in Len(d) + 1 .. Len(e)
    <3>1. Len(d) \in Nat /\ Len(e) \in Nat /\ Len(d) <= Len(e) /\ Len(e) # Len(d)
      BY <2>2, <2>3 DEF Stoned, Extends
    <3> QED BY <3>1
  <2> QED BY <2>3, <2>4 DEF Stoned
<1>3. CASE Rules[r] = "unreachable"
  <2>1. x \in Unreachable(e, Scan(d), c)
    BY <1>3 DEF Candidates
  <2>2. Cut(e, c) = {}
    BY NothingCut
  <2> QED BY <2>1, <2>2 DEF Unreachable
<1>4. CASE Rules[r] = "stale"
  <2>1. x \in Stale(e, Scan(d), c)
    BY <1>4 DEF Candidates
  <2> QED BY <1>4, <2>1, StaleIsRipe
<1>5. CASE Rules[r] = "falsified"
  <2>1. x \in Falsified(e, Scan(d), c)
    BY <1>5 DEF Candidates
  <2> QED BY <1>5, <2>1, FalsifiedIsRipe
<1>6. CASE Rules[r] = "duplicate"
  <2>1. x \in Duplicate(e, Scan(d), c)
    BY <1>6 DEF Candidates
  <2> QED BY <1>6, <2>1, DuplicateIsRipe
<1>7. CASE Rules[r] = "superseded"
  <2>1. x \in Superseded(e, Scan(d), c)
    BY <1>7 DEF Candidates
  <2> QED BY <1>7, <2>1, SupersededIsRipe
<1> QED BY <1>1, <1>2, <1>3, <1>4, <1>5, <1>6, <1>7

\* The parts are of the kinds the rule is for: no two rules want the same.
LEMMA OneRule ==
    ASSUME NEW d, NEW c, NEW r, NEW q, NEW x, NEW y,
           Ripe(d, c, r, x), Ripe(d, c, q, y), x.part = y.part
    PROVE  r = q
BY DEF Ripe, Fits

RuleRec(d, rule, doomed, c, n, f) ==
    f = [k \in 0 .. n |->
            IF k = 0 THEN d
            ELSE LET e == f[k - 1]
                     here == {x \in doomed : x.part = k}
                 IN  IF here = {} THEN e ELSE Bury(e, rule, CHOOSE x \in here : TRUE, c)]

LEMMA RuleExists ==
    ASSUME NEW d, NEW rule, NEW doomed, NEW c, NEW n \in Nat
    PROVE  \E f : RuleRec(d, rule, doomed, c, n, f)
<1> DEFINE Good == {k \in Nat : \E f : RuleRec(d, rule, doomed, c, k, f)}
<1>1. 0 \in Good
  <2> DEFINE f == [k \in 0 .. 0 |-> d]
  <2>1. RuleRec(d, rule, doomed, c, 0, f)
    BY DEF RuleRec
  <2> QED BY <2>1
<1>2. ASSUME NEW m \in 0 .. n - 1, m \in Good
      PROVE  m + 1 \in Good
  <2>1. PICK f : RuleRec(d, rule, doomed, c, m, f)
    BY <1>2
  <2> DEFINE last == {x \in doomed : x.part = m + 1}
             g == [k \in 0 .. m + 1 |->
                      IF k <= m THEN f[k]
                      ELSE IF last = {} THEN f[m] ELSE Bury(f[m], rule, CHOOSE x \in last : TRUE, c)]
  <2>2. f = [k \in 0 .. m |->
                IF k = 0 THEN d
                ELSE LET e == f[k - 1]
                         here == {x \in doomed : x.part = k}
                     IN  IF here = {} THEN e ELSE Bury(e, rule, CHOOSE x \in here : TRUE, c)]
    BY <2>1 DEF RuleRec
  <2>3. ASSUME NEW k \in 0 .. m + 1
        PROVE  g[k] = IF k = 0 THEN d
                      ELSE LET e == g[k - 1]
                               here == {x \in doomed : x.part = k}
                           IN  IF here = {} THEN e ELSE Bury(e, rule, CHOOSE x \in here : TRUE, c)
    <3>1. CASE k <= m
      <4>1. k \in 0 .. m /\ g[k] = f[k] /\ (k # 0 => g[k - 1] = f[k - 1])
        BY <3>1
      <4> HIDE DEF g
      <4> QED BY <2>2, <4>1
    <3>2. CASE ~(k <= m)
      <4>1. k = m + 1 /\ k # 0 /\ k - 1 = m
        BY <3>2
      <4>2. g[m + 1] = IF last = {} THEN f[m] ELSE Bury(f[m], rule, CHOOSE x \in last : TRUE, c)
        BY <4>1
      <4>3. g[k - 1] = f[m]
        BY <4>1
      <4> HIDE DEF g
      <4> QED BY <4>1, <4>2, <4>3
    <3> QED BY <3>1, <3>2
  <2>4. RuleRec(d, rule, doomed, c, m + 1, g)
    <3>1. g = [k \in 0 .. m + 1 |-> g[k]]
      OBVIOUS
    <3> HIDE DEF g
    <3> QED BY <2>3, <3>1 DEF RuleRec
  <2> QED BY <2>4
<1> HIDE DEF Good
<1>3. \A k \in 0 .. n : k \in Good
  BY <1>1, <1>2, Climb
<1>4. n \in Good
  BY <1>3
<1> QED BY <1>4 DEF Good

\* e is d with tombstones over what is doomed up to place k, one for a part.
Buried(d, e, rule, doomed, c, k) ==
    /\ Extends(d, e)
    /\ \A i \in Len(d) + 1 .. Len(e) :
          \E x \in doomed : x.part \in 1 .. k /\ e[i] = Stone(rule, x, c, i - 1)
    /\ \A i, j \in Len(d) + 1 .. Len(e) : e[i].part = e[j].part => i = j

LEMMA StonePart ==
    ASSUME NEW rule, NEW x, NEW c, NEW last
    PROVE  Stone(rule, x, c, last).part = x.part
BY DEF Stone, Node

LEMMA BuriesOne ==
    ASSUME NEW d, NEW e, NEW rule, NEW doomed, NEW c, NEW k \in Nat, Len(d) # 0,
           Buried(d, e, rule, doomed, c, k), NEW x \in doomed, x.part = k + 1
    PROVE  Buried(d, Bury(e, rule, x, c), rule, doomed, c, k + 1)
<1> DEFINE r == Stone(rule, x, c, Len(e))
           w == Bury(e, rule, x, c)
           n == Len(e)
<1>1. /\ Extends(d, e) /\ IsLog(e) /\ n \in Nat /\ n # 0 /\ Len(d) \in Nat /\ Len(d) <= n
  BY DEF Buried, Extends
<1>2. Grown(e, r, w)
  BY <1>1, BuryIs
<1> HIDE DEF w
<1>3. /\ Extends(e, w) /\ Len(w) = n + 1 /\ w[n + 1] = r
      /\ \A i \in 1 .. n : w[i] = e[i]
  BY <1>2 DEF Grown, Extends
<1>4. Extends(d, w)
  BY <1>1, <1>3, ExtendsTwice
<1>5. \A i \in Len(d) + 1 .. n + 1 : i = n + 1 \/ i \in Len(d) + 1 .. n
  BY <1>1
<1>6. \A i \in Len(d) + 1 .. n : w[i] = e[i]
  BY <1>1, <1>3
<1>7. r.part = k + 1
  BY StonePart
<1>8. ASSUME NEW i \in Len(d) + 1 .. n
      PROVE  \E y \in doomed : y.part \in 1 .. k /\ y.part \in 1 .. k + 1 /\ w[i] = Stone(rule, y, c, i - 1) /\ w[i].part = y.part
  <2>1. PICK y \in doomed : y.part \in 1 .. k /\ e[i] = Stone(rule, y, c, i - 1)
    BY DEF Buried
  <2>2. e[i].part = y.part
    BY <2>1, StonePart
  <2>3. 1 .. k \subseteq 1 .. k + 1
    OBVIOUS
  <2> QED BY <1>6, <2>1, <2>2, <2>3
<1>9. ASSUME NEW i \in Len(d) + 1 .. n + 1
      PROVE  \E y \in doomed : y.part \in 1 .. k + 1 /\ w[i] = Stone(rule, y, c, i - 1)
  <2>1. CASE i = n + 1
    <3>1. k + 1 \in 1 .. k + 1 /\ i - 1 = n
      BY <1>1, <2>1
    <3> QED BY <1>3, <2>1, <3>1
  <2>2. CASE i \in Len(d) + 1 .. n
    BY <1>8, <2>2
  <2> QED BY <1>5, <2>1, <2>2
<1>10. ASSUME NEW i \in Len(d) + 1 .. n + 1, NEW j \in Len(d) + 1 .. n + 1, w[i].part = w[j].part
       PROVE  i = j
  <2>1. \A l \in Len(d) + 1 .. n : w[l].part \in 1 .. k
    BY <1>8
  <2>2. k + 1 \notin 1 .. k
    OBVIOUS
  <2>3. CASE i = n + 1 /\ j = n + 1
    BY <2>3
  <2>4. CASE i = n + 1 /\ j \in Len(d) + 1 .. n
    <3> HIDE DEF r, n
    <3> QED BY <1>3, <1>7, <1>10, <2>1, <2>2, <2>4
  <2>5. CASE j = n + 1 /\ i \in Len(d) + 1 .. n
    <3> HIDE DEF r, n
    <3> QED BY <1>3, <1>7, <1>10, <2>1, <2>2, <2>5
  <2>6. CASE i \in Len(d) + 1 .. n /\ j \in Len(d) + 1 .. n
    BY <1>6, <1>10, <2>6 DEF Buried
  <2> QED BY <1>5, <2>3, <2>4, <2>5, <2>6
<1>11. Buried(d, w, rule, doomed, c, k + 1)
  BY <1>3, <1>4, <1>9, <1>10 DEF Buried
<1> QED BY <1>11 DEF w

LEMMA RuleBuries ==
    ASSUME NEW d, NEW rule, NEW doomed, NEW c, IsLog(d), Len(d) # 0
    PROVE  Buried(d, RunRule(d, rule, doomed, c), rule, doomed, c, Len(d))
<1> DEFINE n == Len(d)
           f == CHOOSE f : RuleRec(d, rule, doomed, c, n, f)
           Good == {k \in Nat : Buried(d, f[k], rule, doomed, c, k)}
<1>1. n \in Nat
  BY DEF IsLog
<1>2. RunRule(d, rule, doomed, c) = f[n]
  BY DEF RunRule, RuleRec
<1>3. f = [k \in 0 .. n |->
              IF k = 0 THEN d
              ELSE LET e == f[k - 1]
                       here == {x \in doomed : x.part = k}
                   IN  IF here = {} THEN e ELSE Bury(e, rule, CHOOSE x \in here : TRUE, c)]
  <2>1. \E g : RuleRec(d, rule, doomed, c, n, g)
    BY <1>1, RuleExists
  <2> QED BY <2>1 DEF RuleRec
<1> HIDE DEF f
<1>4. 0 \in Good
  <2>1. f[0] = d
    BY <1>1, <1>3
  <2>2. Extends(d, d)
    BY ExtendsItself
  <2>3. \A i \in n + 1 .. n : FALSE
    BY <1>1
  <2>4. Buried(d, d, rule, doomed, c, 0)
    BY <2>2, <2>3 DEF Buried
  <2> QED BY <2>1, <2>4
<1>5. ASSUME NEW k \in 0 .. n - 1, k \in Good
      PROVE  k + 1 \in Good
  <2> DEFINE here == {x \in doomed : x.part = k + 1}
             e == f[k]
  <2>1. k + 1 \in 0 .. n /\ k + 1 # 0 /\ (k + 1) - 1 = k /\ k \in Nat /\ k + 1 \in Nat
    BY <1>1
  <2>2. f[k + 1] = IF here = {} THEN e ELSE Bury(e, rule, CHOOSE x \in here : TRUE, c)
    <3> HIDE DEF n
    <3> QED BY <1>3, <2>1
  <2>3. Buried(d, e, rule, doomed, c, k)
    BY <1>5
  <2>4. CASE here = {}
    <3>1. 1 .. k \subseteq 1 .. k + 1
      BY <2>1
    <3> HIDE DEF e
    <3>2. Buried(d, e, rule, doomed, c, k + 1)
      BY <2>3, <3>1 DEF Buried
    <3>3. f[k + 1] = e
      BY <2>2, <2>4
    <3> QED BY <2>1, <3>2, <3>3
  <2>5. CASE here # {}
    <3> DEFINE x == CHOOSE x \in here : TRUE
    <3>1. x \in here
      BY <2>5
    <3>2. f[k + 1] = Bury(e, rule, x, c)
      BY <2>2, <2>5
    <3> HIDE DEF x, e
    <3>3. x \in doomed /\ x.part = k + 1
      BY <3>1
    <3>4. Buried(d, Bury(e, rule, x, c), rule, doomed, c, k + 1)
      BY <2>1, <2>3, <3>3, BuriesOne
    <3> QED BY <2>1, <3>2, <3>4
  <2> QED BY <2>4, <2>5
<1> HIDE DEF Good
<1>6. n \in Good
  <2>1. \A k \in 0 .. n : k \in Good
    BY <1>1, <1>4, <1>5, Climb
  <2> QED BY <1>1, <2>1
<1> QED BY <1>2, <1>6 DEF Good

AfterRec(d, c, n, f) ==
    f = [k \in 0 .. n |->
            IF k = 0 THEN d
            ELSE LET e == f[k - 1]
                 IN  RunRule(e, Rules[k], Candidates(Rules[k], e, Scan(d), c), c)]

LEMMA AfterExists ==
    ASSUME NEW d, NEW c, NEW n \in Nat
    PROVE  \E f : AfterRec(d, c, n, f)
<1> DEFINE Good == {k \in Nat : \E f : AfterRec(d, c, k, f)}
<1>1. 0 \in Good
  <2> DEFINE f == [k \in 0 .. 0 |-> d]
  <2>1. AfterRec(d, c, 0, f)
    BY DEF AfterRec
  <2> QED BY <2>1
<1>2. ASSUME NEW m \in 0 .. n - 1, m \in Good
      PROVE  m + 1 \in Good
  <2>1. PICK f : AfterRec(d, c, m, f)
    BY <1>2
  <2> DEFINE g == [k \in 0 .. m + 1 |->
                      IF k <= m THEN f[k]
                      ELSE RunRule(f[m], Rules[m + 1], Candidates(Rules[m + 1], f[m], Scan(d), c), c)]
  <2>2. f = [k \in 0 .. m |->
                IF k = 0 THEN d
                ELSE LET e == f[k - 1]
                     IN  RunRule(e, Rules[k], Candidates(Rules[k], e, Scan(d), c), c)]
    BY <2>1 DEF AfterRec
  <2>3. ASSUME NEW k \in 0 .. m + 1
        PROVE  g[k] = IF k = 0 THEN d
                      ELSE LET e == g[k - 1]
                           IN  RunRule(e, Rules[k], Candidates(Rules[k], e, Scan(d), c), c)
    <3>1. CASE k <= m
      <4>1. k \in 0 .. m /\ g[k] = f[k] /\ (k # 0 => g[k - 1] = f[k - 1])
        BY <3>1
      <4> HIDE DEF g
      <4> QED BY <2>2, <4>1
    <3>2. CASE ~(k <= m)
      <4>1. k = m + 1 /\ k # 0 /\ k - 1 = m
        BY <3>2
      <4>2. g[m + 1] = RunRule(f[m], Rules[m + 1], Candidates(Rules[m + 1], f[m], Scan(d), c), c)
        BY <4>1
      <4>3. g[k - 1] = f[m]
        BY <4>1
      <4> HIDE DEF g
      <4> QED BY <4>1, <4>2, <4>3
    <3> QED BY <3>1, <3>2
  <2>4. AfterRec(d, c, m + 1, g)
    <3>1. g = [k \in 0 .. m + 1 |-> g[k]]
      OBVIOUS
    <3> HIDE DEF g
    <3> QED BY <2>3, <3>1 DEF AfterRec
  <2> QED BY <2>4
<1> HIDE DEF Good
<1>3. \A k \in 0 .. n : k \in Good
  BY <1>1, <1>2, Climb
<1>4. n \in Good
  BY <1>3
<1> QED BY <1>4 DEF Good

\* A tombstone at place i over a part that is ripe for one of the first k rules.
RipeStone(d, e, c, k, i) ==
    \E r \in 1 .. k : \E x : Ripe(d, c, Rules[r], x) /\ e[i] = Stone(Rules[r], x, c, i - 1)

\* e is d after the first k rules.
Scanned(d, e, c, k) ==
    /\ Extends(d, e)
    /\ \A i \in Len(d) + 1 .. Len(e) : RipeStone(d, e, c, k, i)
    /\ \A i, j \in Len(d) + 1 .. Len(e) : e[i].part = e[j].part => i = j

LEMMA StoneFields ==
    ASSUME NEW rule, NEW x, NEW c, NEW n, NEW s, s = Stone(rule, x, c, n)
    PROVE  /\ s.kind = "tombstone" /\ s.cycle = c /\ s.supersedes = {}
           /\ s.parents = {x.part} \cup {n} /\ s.part = x.part /\ s.heir = x.heir /\ s.rule = rule
BY DEF Stone, Node

LEMMA ScannedRooted ==
    ASSUME NEW d, NEW e, NEW c \in Nat, NEW k, Rooted(d, c), Scanned(d, e, c, k)
    PROVE  Rooted(e, c) /\ Stoned(d, e)
<1>1. /\ Extends(d, e) /\ IsLog(e) /\ Len(d) \in Nat /\ Len(e) \in Nat /\ Len(d) <= Len(e) /\ Len(d) # 0
      /\ \A i \in 1 .. Len(d) : e[i] = d[i]
  BY DEF Scanned, Extends, Rooted
<1>2. ASSUME NEW i \in Len(d) + 1 .. Len(e)
      PROVE  NodeOK(e, c, i) /\ e[i].kind = "tombstone"
  <2>1. PICK r, x : r \in 1 .. k /\ Ripe(d, c, Rules[r], x) /\ e[i] = Stone(Rules[r], x, c, i - 1)
    BY DEF Scanned, RipeStone
  <2> DEFINE s == e[i]
  <2>2. /\ s.kind = "tombstone" /\ s.cycle = c /\ s.supersedes = {}
        /\ s.parents = {x.part} \cup {i - 1} /\ s.part = x.part /\ s.heir = x.heir
    BY <2>1, StoneFields
  <2>3. x.part \in 1 .. Len(d) /\ x.heir \in 0 .. Len(d)
    BY <2>1 DEF Ripe
  <2>4. i - 1 \in 1 .. i - 1 /\ 1 .. Len(d) \subseteq 1 .. i - 1 /\ 0 .. Len(d) \subseteq 0 .. i - 1
        /\ 1 .. i - 1 \subseteq 0 .. i - 1 /\ i # 1 /\ c \in 0 .. c
    BY <1>1
  <2> HIDE DEF s
  <2>5. /\ s.cycle \in 0 .. c /\ ~(s.kind = "genesis") /\ s.kind # "accusation"
        /\ s.parents \subseteq 1 .. i - 1 /\ i - 1 \in s.parents
        /\ \A j \in s.supersedes : j \in 1 .. i - 1 /\ e[j].kind = "plate"
        /\ s.part \in 0 .. i - 1 /\ s.heir \in 0 .. i - 1
    BY <2>2, <2>3, <2>4
  <2> QED BY <2>2, <2>4, <2>5 DEF NodeOK, s
<1>3. ASSUME NEW i \in 1 .. Len(d)
      PROVE  NodeOK(e, c, i)
  <2>1. e[i] = d[i] /\ NodeOK(d, c, i) /\ \A j \in 1 .. i - 1 : e[j] = d[j]
    BY <1>1 DEF Rooted
  <2> QED BY <2>1 DEF NodeOK
<1>4. \A i \in 1 .. Len(e) : i \in 1 .. Len(d) \/ i \in Len(d) + 1 .. Len(e)
  BY <1>1
<1>5. Len(e) # 0
  BY <1>1
<1> QED BY <1>1, <1>2, <1>3, <1>4, <1>5 DEF Rooted, Stoned

LEMMA OneMoreRule ==
    ASSUME NEW d, NEW e, NEW c \in Nat, Rooted(d, c), NEW k \in Nat, k < Len(Rules), Scanned(d, e, c, k)
    PROVE  Scanned(d, RunRule(e, Rules[k + 1], Candidates(Rules[k + 1], e, Scan(d), c), c), c, k + 1)
<1> DEFINE rule == Rules[k + 1]
           D == Candidates(rule, e, Scan(d), c)
           w == RunRule(e, rule, D, c)
           n == Len(e)
<1>1. Rooted(e, c) /\ Stoned(d, e)
  BY ScannedRooted
<1>2. Buried(e, w, rule, D, c, n)
  BY <1>1, RuleBuries DEF Rooted
<1>3. k + 1 \in 1 .. Len(Rules) /\ k + 1 \in 1 .. k + 1 /\ 1 .. k \subseteq 1 .. k + 1
  BY DEF Rules
<1>4. \A x \in D : Ripe(d, c, rule, x)
  BY <1>1, <1>3, CandidateIsRipe
<1> HIDE DEF w, D
<1>5. /\ Extends(d, e) /\ Extends(e, w) /\ Extends(d, w)
      /\ n \in Nat /\ Len(d) \in Nat /\ Len(w) \in Nat /\ Len(d) <= n /\ n <= Len(w)
      /\ \A i \in 1 .. n : w[i] = e[i]
  <2>1. Extends(d, e) /\ Extends(e, w)
    BY <1>2 DEF Buried, Scanned
  <2>2. Extends(d, w)
    BY <2>1, ExtendsTwice
  <2> QED BY <2>1, <2>2 DEF Extends
<1>6. \A i \in Len(d) + 1 .. Len(w) : i \in Len(d) + 1 .. n \/ i \in n + 1 .. Len(w)
  BY <1>5
<1>7. ASSUME NEW i \in Len(d) + 1 .. n
      PROVE  \E r \in 1 .. k : \E x : /\ Ripe(d, c, Rules[r], x) /\ w[i] = Stone(Rules[r], x, c, i - 1)
                                      /\ w[i].part = x.part
  <2>1. PICK r, x : r \in 1 .. k /\ Ripe(d, c, Rules[r], x) /\ e[i] = Stone(Rules[r], x, c, i - 1)
    BY DEF Scanned, RipeStone
  <2>2. e[i].part = x.part
    BY <2>1, StonePart
  <2>3. w[i] = e[i]
    BY <1>5
  <2> QED BY <2>1, <2>2, <2>3
<1>8. ASSUME NEW i \in n + 1 .. Len(w)
      PROVE  \E x : Ripe(d, c, rule, x) /\ w[i] = Stone(rule, x, c, i - 1) /\ w[i].part = x.part
  <2>1. PICK x \in D : w[i] = Stone(rule, x, c, i - 1)
    BY <1>2 DEF Buried
  <2>2. w[i].part = x.part
    BY <2>1, StonePart
  <2> QED BY <1>4, <2>1, <2>2
<1>9. ASSUME NEW i \in Len(d) + 1 .. Len(w)
      PROVE  RipeStone(d, w, c, k + 1, i)
  <2>1. CASE i \in Len(d) + 1 .. n
    BY <1>3, <1>7, <2>1 DEF RipeStone
  <2>2. CASE i \in n + 1 .. Len(w)
    BY <1>3, <1>8, <2>2 DEF RipeStone
  <2> QED BY <1>6, <2>1, <2>2
<1>10. ASSUME NEW i \in Len(d) + 1 .. n, NEW j \in n + 1 .. Len(w)
       PROVE  w[i].part # w[j].part
  <2>1. PICK r, x : r \in 1 .. k /\ Ripe(d, c, Rules[r], x) /\ w[i].part = x.part
    BY <1>7
  <2>2. PICK y : Ripe(d, c, rule, y) /\ w[j].part = y.part
    BY <1>8
  <2>3. Rules[r] # rule
    BY <2>1, SMTT(30) DEF Rules
  <2> QED BY <2>1, <2>2, <2>3, OneRule
<1>11. ASSUME NEW i \in Len(d) + 1 .. Len(w), NEW j \in Len(d) + 1 .. Len(w), w[i].part = w[j].part
       PROVE  i = j
  <2>1. CASE i \in Len(d) + 1 .. n /\ j \in Len(d) + 1 .. n
    <3>1. w[i] = e[i] /\ w[j] = e[j]
      BY <1>5, <2>1
    <3> QED BY <1>11, <2>1, <3>1 DEF Scanned
  <2>2. CASE i \in n + 1 .. Len(w) /\ j \in n + 1 .. Len(w)
    BY <1>2, <1>11, <2>2 DEF Buried
  <2> QED BY <1>6, <1>10, <1>11, <2>1, <2>2
<1>12. Scanned(d, w, c, k + 1)
  BY <1>5, <1>9, <1>11 DEF Scanned
<1> QED BY <1>12 DEF w, D

\* What a scan leaves behind.
LEMMA ScanIs ==
    ASSUME NEW d, NEW c \in Nat, Rooted(d, c)
    PROVE  Scanned(d, RunPruneScan(d, c), c, Len(Rules))
<1> DEFINE n == Len(Rules)
           f == CHOOSE f : AfterRec(d, c, n, f)
           Good == {k \in Nat : Scanned(d, f[k], c, k)}
<1>1. n \in Nat
  BY DEF Rules
<1>2. RunPruneScan(d, c) = f[n]
  BY DEF RunPruneScan, AfterRec
<1>3. f = [k \in 0 .. n |->
              IF k = 0 THEN d
              ELSE LET e == f[k - 1]
                   IN  RunRule(e, Rules[k], Candidates(Rules[k], e, Scan(d), c), c)]
  <2>1. \E g : AfterRec(d, c, n, g)
    BY <1>1, AfterExists
  <2> QED BY <2>1 DEF AfterRec
<1> HIDE DEF f
<1>4. 0 \in Good
  <2>1. f[0] = d
    BY <1>1, <1>3
  <2>2. Extends(d, d) /\ Len(d) \in Nat
    BY ExtendsItself DEF Rooted, IsLog
  <2>3. \A i \in Len(d) + 1 .. Len(d) : FALSE
    BY <2>2
  <2>4. Scanned(d, d, c, 0)
    BY <2>2, <2>3 DEF Scanned
  <2> QED BY <2>1, <2>4
<1>5. ASSUME NEW k \in 0 .. n - 1, k \in Good
      PROVE  k + 1 \in Good
  <2>1. k + 1 \in 0 .. n /\ k + 1 # 0 /\ (k + 1) - 1 = k /\ k \in Nat /\ k + 1 \in Nat /\ k < n
    BY <1>1
  <2>2. f[k + 1] = RunRule(f[k], Rules[k + 1], Candidates(Rules[k + 1], f[k], Scan(d), c), c)
    <3> HIDE DEF n
    <3> QED BY <1>3, <2>1
  <2>3. Scanned(d, f[k], c, k)
    BY <1>5
  <2>4. Scanned(d, f[k + 1], c, k + 1)
    <3> DEFINE e == f[k]
    <3> HIDE DEF e
    <3>1. Scanned(d, RunRule(e, Rules[k + 1], Candidates(Rules[k + 1], e, Scan(d), c), c), c, k + 1)
      BY <2>1, <2>3, OneMoreRule DEF e
    <3> QED BY <2>2, <3>1 DEF e
  <2> QED BY <2>1, <2>4
<1> HIDE DEF Good
<1>6. n \in Good
  <2>1. \A k \in 0 .. n : k \in Good
    BY <1>1, <1>4, <1>5, Climb
  <2> QED BY <1>1, <2>1
<1> QED BY <1>2, <1>6 DEF Good

LEMMA ScanMourns ==
    ASSUME NEW d, NEW e, NEW c \in Nat, NEW k, Rooted(d, c), Mourned(d), Scanned(d, e, c, k)
    PROVE  Mourned(e)
<1>1. /\ Extends(d, e) /\ Len(d) \in Nat /\ Len(e) \in Nat /\ Len(d) <= Len(e)
      /\ DOMAIN d = 1 .. Len(d) /\ \A i \in 1 .. Len(d) : e[i] = d[i]
  BY DEF Scanned, Extends
<1>2. \A i \in 1 .. Len(e) : i \in 1 .. Len(d) \/ i \in Len(d) + 1 .. Len(e)
  BY <1>1
<1>3. \A i \in Len(d) + 1 .. Len(e) : e[i].kind = "tombstone"
  BY ScannedRooted DEF Stoned
<1>4. ASSUME NEW t \in Len(d) + 1 .. Len(e)
      PROVE  StoneOK(e, t) /\ e[t].part \notin Dead(d)
  <2>1. PICK r, x : r \in 1 .. k /\ Ripe(d, c, Rules[r], x) /\ e[t] = Stone(Rules[r], x, c, t - 1)
    BY DEF Scanned, RipeStone
  <2>2. e[t].part = x.part /\ e[t].rule = Rules[r] /\ e[t].cycle = c
    BY <2>1, StoneFields
  <2>3. x.part \in 1 .. Len(d) /\ x.part \notin Dead(d) /\ Fits(d, Len(d), Rules[r], x.part, c)
    BY <2>1 DEF Ripe
  <2>4. t \in Nat /\ Len(d) <= t /\ 1 .. Len(d) \subseteq 1 .. t - 1
        /\ Len(d) + 1 .. t \subseteq Len(d) + 1 .. Len(e)
    BY <1>1
  <2>5. Fits(e, t, Rules[r], x.part, c)
    BY <1>1, <1>3, <2>3, <2>4, FitsKeeps
  <2> QED BY <2>2, <2>3, <2>4, <2>5 DEF StoneOK
<1>5. ASSUME NEW t \in 1 .. Len(d), d[t].kind = "tombstone"
      PROVE  StoneOK(e, t) /\ e[t].part \in Dead(d)
  <2>1. StoneOK(e, t)
    BY <1>1, <1>5, StoneStands DEF Mourned
  <2>2. t \in Kind(d, {"tombstone"})
    BY <1>1, <1>5 DEF Kind
  <2> QED BY <1>1, <2>1, <2>2 DEF Dead
<1>6. ASSUME NEW t \in 1 .. Len(e), NEW u \in 1 .. Len(e),
             e[t].kind = "tombstone", e[u].kind = "tombstone", e[t].part = e[u].part
      PROVE  t = u
  <2>1. CASE t \in 1 .. Len(d) /\ u \in 1 .. Len(d)
    BY <1>1, <1>6, <2>1 DEF Mourned, OneStone
  <2>2. CASE t \in Len(d) + 1 .. Len(e) /\ u \in Len(d) + 1 .. Len(e)
    BY <1>6, <2>2 DEF Scanned
  <2>3. CASE t \in 1 .. Len(d) /\ u \in Len(d) + 1 .. Len(e)
    BY <1>1, <1>4, <1>5, <1>6, <2>3
  <2>4. CASE u \in 1 .. Len(d) /\ t \in Len(d) + 1 .. Len(e)
    BY <1>1, <1>4, <1>5, <1>6, <2>4
  <2> QED BY <1>2, <2>1, <2>2, <2>3, <2>4
<1>7. OneStone(e)
  BY <1>6 DEF OneStone
<1>8. ASSUME NEW t \in 1 .. Len(e), e[t].kind = "tombstone"
      PROVE  StoneOK(e, t)
  BY <1>1, <1>2, <1>4, <1>5, <1>8
<1> QED BY <1>7, <1>8 DEF Mourned

-----------------------------------------------------------------------------
(* Counting. *)

LEMMA KindIs ==
    ASSUME NEW d, IsLog(d), NEW kinds
    PROVE  /\ Kind(d, kinds) = {i \in 1 .. Len(d) : d[i].kind \in kinds}
           /\ IsFiniteSet(Kind(d, kinds)) /\ Kind(d, kinds) \subseteq 1 .. Len(d)
           /\ \A S \in SUBSET Kind(d, kinds) : IsFiniteSet(S)
<1>1. Kind(d, kinds) = {i \in 1 .. Len(d) : d[i].kind \in kinds}
  BY LogIsSeq DEF Kind
<1>2. Len(d) \in Int /\ 1 \in Int
  BY DEF IsLog
<1>3. IsFiniteSet(1 .. Len(d))
  BY <1>2, FS_Interval
<1>4. Kind(d, kinds) \in SUBSET (1 .. Len(d))
  BY <1>1
<1>5. \A S \in SUBSET (1 .. Len(d)) : IsFiniteSet(S)
  BY <1>3, FS_Subset
<1> QED BY <1>1, <1>4, <1>5

LEMMA KindKeeps ==
    ASSUME NEW d, NEW e, Extends(d, e), NEW kinds,
           \A i \in Len(d) + 1 .. Len(e) : e[i].kind \notin kinds
    PROVE  Kind(e, kinds) = Kind(d, kinds) /\ \A i \in Kind(d, kinds) : e[i] = d[i]
<1>1. /\ Len(d) \in Nat /\ Len(e) \in Nat /\ Len(d) <= Len(e)
      /\ \A i \in 1 .. Len(d) : i \in 1 .. Len(e) /\ e[i] = d[i]
      /\ DOMAIN d = 1 .. Len(d) /\ DOMAIN e = 1 .. Len(e)
  BY DEF Extends
<1>2. \A i \in 1 .. Len(e) : i \in 1 .. Len(d) \/ i \in Len(d) + 1 .. Len(e)
  BY <1>1
<1> QED BY <1>1, <1>2 DEF Kind

LEMMA CountedKeeps ==
    ASSUME NEW d, NEW e, NEW c, Extends(d, e), Counted(d, c),
           \A i \in Len(d) + 1 .. Len(e) : e[i].kind # "cycle_advanced"
    PROVE  Counted(e, c)
<1>1. /\ Kind(e, {"cycle_advanced"}) = Kind(d, {"cycle_advanced"})
      /\ \A i \in Kind(d, {"cycle_advanced"}) : e[i] = d[i]
  BY KindKeeps
<1> QED BY <1>1 DEF Counted

LEMMA CountedAdvances ==
    ASSUME NEW d, NEW r, NEW e, NEW c \in Nat, Grown(d, r, e), Counted(d, c),
           r.kind = "cycle_advanced", r.cycle = c + 1
    PROVE  Counted(e, c + 1)
<1> DEFINE A == Kind(d, {"cycle_advanced"})
           n == Len(d) + 1
<1>1. /\ Extends(d, e) /\ IsLog(d) /\ IsLog(e) /\ Len(d) \in Nat /\ Len(e) = n /\ e[n] = r
      /\ \A i \in 1 .. Len(d) : e[i] = d[i]
      /\ \A i \in 1 .. Len(e) : i \in 1 .. Len(d) \/ i = n
  BY DEF Grown, Extends
<1>2. n \notin A /\ IsFiniteSet(A) /\ A = {i \in 1 .. Len(d) : d[i].kind = "cycle_advanced"}
  <2>1. A = {i \in 1 .. Len(d) : d[i].kind \in {"cycle_advanced"}} /\ IsFiniteSet(A)
    BY <1>1, KindIs
  <2>2. n \notin 1 .. Len(d)
    BY <1>1
  <2> QED BY <2>1, <2>2
<1>3. Kind(e, {"cycle_advanced"}) = A \cup {n}
  <2>1. Kind(e, {"cycle_advanced"}) = {i \in 1 .. Len(e) : e[i].kind \in {"cycle_advanced"}}
    BY <1>1, KindIs
  <2>2. n \in 1 .. Len(e) /\ \A i \in 1 .. Len(d) : i \in 1 .. Len(e)
    BY <1>1
  <2> HIDE DEF A, n
  <2> QED BY <1>1, <1>2, <2>1, <2>2
<1>4. Cardinality(A \cup {n}) = Cardinality(A) + 1
  <2> HIDE DEF A, n
  <2> QED BY <1>2, FS_AddElement
<1>5. Cardinality(A) = c
  BY DEF Counted
<1>6. n \in Kind(e, {"cycle_advanced"}) /\ e[n].cycle = c + 1
  BY <1>1, <1>3
<1> HIDE DEF A, n
<1> QED BY <1>3, <1>4, <1>5, <1>6 DEF Counted

-----------------------------------------------------------------------------
(* Hoarding. *)

\* What is written stays.
LEMMA ReportStays ==
    ASSUME NEW d, NEW e, Extends(d, e), NEW b, Reported(d, b)
    PROVE  Reported(e, b)
<1>1. IsLog(d) /\ IsLog(e) /\ \A i \in 1 .. Len(d) : i \in 1 .. Len(e) /\ e[i] = d[i]
  BY DEF Extends
<1>2. \A kinds : Kind(d, kinds) = {i \in 1 .. Len(d) : d[i].kind \in kinds}
                 /\ Kind(e, kinds) = {i \in 1 .. Len(e) : e[i].kind \in kinds}
  BY <1>1, KindIs
<1>3. In(d, {"immune"}, b - 1, b - 1) \subseteq In(e, {"immune"}, b - 1, b - 1)
  BY <1>1, <1>2 DEF In
<1>4. \A i \in In(d, {"immune"}, b - 1, b - 1) : e[i] = d[i]
  BY <1>1, <1>2 DEF In
<1> QED BY <1>3, <1>4 DEF Reported

\* Requests raise no C54.
LEMMA AlarmedKeeps ==
    ASSUME NEW d, NEW e, NEW c \in Nat, Extends(d, e), Alarmed(d, c),
           \A i \in Len(d) + 1 .. Len(e) : ~(e[i].kind = "immune" /\ e[i].name = "C54")
    PROVE  Alarmed(e, c)
<1>1. ASSUME NEW i \in Kind(e, {"immune"}), e[i].name = "C54"
      PROVE  e[i].cycle < c
  <2>1. i \in 1 .. Len(e) /\ e[i].kind = "immune"
    BY KindIs DEF Extends
  <2>2. i \in 1 .. Len(d) /\ e[i] = d[i]
    BY <1>1, <2>1 DEF Extends
  <2>3. i \in Kind(d, {"immune"})
    BY <2>1, <2>2, KindIs DEF Extends
  <2> QED BY <1>1, <2>2, <2>3 DEF Alarmed
<1> QED BY <1>1 DEF Alarmed

\* The C54 that a cycle writes is the report of that cycle.
LEMMA AlarmedAdvances ==
    ASSUME NEW d, NEW e, NEW c \in Nat, Rooted(d, c), Extends(d, e), Alarmed(d, c),
           \A i \in Len(d) + 1 .. Len(e) :
              e[i].kind = "immune" /\ e[i].name = "C54" => e[i].cycle = c
    PROVE  /\ Alarmed(e, c + 1)
           /\ Reported(e, c + 1)
                 <=> \E i \in Len(d) + 1 .. Len(e) : e[i].kind = "immune" /\ e[i].name = "C54"
<1>3. /\ Len(d) \in Nat /\ Len(e) \in Nat /\ Len(d) <= Len(e) /\ IsLog(d) /\ IsLog(e)
      /\ \A i \in 1 .. Len(d) : i \in 1 .. Len(e) /\ e[i] = d[i]
  BY DEF Extends
<1>4. \A i \in 1 .. Len(e) : i \in 1 .. Len(d) \/ i \in Len(d) + 1 .. Len(e)
  BY <1>3
<1>5. /\ Kind(d, {"immune"}) = {i \in 1 .. Len(d) : d[i].kind = "immune"}
      /\ Kind(e, {"immune"}) = {i \in 1 .. Len(e) : e[i].kind = "immune"}
  <2>1. /\ Kind(d, {"immune"}) = {i \in 1 .. Len(d) : d[i].kind \in {"immune"}}
        /\ Kind(e, {"immune"}) = {i \in 1 .. Len(e) : e[i].kind \in {"immune"}}
    BY <1>3, KindIs
  <2> QED BY <2>1
<1>6. ASSUME NEW i \in 1 .. Len(d), e[i].kind = "immune", e[i].name = "C54"
      PROVE  e[i].cycle \in Nat /\ e[i].cycle < c
  <2>1. e[i] = d[i] /\ i \in Kind(d, {"immune"})
    BY <1>3, <1>5, <1>6
  <2>2. d[i].cycle \in Nat
    BY DEF Rooted, NodeOK
  <2> QED BY <1>6, <2>1, <2>2 DEF Alarmed
<1>7. ASSUME NEW i \in Kind(e, {"immune"}), e[i].name = "C54"
      PROVE  e[i].cycle < c + 1
  <2>1. i \in 1 .. Len(e) /\ e[i].kind = "immune"
    BY <1>5
  <2>2. CASE i \in 1 .. Len(d)
    <3>1. e[i].cycle \in Nat /\ e[i].cycle < c
      BY <1>6, <1>7, <2>1, <2>2
    <3> QED BY <3>1
  <2>3. CASE i \in Len(d) + 1 .. Len(e)
    <3>1. e[i].cycle = c
      BY <1>7, <2>1, <2>3
    <3> QED BY <3>1
  <2> QED BY <1>4, <2>1, <2>2, <2>3
<1>8. Reported(e, c + 1) <=> \E i \in Len(d) + 1 .. Len(e) : e[i].kind = "immune" /\ e[i].name = "C54"
  <2>1. ASSUME Reported(e, c + 1)
        PROVE  \E i \in Len(d) + 1 .. Len(e) : e[i].kind = "immune" /\ e[i].name = "C54"
    <3>1. PICK i \in 1 .. Len(e) : /\ e[i].kind = "immune" /\ e[i].name = "C54"
                                   /\ e[i].cycle >= (c + 1) - 1 /\ e[i].cycle <= (c + 1) - 1
      BY <1>5, <2>1 DEF Reported, In
    <3>2. i \notin 1 .. Len(d)
      <4>1. ASSUME i \in 1 .. Len(d)
            PROVE  FALSE
        <5>1. e[i].cycle \in Nat /\ e[i].cycle < c
          BY <1>6, <3>1, <4>1
        <5> QED BY <3>1, <5>1
      <4> QED BY <4>1
    <3> QED BY <1>4, <3>1, <3>2
  <2>2. ASSUME NEW i \in Len(d) + 1 .. Len(e), e[i].kind = "immune", e[i].name = "C54"
        PROVE  Reported(e, c + 1)
    <3>1. i \in 1 .. Len(e) /\ (c + 1) - 1 = c /\ e[i].cycle = c /\ c >= c /\ c <= c
      BY <1>3, <2>2
    <3>2. i \in In(e, {"immune"}, c, c)
      BY <1>5, <2>2, <3>1 DEF In
    <3> QED BY <2>2, <3>1, <3>2 DEF Reported
  <2> QED BY <2>1, <2>2
<1> QED BY <1>7, <1>8 DEF Alarmed

-----------------------------------------------------------------------------
(* The checks. *)

\* What holds of the DAG between two steps.
DagInv(d, c) == Rooted(d, c) /\ Mourned(d) /\ Counted(d, c) /\ Alarmed(d, c)

LEMMA NothingFails ==
    ASSUME NEW d, NEW c \in Nat, Rooted(d, c), Counted(d, c)
    PROVE  Failing(d, c) = {}
<1>1. /\ DOMAIN d = 1 .. Len(d) /\ Len(d) \in Nat /\ Len(d) # 0 /\ IsLog(d)
      /\ \A i \in 1 .. Len(d) : d[i].cycle \in 0 .. c /\ (d[i].kind = "genesis" <=> i = 1)
  BY LogIsSeq DEF Rooted, IsLog, NodeOK
<1>2. ~\E i \in DOMAIN d : d[i].cycle > c
  BY <1>1
<1>3. c = Derived(d)
  <2> DEFINE A == Kind(d, {"cycle_advanced"})
             S == {0} \cup {d[i].cycle : i \in A}
  <2>1. A \subseteq 1 .. Len(d)
    BY <1>1 DEF Kind
  <2>2. c \in S
    BY DEF Counted
  <2>3. \A y \in S : y \in 0 .. c
    BY <1>1, <2>1
  <2> HIDE DEF S
  <2>4. \A x \in S : (\A y \in S : x >= y) => x = c
    BY <2>2, <2>3
  <2>5. \A y \in S : c >= y
    BY <2>3
  <2>6. Max(S) = c
    BY <2>2, <2>4, <2>5 DEF Max
  <2> QED BY <2>6 DEF Derived, S
<1>4. Silent(d, c) = {}
  BY NothingOrphaned DEF Silent
<1>5. SoleGenesis(d)
  <2>1. Kind(d, {"genesis"}) = {1}
    BY <1>1 DEF Kind
  <2>2. Cardinality({1}) = 1
    BY FS_Singleton
  <2> QED BY <2>1, <2>2 DEF SoleGenesis
<1>6. CyclesMatch(d, c)
  BY DEF CyclesMatch, Counted
<1> HIDE DEF DagInv
<1> QED BY <1>2, <1>3, <1>4, <1>5, <1>6 DEF Failing

\* An examination finds nothing: it leaves a witness, or was made before.
LEMMA ExaminedIs ==
    ASSUME NEW d, NEW c \in Nat, Rooted(d, c), Counted(d, c)
    PROVE  \/ Examined(d, c) = d
           \/ Grown(d, Fresh("invariant_witness", None, c, {} \cup {Len(d)}), Examined(d, c))
<1>1. Failing(d, c) = {}
  BY NothingFails
<1>2. Examined(d, c) = Witnessed(d, c)
  <2> DEFINE S == Failing(d, c)
             It(it) == it = [s \in SUBSET S |->
                                IF s = {} THEN d
                                ELSE LET x == CHOOSE x \in s : TRUE
                                     IN  Insert(it[s \ {x}], "accusation", x, c, {})]
             f == CHOOSE it : It(it)
  <2>1. Examined(d, c) = Witnessed(f[S], c)
    BY DEF Examined, FoldSet, MapThenFoldSet
  <2>2. It([s \in SUBSET S |-> d])
    <3>1. \A s \in SUBSET S : s = {}
      BY <1>1
    <3> HIDE DEF S
    <3> QED BY <3>1
  <2>3. It(f)
    BY <2>2
  <2> HIDE DEF f
  <2>4. f[S] = d
    <3> HIDE DEF S
    <3>1. S = {}
      BY <1>1 DEF S
    <3> QED BY <2>3, <3>1
  <2> QED BY <2>1, <2>4
<1>3. Grown(d, Fresh("invariant_witness", None, c, {} \cup {Len(d)}),
            Insert(d, "invariant_witness", None, c, {}))
  BY InsertIs DEF Rooted
<1> QED BY <1>2, <1>3 DEF Witnessed

-----------------------------------------------------------------------------
(* The steps. *)

\* The node of a request.
Plain(d, c, r) ==
    /\ Fitting(d, c, r) /\ r.cycle = c
    /\ r.kind \notin {"tombstone", "cycle_advanced"} /\ ~(r.kind = "immune" /\ r.name = "C54")

LEMMA PlainKeeps ==
    ASSUME NEW d, NEW c \in Nat, NEW r, NEW e, DagInv(d, c), Grown(d, r, e), Plain(d, c, r)
    PROVE  DagInv(e, c) /\ Extends(d, e)
<1>1. \A i \in Len(d) + 1 .. Len(e) : e[i] = r
  BY DEF Grown, Extends
<1>2. Rooted(e, c)
  BY RootedGrows DEF DagInv, Plain
<1>3. Mourned(e)
  BY MournedGrows DEF DagInv, Plain
<1>4. Counted(e, c)
  BY <1>1, CountedKeeps DEF DagInv, Plain, Grown
<1>5. Alarmed(e, c)
  <2>1. \A i \in Len(d) + 1 .. Len(e) :
           ~(e[i].kind = "immune" /\ e[i].name = "C54")
    BY <1>1 DEF Plain
  <2> QED BY <2>1, AlarmedKeeps DEF DagInv, Grown
<1>6. Extends(d, e)
  BY DEF Grown
<1> QED BY <1>2, <1>3, <1>4, <1>5, <1>6 DEF DagInv

LEMMA InsertKeeps ==
    ASSUME NEW d, NEW c \in Nat, DagInv(d, c), NEW kind, NEW name, NEW parts,
           parts \subseteq 1 .. Len(d),
           kind \notin {"genesis", "accusation", "tombstone", "cycle_advanced"},
           ~(kind = "immune" /\ name = "C54")
    PROVE  LET e == Insert(d, kind, name, c, parts) IN DagInv(e, c) /\ Extends(d, e)
<1> DEFINE r == Fresh(kind, name, c, parts \cup {Len(d)})
<1>1. IsLog(d) /\ Len(d) \in Nat /\ Len(d) # 0
  BY DEF DagInv, Rooted, IsLog
<1>2. Grown(d, r, Insert(d, kind, name, c, parts))
  BY <1>1, InsertIs
<1>3. Fitting(d, c, r)
  <2>1. c \in 0 .. c
    OBVIOUS
  <2> QED BY <1>1, <2>1, FreshFits
<1>4. r.cycle = c /\ r.kind = kind /\ r.name = name
  BY DEF Fresh, Node
<1> HIDE DEF r
<1>5. Plain(d, c, r)
  BY <1>3, <1>4 DEF Plain
<1> QED BY <1>2, <1>5, PlainKeeps

LEMMA ForgedKeeps ==
    ASSUME NEW d, NEW c \in Nat, DagInv(d, c), NEW sources, NEW sups,
           sources \subseteq 1 .. Len(d), sups \subseteq Kind(d, {"plate"})
    PROVE  LET e == Forged(d, sources, sups, c) IN DagInv(e, c) /\ Extends(d, e)
<1> DEFINE r == Plate(c, sups, sources \cup {Len(d)})
<1>1. IsLog(d) /\ Len(d) \in Nat /\ Len(d) # 0
  BY DEF DagInv, Rooted, IsLog
<1>2. Grown(d, r, Forged(d, sources, sups, c))
  BY <1>1, ForgedIs
<1>3. \A j \in sups : j \in 1 .. Len(d) /\ d[j].kind = "plate"
  BY <1>1, KindIs
<1>4. Fitting(d, c, r)
  BY <1>1, <1>3, PlateFits
<1>5. r.cycle = c /\ r.kind = "plate"
  BY DEF Plate, Node
<1> HIDE DEF r
<1>6. Plain(d, c, r)
  BY <1>4, <1>5 DEF Plain
<1> QED BY <1>2, <1>6, PlainKeeps

LEMMA ExaminedKeeps ==
    ASSUME NEW d, NEW c \in Nat, DagInv(d, c)
    PROVE  DagInv(Examined(d, c), c) /\ Extends(d, Examined(d, c))
<1> DEFINE r == Fresh("invariant_witness", None, c, {} \cup {Len(d)})
<1>1. Len(d) \in Nat /\ Len(d) # 0
  BY DEF DagInv, Rooted, IsLog
<1>2. Fitting(d, c, r)
  <2>1. c \in 0 .. c
    OBVIOUS
  <2> QED BY <1>1, <2>1, FreshFits
<1>3. r.cycle = c /\ r.kind = "invariant_witness"
  BY DEF Fresh, Node
<1>4. Examined(d, c) = d \/ Grown(d, r, Examined(d, c))
  BY ExaminedIs DEF DagInv
<1> HIDE DEF r
<1>5. Plain(d, c, r)
  BY <1>2, <1>3 DEF Plain
<1>6. Extends(d, d)
  BY ExtendsItself DEF DagInv, Rooted
<1> QED BY <1>4, <1>5, <1>6, PlainKeeps

\* e is d with what a cycle adds before its alarm.
Before(d, e, c) ==
    /\ Rooted(e, c + 1) /\ Mourned(e) /\ Extends(d, e)
    /\ \A i \in Len(d) + 1 .. Len(e) : e[i].cycle = c + 1 /\ e[i].kind \in {"sporocarp", "tombstone"}

LEMMA NothingBefore ==
    ASSUME NEW d, NEW c \in Nat, DagInv(d, c)
    PROVE  Before(d, d, c)
<1>1. Len(d) \in Nat /\ IsLog(d)
  BY DEF DagInv, Rooted, IsLog
<1>2. \A i \in Len(d) + 1 .. Len(d) : FALSE
  BY <1>1
<1>3. Rooted(d, c + 1)
  <2>1. c + 1 \in Nat /\ c <= c + 1
    OBVIOUS
  <2> QED BY <2>1, RootedLater DEF DagInv
<1> QED BY <1>1, <1>2, <1>3, ExtendsItself DEF Before, DagInv

LEMMA FruitBefore ==
    ASSUME NEW d, NEW c \in Nat, DagInv(d, c), NEW name
    PROVE  Before(d, Insert(d, "sporocarp", name, c + 1, {}), c)
<1> DEFINE r == Fresh("sporocarp", name, c + 1, {} \cup {Len(d)})
           e == Insert(d, "sporocarp", name, c + 1, {})
<1>1. Len(d) \in Nat /\ Len(d) # 0 /\ IsLog(d) /\ Rooted(d, c) /\ Mourned(d)
  BY DEF DagInv, Rooted, IsLog
<1>2. Grown(d, r, e)
  BY <1>1, InsertIs
<1>3. c + 1 \in Nat /\ c <= c + 1 /\ c + 1 \in 0 .. c + 1
  OBVIOUS
<1>4. Fitting(d, c + 1, r)
  <2> DEFINE b == c + 1
  <2> HIDE DEF b
  <2>1. Fitting(d, b, Fresh("sporocarp", name, b, {} \cup {Len(d)}))
    BY <1>1, <1>3, FreshFits DEF b
  <2> QED BY <2>1 DEF b
<1>5. r.cycle = c + 1 /\ r.kind = "sporocarp"
  BY DEF Fresh, Node
<1> HIDE DEF r, e
<1>6. Rooted(e, c + 1)
  BY <1>1, <1>2, <1>3, <1>4, RootedGrows
<1>7. Mourned(e)
  BY <1>1, <1>2, <1>5, MournedGrows
<1>8. \A i \in Len(d) + 1 .. Len(e) : e[i] = r
  BY <1>2 DEF Grown, Extends
<1>9. Before(d, e, c)
  BY <1>2, <1>5, <1>6, <1>7, <1>8 DEF Before, Grown
<1> QED BY <1>9 DEF e

LEMMA ScanBefore ==
    ASSUME NEW d, NEW e, NEW c \in Nat, Before(d, e, c)
    PROVE  Before(d, RunPruneScan(e, c + 1), c)
<1> DEFINE w == RunPruneScan(e, c + 1)
           b == c + 1
<1>1. b \in Nat /\ Rooted(e, b) /\ Mourned(e)
  BY DEF Before
<1>2. Scanned(e, w, b, Len(Rules))
  <2> HIDE DEF b
  <2>1. Scanned(e, RunPruneScan(e, b), b, Len(Rules))
    BY <1>1, ScanIs
  <2> QED BY <2>1 DEF b
<1> HIDE DEF w
<1>3. Rooted(w, b) /\ Mourned(w)
  BY <1>1, <1>2, ScannedRooted, ScanMourns
<1>4. /\ Extends(e, w) /\ Extends(d, e) /\ Extends(d, w)
      /\ Len(d) \in Nat /\ Len(e) \in Nat /\ Len(w) \in Nat /\ Len(d) <= Len(e) /\ Len(e) <= Len(w)
      /\ \A i \in 1 .. Len(e) : w[i] = e[i]
  <2>1. Extends(e, w) /\ Extends(d, e)
    BY <1>2 DEF Scanned, Before
  <2>2. Extends(d, w)
    BY <2>1, ExtendsTwice
  <2> QED BY <2>1, <2>2 DEF Extends
<1>5. ASSUME NEW i \in Len(d) + 1 .. Len(w)
      PROVE  w[i].cycle = c + 1 /\ w[i].kind \in {"sporocarp", "tombstone"}
  <2>1. CASE i \in Len(d) + 1 .. Len(e)
    <3>1. w[i] = e[i]
      BY <1>4, <2>1
    <3> QED BY <2>1, <3>1 DEF Before
  <2>2. CASE i \in Len(e) + 1 .. Len(w)
    <3>1. PICK r, x : r \in 1 .. Len(Rules) /\ w[i] = Stone(Rules[r], x, b, i - 1)
      BY <1>2, <2>2 DEF Scanned, RipeStone
    <3>2. w[i].kind = "tombstone" /\ w[i].cycle = b
      BY <3>1, StoneFields
    <3> QED BY <3>2
  <2> QED BY <1>4, <2>1, <2>2
<1>6. Before(d, w, c)
  BY <1>3, <1>4, <1>5 DEF Before
<1> QED BY <1>6 DEF w

\* What the handler counts is the window that ends.
LEMMA HoardingIs ==
    ASSUME NEW d, NEW e, NEW w, NEW c \in Nat, Rooted(d, c), Before(d, e, c), Rooted(w, c + 1), Extends(e, w),
           \A i \in Len(e) + 1 .. Len(w) : w[i].kind \in {"immune", "cycle_advanced"}
    PROVE  Hoarding(e, c + 1) <=> Hoarded(w, c + 1)
<1> DEFINE b == c + 1
           first == b - HoardWindow
           R == Kind(e, {"raw_material"})
           T == Kind(e, {"tombstone"})
<1>1. /\ Kind(w, {"raw_material"}) = R /\ \A i \in R : w[i] = e[i]
      /\ Kind(w, {"tombstone"}) = T /\ \A i \in T : w[i] = e[i]
  <2>1. \A i \in Len(e) + 1 .. Len(w) : w[i].kind \notin {"raw_material"} /\ w[i].kind \notin {"tombstone"}
    OBVIOUS
  <2> QED BY <2>1, KindKeeps
<1>2. \A i \in R : e[i].cycle \in 0 .. c
  <2>1. \A i \in Len(d) + 1 .. Len(e) : e[i].kind \notin {"raw_material"}
    BY DEF Before
  <2>2. Kind(d, {"raw_material"}) = R /\ \A i \in R : e[i] = d[i]
    BY <2>1, KindKeeps DEF Before
  <2>3. R \subseteq 1 .. Len(d) /\ \A i \in 1 .. Len(d) : d[i].cycle \in 0 .. c
    BY <2>2, KindIs DEF Rooted, NodeOK
  <2> QED BY <2>2, <2>3
<1>3. \A i \in T : e[i].cycle \in 0 .. b
  <2>1. T \subseteq 1 .. Len(e)
    BY KindIs DEF Before, Rooted
  <2> QED BY <2>1 DEF Before, Rooted, NodeOK
<1>4. HoardWindow \in Nat /\ IngestionFloor \in Nat /\ first \in Int /\ b - 1 = c /\ c \in Int /\ b \in Int
  BY PruneAssumption
<1>5. In(w, {"raw_material"}, first, b - 1) = {i \in R : e[i].cycle >= first}
  <2> HIDE DEF R, first, b
  <2> QED BY <1>1, <1>2, <1>4 DEF In
<1>6. In(w, {"tombstone"}, first, b) = {i \in T : e[i].cycle >= first}
  <2> HIDE DEF T, first, b
  <2> QED BY <1>1, <1>3, <1>4 DEF In
<1>7. Cardinality({i \in T : e[i].cycle >= first}) < 1 <=> {i \in T : e[i].cycle >= first} = {}
  <2> DEFINE S == {i \in T : e[i].cycle >= first}
  <2>1. IsFiniteSet(S)
    BY KindIs DEF Before, Rooted
  <2> HIDE DEF S
  <2>2. Cardinality(S) \in Nat /\ (Cardinality(S) = 0 <=> S = {})
    BY <2>1, FS_CardinalityType, FS_EmptySet
  <2>3. Cardinality(S) < 1 <=> S = {}
    BY <2>2
  <2> QED BY <2>3 DEF S
<1>8. /\ CountSince(e, "raw_material", first) = Cardinality({i \in R : e[i].cycle >= first})
      /\ CountSince(e, "tombstone", first) = Cardinality({i \in T : e[i].cycle >= first})
  BY DEF CountSince
<1> HIDE DEF R, T, first, b
<1>9. Hoarding(e, b) <=> /\ b >= HoardWindow
                         /\ CountSince(e, "raw_material", first) >= IngestionFloor
                         /\ CountSince(e, "tombstone", first) < 1
  BY DEF Hoarding, first
<1>10. Hoarded(w, b) <=> /\ b >= HoardWindow
                         /\ Cardinality(In(w, {"raw_material"}, first, b - 1)) >= IngestionFloor
                         /\ In(w, {"tombstone"}, first, b) = {}
  BY DEF Hoarded, first
<1>11. Hoarding(e, b) <=> Hoarded(w, b)
  BY <1>5, <1>6, <1>7, <1>8, <1>9, <1>10
<1> QED BY <1>11 DEF b

LEMMA TurnKeeps ==
    ASSUME NEW d, NEW e, NEW c \in Nat, DagInv(d, c), Before(d, e, c),
           NEW alarm \in BOOLEAN
    PROVE  LET f == IF alarm THEN Insert(e, "immune", "C54", c, {}) ELSE e
               w == Insert(f, "cycle_advanced", None, c + 1, {})
           IN  /\ DagInv(w, c + 1) /\ Extends(d, w)
               /\ Hoarding(e, c + 1) <=> Hoarded(w, c + 1)
               /\ Reported(w, c + 1) <=> alarm
<1> DEFINE b == c + 1
           f == IF alarm THEN Insert(e, "immune", "C54", c, {}) ELSE e
           w == Insert(f, "cycle_advanced", None, b, {})
           s == Fresh("immune", "C54", c, {} \cup {Len(e)})
           r == Fresh("cycle_advanced", None, b, {} \cup {Len(f)})
<1>1. b \in Nat /\ c \in 0 .. b /\ b \in 0 .. b /\ b <= b /\ c <= b /\ b >= c /\ c \in Nat
  OBVIOUS
<1>2. /\ Rooted(e, b) /\ Mourned(e) /\ Extends(d, e)
      /\ IsLog(e) /\ Len(e) \in Nat /\ Len(e) # 0
  BY DEF Before, Rooted, IsLog
<1>3. alarm => Grown(e, s, f)
  BY <1>2, InsertIs
<1>4. s.kind = "immune" /\ s.name = "C54" /\ s.cycle = c
  BY DEF Fresh, Node
<1>5. Fitting(e, b, s)
  <2> HIDE DEF b
  <2> QED BY <1>1, <1>2, FreshFits
<1>6. ~alarm => f = e
  OBVIOUS
<1> HIDE DEF f, s
<1>7. Rooted(f, b) /\ Mourned(f) /\ Extends(e, f)
  <2>1. CASE alarm
    <3>1. Rooted(f, b)
      BY <1>1, <1>2, <1>3, <1>5, <2>1, RootedGrows
    <3>2. Mourned(f)
      BY <1>2, <1>3, <1>4, <2>1, MournedGrows
    <3> QED BY <1>3, <2>1, <3>1, <3>2 DEF Grown
  <2>2. CASE ~alarm
    BY <1>2, <1>6, <2>2, ExtendsItself
  <2> QED BY <2>1, <2>2
<1>8. IsLog(f) /\ Len(f) \in Nat /\ Len(f) # 0
  BY <1>7 DEF Rooted, IsLog
<1>9. Grown(f, r, w)
  BY <1>8, InsertIs
<1>10. r.kind = "cycle_advanced" /\ r.cycle = b
  BY DEF Fresh, Node
<1>11. Fitting(f, b, r)
  <2> HIDE DEF b
  <2> QED BY <1>1, <1>8, FreshFits
<1> HIDE DEF w, r
<1>12. Rooted(w, b)
  BY <1>1, <1>7, <1>9, <1>11, RootedGrows
<1>13. Mourned(w)
  BY <1>7, <1>9, <1>10, MournedGrows
<1>14. \A i \in Len(e) + 1 .. Len(f) : alarm /\ f[i] = s
  <2>1. CASE alarm
    BY <1>2, <1>3, <2>1 DEF Grown
  <2>2. CASE ~alarm
    BY <1>2, <1>6, <2>2
  <2> QED BY <2>1, <2>2
<1>15. /\ Len(d) \in Nat /\ Len(e) \in Nat /\ Len(f) \in Nat /\ Len(d) <= Len(e) /\ Len(e) <= Len(f)
       /\ Len(w) = Len(f) + 1 /\ w[Len(f) + 1] = r
       /\ \A i \in 1 .. Len(f) : w[i] = f[i]
       /\ \A i \in 1 .. Len(e) : f[i] = e[i]
  BY <1>2, <1>7, <1>9 DEF Extends, Grown
<1>16. ASSUME NEW i \in Len(d) + 1 .. Len(w)
       PROVE  \/ w[i].cycle = b /\ w[i].kind \in {"sporocarp", "tombstone"} /\ i <= Len(f)
              \/ alarm /\ w[i] = s /\ i <= Len(f)
              \/ w[i] = r /\ i = Len(f) + 1
  <2>1. CASE i \in Len(d) + 1 .. Len(e)
    <3>1. w[i] = e[i] /\ i <= Len(f)
      BY <1>15, <2>1
    <3> QED BY <2>1, <3>1 DEF Before
  <2>2. CASE i \in Len(e) + 1 .. Len(f)
    <3>1. w[i] = f[i] /\ i <= Len(f)
      BY <1>15, <2>2
    <3> QED BY <1>14, <2>2, <3>1
  <2>3. CASE i = Len(f) + 1
    BY <1>15, <2>3
  <2>4. i \in Len(d) + 1 .. Len(e) \/ i \in Len(e) + 1 .. Len(f) \/ i = Len(f) + 1
    BY <1>15
  <2> QED BY <2>1, <2>2, <2>3, <2>4
<1>17. Counted(w, b)
  <2>1. Extends(d, f)
    BY <1>2, <1>7, ExtendsTwice
  <2>2. \A i \in Len(d) + 1 .. Len(f) : f[i].kind # "cycle_advanced"
    <3>1. ASSUME NEW i \in Len(d) + 1 .. Len(f)
          PROVE  f[i].kind # "cycle_advanced"
      <4>1. CASE i \in Len(d) + 1 .. Len(e)
        <5>1. f[i] = e[i]
          BY <1>15, <4>1
        <5> QED BY <4>1, <5>1 DEF Before
      <4>2. CASE i \in Len(e) + 1 .. Len(f)
        BY <1>4, <1>14, <4>2
      <4>3. i \in Len(d) + 1 .. Len(e) \/ i \in Len(e) + 1 .. Len(f)
        BY <1>15
      <4> QED BY <4>1, <4>2, <4>3
    <3> QED BY <3>1
  <2>3. Counted(f, c)
    BY <2>1, <2>2, CountedKeeps DEF DagInv
  <2> QED BY <1>9, <1>10, <2>3, CountedAdvances
<1>18. Extends(e, w) /\ Extends(d, w)
  <2>1. Extends(f, w)
    BY <1>9 DEF Grown
  <2> QED BY <1>2, <1>7, <2>1, ExtendsTwice
<1>19. Hoarding(e, b) <=> Hoarded(w, b)
  <2>1. ASSUME NEW i \in Len(e) + 1 .. Len(w)
        PROVE  w[i].kind \in {"immune", "cycle_advanced"}
    <3>1. CASE i \in Len(e) + 1 .. Len(f)
      <4>1. w[i] = f[i]
        BY <1>15, <3>1
      <4> QED BY <1>4, <1>14, <3>1, <4>1
    <3>2. CASE i = Len(f) + 1
      BY <1>10, <1>15, <3>2
    <3>3. i \in Len(e) + 1 .. Len(f) \/ i = Len(f) + 1
      BY <1>15
    <3> QED BY <3>1, <3>2, <3>3
  <2> QED BY <1>12, <1>18, <2>1, HoardingIs DEF DagInv
<1>20. (\E i \in Len(d) + 1 .. Len(w) : w[i].kind = "immune" /\ w[i].name = "C54") <=> alarm
  <2>1. ASSUME NEW i \in Len(d) + 1 .. Len(w), w[i].kind = "immune"
        PROVE  alarm
    BY <1>10, <1>16, <2>1
  <2>2. ASSUME alarm
        PROVE  \E i \in Len(d) + 1 .. Len(w) : w[i].kind = "immune" /\ w[i].name = "C54"
    <3>1. Len(f) = Len(e) + 1 /\ f[Len(f)] = s
      BY <1>3, <2>2 DEF Grown
    <3>2. Len(f) \in 1 .. Len(f) /\ Len(f) \in Len(d) + 1 .. Len(w)
      BY <1>15, <3>1
    <3>3. w[Len(f)] = s
      BY <1>15, <3>1, <3>2
    <3> QED BY <1>4, <3>2, <3>3
  <2> QED BY <2>1, <2>2
<1>21. Alarmed(w, b) /\ (Reported(w, b) <=> alarm)
  <2>1. \A i \in Len(d) + 1 .. Len(w) :
              w[i].kind = "immune" /\ w[i].name = "C54" => w[i].cycle = c
    BY <1>4, <1>10, <1>16
  <2>2. Rooted(d, c) /\ Alarmed(d, c)
    BY DEF DagInv
  <2> QED BY <1>18, <1>20, <2>1, <2>2, AlarmedAdvances
<1>22. DagInv(w, b)
  BY <1>12, <1>13, <1>17, <1>21 DEF DagInv
<1> QED BY <1>18, <1>19, <1>21, <1>22 DEF w, f

\* Multiples of a number are at least that number apart.
LEMMA MultiplesApart ==
    ASSUME NEW n \in Nat \ {0}, NEW a \in Nat, NEW b \in Nat, a < b, a % n = 0, b % n = 0
    PROVE  b - a >= n
<1>1. \A k \in Nat : k % n = 0 => \E q \in Nat : k = n * q
  OBVIOUS
<1>2. PICK p \in Nat : a = n * p
  BY <1>1
<1>3. PICK q \in Nat : b = n * q
  BY <1>1
<1>4. \A i, j \in Nat : n * i < n * j => i < j
  OBVIOUS
<1>5. \A i, j \in Nat : i < j => n * j - n * i >= n
  OBVIOUS
<1> QED BY <1>2, <1>3, <1>4, <1>5

\* Two scans are an interval apart: the cooldown never holds C54 back.
LEMMA ScansApart ==
    ASSUME NEW a \in Nat, NEW b \in Nat, a < b, a % Interval = 0, b % Interval = 0
    PROVE  b - a >= HoardCooldown
<1>1. Interval \in Nat \ {0} /\ HoardCooldown \in Nat /\ HoardCooldown <= Interval
  BY PruneAssumption
<1>2. b - a >= Interval
  BY <1>1, MultiplesApart
<1> QED BY <1>1, <1>2

-----------------------------------------------------------------------------
(* The inductive invariant is one. *)

Alarm(c, a) == a = Never \/ (a \in 0 .. c /\ a % Interval = 0)

LEMMA PruneInvIs ==
    PruneInv <=> /\ cycle \in Nat /\ DagInv(dag, cycle) /\ Alarm(cycle, alarmAt)
                 /\ Spoken(dag, cycle, spoken)
BY DEF PruneInv, DagInv, Alarm

LEMMA PruneStarts == Init => PruneInv
<1> SUFFICES ASSUME Init PROVE PruneInv
  OBVIOUS
<1> DEFINE r == Fresh("genesis", None, 0, {})
<1>1. cycle = 0 /\ alarmAt = Never /\ spoken = Never /\ Grown(<<>>, r, dag)
  BY FirstIs DEF Init
<1>2. /\ r.kind = "genesis" /\ r.cycle = 0 /\ r.parents = {} /\ r.supersedes = {}
      /\ r.part = 0 /\ r.heir = 0
  BY DEF Fresh, Node, None
<1>3. IsLog(dag) /\ Len(dag) = 1 /\ dag[1] = r
  BY <1>1 DEF Grown, Extends
<1> HIDE DEF r
<1>4. \A i \in 1 .. Len(dag) : i = 1 /\ dag[i].kind = "genesis"
  BY <1>2, <1>3
<1>5. NodeOK(dag, 0, 1)
  BY <1>2, <1>3 DEF NodeOK
<1>6. Rooted(dag, 0)
  BY <1>3, <1>4, <1>5 DEF Rooted
<1>7. Mourned(dag)
  BY <1>4 DEF Mourned, OneStone
<1>8. \A kinds : "genesis" \notin kinds => Kind(dag, kinds) = {}
  BY <1>3, <1>4, KindIs
<1>9. Counted(dag, 0)
  <2>1. Kind(dag, {"cycle_advanced"}) = {}
    BY <1>8
  <2> QED BY <2>1, FS_EmptySet DEF Counted
<1>10. Alarmed(dag, 0)
  <2>1. Kind(dag, {"immune"}) = {}
    BY <1>8
  <2> QED BY <2>1 DEF Alarmed
<1> QED BY <1>1, <1>6, <1>7, <1>9, <1>10 DEF PruneInv, Spoken

\* A request is the insertion of a node, or nothing, at the present cycle.
LEMMA RequestsKeep ==
    ASSUME PruneInv, Ingest \/ RegisterAxis \/ Perturb \/ Evolve \/ PerturbFromRaw \/ Forge
                     \/ PreserveAll \/ RunImmuneCheck
    PROVE  PruneInv'
<1>1. /\ cycle \in Nat /\ DagInv(dag, cycle) /\ Alarm(cycle, alarmAt)
      /\ Spoken(dag, cycle, spoken)
  BY PruneInvIs
<1>2. IsLog(dag)
  BY <1>1 DEF DagInv, Rooted
<1>3. ASSUME NEW e, DagInv(e, cycle), Extends(dag, e), Request(e)
      PROVE  PruneInv'
  <2>1. dag' = e /\ cycle' = cycle /\ alarmAt' = alarmAt /\ spoken' = spoken
    BY <1>3 DEF Request
  <2>2. Spoken(e, cycle, spoken)
    BY <1>1, <1>3, ReportStays DEF Spoken
  <2> QED BY <1>1, <1>3, <2>1, <2>2 DEF PruneInv, DagInv, Alarm
<1>4. ASSUME NEW kind, NEW name, NEW parts, parts \subseteq 1 .. Len(dag),
             kind \notin {"genesis", "accusation", "tombstone", "cycle_advanced"},
             ~(kind = "immune" /\ name = "C54"), Request(Insert(dag, kind, name, cycle, parts))
      PROVE  PruneInv'
  BY <1>1, <1>3, <1>4, InsertKeeps
<1>5. CASE Ingest
  <2>1. PICK m : Request(Insert(dag, "raw_material", m, cycle, {}))
    BY <1>5 DEF Ingest
  <2> QED BY <1>4, <2>1
<1>6. CASE RegisterAxis
  <2>1. PICK a : Request(Insert(dag, "axis_registered", a, cycle, {}))
    BY <1>6 DEF RegisterAxis
  <2> QED BY <1>4, <2>1
<1>7. CASE Perturb
  <2>1. PICK a : Request(Insert(dag, "axis_perturbed", a, cycle, {}))
    BY <1>7 DEF Perturb
  <2> QED BY <1>4, <2>1
<1>8. CASE Evolve
  <2>1. PICK op \in Ops, outcome \in {"evolution_succeeded", "evolution_failed"} :
           Request(Insert(dag, outcome, op, cycle, {}))
    BY <1>8 DEF Evolve
  <2> QED BY <1>4, <2>1
<1>9. CASE PerturbFromRaw
  <2>1. PICK a \in Axes : \E i \in Kind(dag, {"raw_material"}) :
           Request(Insert(dag, "perturb_from_raw", a, cycle, {i}))
    BY <1>9 DEF PerturbFromRaw
  <2>3. PICK i \in Kind(dag, {"raw_material"}) : Request(Insert(dag, "perturb_from_raw", a, cycle, {i}))
    BY <2>1
  <2>2. {i} \subseteq 1 .. Len(dag)
    BY <1>2, KindIs
  <2> QED BY <1>4, <2>2, <2>3
<1>10. CASE Forge
  <2>1. PICK sources \in SUBSET Kind(dag, {"raw_material"}), sups \in SUBSET Kind(dag, {"plate"}) :
           Request(Forged(dag, sources, sups, cycle))
    BY <1>10 DEF Forge
  <2>2. sources \subseteq 1 .. Len(dag)
    BY <1>2, KindIs
  <2> QED BY <1>1, <1>3, <2>1, <2>2, ForgedKeeps
<1>11. CASE PreserveAll
  <2>1. Request(Insert(dag, "immune", "C56", cycle, {}))
    BY <1>11 DEF PreserveAll
  <2> QED BY <1>4, <2>1
<1>12. CASE RunImmuneCheck
  <2>1. Request(Examined(dag, cycle))
    BY <1>12 DEF RunImmuneCheck
  <2> QED BY <1>1, <1>3, <2>1, ExaminedKeeps
<1> QED BY <1>5, <1>6, <1>7, <1>8, <1>9, <1>10, <1>11, <1>12

LEMMA RestartKeeps ==
    ASSUME PruneInv, Restart
    PROVE  PruneInv'
<1>1. cycle \in Nat /\ DagInv(dag, cycle)
  BY PruneInvIs
<1>2. dag' = Examined(dag, cycle) /\ cycle' = cycle /\ alarmAt' = Never /\ spoken' = Never
  BY DEF Restart
<1>3. DagInv(Examined(dag, cycle), cycle)
  BY <1>1, ExaminedKeeps
<1> QED BY <1>1, <1>2, <1>3 DEF PruneInv, DagInv, Spoken

\* The cooldown holds nothing back, the limiter what was written in its second.
LEMMA AdvanceKeeps ==
    ASSUME PruneInv, Advance
    PROVE  /\ PruneInv' /\ cycle' = cycle + 1
           /\ Reported(dag', cycle') => cycle' % Interval = 0 /\ Hoarded(dag', cycle')
           /\ cycle' % Interval = 0 /\ Hoarded(dag', cycle')
                 => spoken' # Never /\ Reported(dag', spoken')
<1> DEFINE c == cycle
           b == c + 1
<1>1. /\ c \in Nat /\ DagInv(dag, c) /\ Alarm(c, alarmAt) /\ b \in Nat
      /\ Spoken(dag, c, spoken)
  BY PruneInvIs
<1>2. PICK fruit \in {{}} \cup {{a} : a \in {a \in Axes : Known(a)}},
           last \in {spoken, Never} :
          LET d1 == IF fruit = {} THEN dag ELSE Insert(dag, "sporocarp", <<fruit, b>>, b, {})
              scan == b % Interval = 0
              d2 == IF scan THEN RunPruneScan(d1, b) ELSE d1
              alarm == scan /\ Hoarding(d2, b) /\ Due(b)
              written == Written(alarm, last)
              d3 == IF written THEN Insert(d2, "immune", "C54", c, {}) ELSE d2
          IN  /\ dag' = Insert(d3, "cycle_advanced", None, b, {})
              /\ alarmAt' = IF alarm THEN b ELSE alarmAt
              /\ spoken' = IF written THEN b ELSE last
  BY DEF Advance
<1> DEFINE d1 == IF fruit = {} THEN dag ELSE Insert(dag, "sporocarp", <<fruit, b>>, b, {})
           scan == b % Interval = 0
           d2 == IF scan THEN RunPruneScan(d1, b) ELSE d1
           alarm == scan /\ Hoarding(d2, b) /\ Due(b)
           written == Written(alarm, last)
           d3 == IF written THEN Insert(d2, "immune", "C54", c, {}) ELSE d2
<1>3. Before(dag, d1, c)
  BY <1>1, NothingBefore, FruitBefore
<1>4. Before(dag, d2, c)
  <2> HIDE DEF d1
  <2> QED BY <1>1, <1>3, ScanBefore
<1>5. scan => Due(b)
  <2>1. ASSUME scan, alarmAt # Never
        PROVE  b - alarmAt >= HoardCooldown
    <3>1. alarmAt \in Nat /\ alarmAt < b /\ alarmAt % Interval = 0
      BY <1>1, <2>1 DEF Alarm
    <3> QED BY <1>1, <2>1, <3>1, ScansApart
  <2> QED BY <2>1 DEF Due
<1>6. /\ dag' = Insert(d3, "cycle_advanced", None, b, {})
      /\ alarmAt' = (IF alarm THEN b ELSE alarmAt)
      /\ spoken' = (IF written THEN b ELSE last)
      /\ cycle' = b
  BY <1>2 DEF Advance
<1> HIDE DEF d2
<1>7. written \in BOOLEAN /\ (written <=> alarm /\ last = Never)
  BY DEF Written
<1>8. alarm <=> scan /\ Hoarding(d2, b)
  BY <1>5
<1> HIDE DEF written, alarm
<1>9. /\ DagInv(dag', b) /\ Extends(dag, dag')
      /\ Hoarding(d2, b) <=> Hoarded(dag', b)
      /\ Reported(dag', b) <=> written
  BY <1>1, <1>4, <1>6, <1>7, TurnKeeps
<1> HIDE DEF d3, scan, b
<1>10. Alarm(b, alarmAt')
  <2>1. CASE alarm
    <3>1. b \in 0 .. b /\ b % Interval = 0
      BY <1>1, <1>8, <2>1 DEF scan
    <3> QED BY <1>6, <2>1, <3>1 DEF Alarm
  <2>2. CASE ~alarm
    <3>1. 0 .. c \subseteq 0 .. b
      BY <1>1 DEF b
    <3> QED BY <1>1, <1>6, <2>2, <3>1 DEF Alarm
  <2> QED BY <2>1, <2>2
<1>11. Spoken(dag', b, spoken')
  <2>1. CASE written
    <3>1. b \in 1 .. b
      BY <1>1 DEF b
    <3> QED BY <1>6, <1>9, <2>1, <3>1 DEF Spoken
  <2>2. CASE ~written
    <3>1. 1 .. c \subseteq 1 .. b
      BY <1>1 DEF b
    <3>2. spoken' = Never \/ spoken' = spoken
      BY <1>6, <2>2
    <3>3. Spoken(dag', b, spoken)
      BY <1>1, <1>9, <3>1, ReportStays DEF Spoken
    <3> QED BY <3>2, <3>3 DEF Spoken
  <2> QED BY <1>7, <2>1, <2>2
<1>12. PruneInv'
  BY <1>1, <1>6, <1>9, <1>10, <1>11 DEF PruneInv, DagInv, Alarm
<1>13. Reported(dag', b) => scan /\ Hoarded(dag', b)
  BY <1>7, <1>8, <1>9
<1>14. ASSUME scan, Hoarded(dag', b)
       PROVE  spoken' # Never /\ Reported(dag', spoken')
  <2>1. alarm
    BY <1>8, <1>9, <1>14
  <2>2. spoken' # Never
    <3>1. CASE written
      BY <1>1, <1>6, <3>1 DEF Never
    <3>2. CASE ~written
      BY <1>6, <1>7, <2>1, <3>2
    <3> QED BY <1>7, <3>1, <3>2
  <2> QED BY <1>11, <2>2 DEF Spoken
<1> QED BY <1>6, <1>12, <1>13, <1>14 DEF scan, b

LEMMA PruneInvariant == Spec => []PruneInv
<1>1. ASSUME PruneInv, [Next]_vars
      PROVE  PruneInv'
  <2>1. CASE UNCHANGED vars
    BY <1>1, <2>1 DEF PruneInv, Spoken, vars, Never
  <2>2. CASE Advance
    BY <1>1, <2>2, AdvanceKeeps
  <2>3. CASE Restart
    BY <1>1, <2>3, RestartKeeps
  <2>4. CASE Ingest \/ RegisterAxis \/ Perturb \/ Evolve \/ PerturbFromRaw \/ Forge
             \/ PreserveAll \/ RunImmuneCheck
    BY <1>1, <2>4, RequestsKeep
  <2> QED BY <1>1, <2>1, <2>2, <2>3, <2>4 DEF Next
<1> QED BY <1>1, PruneStarts, PTL DEF Spec

-----------------------------------------------------------------------------
(* The theorems. *)

LEMMA Stands ==
    ASSUME PruneInv, NEW t \in Tombstones
    PROVE  /\ IsLog(dag) /\ Len(dag) \in Nat /\ DOMAIN dag = 1 .. Len(dag) /\ t \in 1 .. Len(dag)
           /\ dag[t].kind = "tombstone"
           /\ dag[t].part \in 1 .. t - 1 /\ dag[t].part \in 1 .. Len(dag)
           /\ Fits(dag, t, dag[t].rule, dag[t].part, dag[t].cycle)
<1>1. IsLog(dag) /\ Len(dag) \in Nat /\ DOMAIN dag = 1 .. Len(dag)
  BY LogIsSeq DEF PruneInv, Rooted, IsLog
<1>2. t \in 1 .. Len(dag) /\ dag[t].kind = "tombstone"
  BY <1>1 DEF Tombstones, Kind
<1>3. StoneOK(dag, t)
  BY <1>2 DEF PruneInv, Mourned
<1>4. 1 .. t - 1 \subseteq 1 .. Len(dag)
  BY <1>1, <1>2
<1> QED BY <1>1, <1>2, <1>3, <1>4 DEF StoneOK

\* A part dies once, and what dies is never protected: collect_already_tombstoned
\* and is_prune_eligible, over scans and over the rules of one scan.
THEOREM DiesOnce == Spec => []TombstonedOnce
<1>1. ASSUME PruneInv
      PROVE  TombstonedOnce
  <2> SUFFICES ASSUME NEW t \in Tombstones
               PROVE  /\ dag[dag[t].part].kind \notin Protected
                      /\ \A u \in Tombstones : dag[u].part = dag[t].part => u = t
    BY DEF TombstonedOnce
  <2>1. dag[dag[t].part].kind \notin Protected
    BY <1>1, Stands DEF Fits, Protected
  <2>2. ASSUME NEW u \in Tombstones, dag[u].part = dag[t].part
        PROVE  u = t
    BY <1>1, <2>2, Stands DEF PruneInv, Mourned, OneStone
  <2> QED BY <2>1, <2>2
<1> QED BY <1>1, PruneInvariant, PTL

\* Whatever the handlers insert, every node stays an ancestor of the tip, and
\* the checks of integrity.rs accuse a lawful substrate of nothing.
THEOREM Connected == Spec => []NothingFallsOff
<1>1. ASSUME PruneInv
      PROVE  NothingFallsOff
  <2>1. /\ Rooted(dag, cycle) /\ IsLog(dag) /\ Len(dag) \in Nat /\ Len(dag) # 0
        /\ DOMAIN dag = 1 .. Len(dag) /\ \A i \in 1 .. Len(dag) : NodeOK(dag, cycle, i)
    BY <1>1, LogIsSeq DEF PruneInv, Rooted, IsLog
  <2>2. Ancestry(dag, {Len(dag)}) = DOMAIN dag
    <3>1. {Len(dag)} \subseteq 1 .. Len(dag) /\ Len(dag) \in {Len(dag)}
      BY <2>1
    <3> QED BY <2>1, <3>1, AncestryIs
  <2>3. \A t \in Tombstones : dag[t].rule \notin {"orphan", "unreachable"}
    <3> TAKE t \in Tombstones
    <3> QED BY <1>1, Stands DEF Fits
  <2>4. Kind(dag, {"accusation"}) = {}
    BY <2>1 DEF Kind, NodeOK
  <2> QED BY <2>2, <2>3, <2>4 DEF NothingFallsOff
<1> QED BY <1>1, PruneInvariant, PTL

\* A part is buried only when the newest evidence about it is older than the
\* grace: the touches of its axis, the failures of its operation, the plates
\* that supersede it.
THEOREM GraceFromTheLastWord == Spec => []GraceRunsFromTheLastWord
<1>1. ASSUME PruneInv
      PROVE  GraceRunsFromTheLastWord
  <2> SUFFICES ASSUME NEW t \in Tombstones
               PROVE  LET p == dag[t].part
                          before == SubSeq(dag, 1, t)
                          Older(S, grace) == \A i \in S : dag[t].cycle - dag[i].cycle >= grace
                      IN  CASE dag[t].rule = "stale" -> Older(Touches(before, dag[p].name), StaleGrace)
                            [] dag[t].rule = "falsified" -> Older(Failures(before, dag[p].name), ErroneousGrace + 1)
                            [] dag[t].rule = "superseded" -> Older(Superseders(before, p), PlateGrace + 1)
                            [] dag[t].rule = "duplicate" -> Older({p}, RedundantGrace)
                            [] OTHER -> TRUE
    BY DEF GraceRunsFromTheLastWord
  <2> DEFINE p == dag[t].part
             before == SubSeq(dag, 1, t)
             c == dag[t].cycle
  <2>1. /\ IsLog(dag) /\ Len(dag) \in Nat /\ DOMAIN dag = 1 .. Len(dag) /\ t \in 1 .. Len(dag)
        /\ Fits(dag, t, dag[t].rule, p, c)
    BY <1>1, Stands
  <2>2. DOMAIN before = 1 .. t /\ \A i \in 1 .. t : before[i] = dag[i]
    BY <2>1, PrefixIs
  <2> HIDE DEF before, p, c
  <2>3. \A kinds : Kind(before, kinds) = {i \in 1 .. t : dag[i].kind \in kinds}
                   /\ \A i \in Kind(before, kinds) : before[i] = dag[i]
    BY <2>2 DEF Kind
  <2>4. CASE dag[t].rule = "stale"
    <3>1. ASSUME NEW i \in Touches(before, dag[p].name)
          PROVE  c - dag[i].cycle >= StaleGrace
      BY <2>1, <2>3, <2>4 DEF Touches, Fits, Quiet
    <3> QED BY <2>4, <3>1 DEF p, c, before
  <2>5. CASE dag[t].rule = "falsified"
    <3>1. ASSUME NEW i \in Failures(before, dag[p].name)
          PROVE  c - dag[i].cycle >= ErroneousGrace + 1
      BY <2>1, <2>3, <2>5 DEF Failures, Fits, Quiet
    <3> QED BY <2>5, <3>1 DEF p, c, before
  <2>6. CASE dag[t].rule = "superseded"
    <3>1. ASSUME NEW i \in Superseders(before, p)
          PROVE  c - dag[i].cycle >= PlateGrace + 1
      BY <2>1, <2>3, <2>6 DEF Superseders, Fits
    <3> QED BY <2>6, <3>1 DEF p, c, before
  <2>7. CASE dag[t].rule = "duplicate"
    <3>1. c - dag[p].cycle >= RedundantGrace
      BY <2>1, <2>7 DEF Fits
    <3> QED BY <2>7, <3>1 DEF p, c, before
  <2>8. dag[t].rule \in {"stale", "falsified", "superseded", "duplicate"}
    BY <2>1 DEF Fits
  <2> QED BY <2>4, <2>5, <2>6, <2>7, <2>8
<1> QED BY <1>1, PruneInvariant, PTL

\* A cycle leaves C54 only if its scan ended a window of intake without a death,
\* and after each scan that did the DAG has one within the limiter's second:
\* for every interval and every cooldown up to it, wherever the limiter steps
\* in and whatever restarts forget.
THEOREM HoardingReported == Spec => HoardingIsReported
<1> DEFINE Says == /\ Reported(dag', cycle') => cycle' % Interval = 0 /\ Hoarded(dag', cycle')
                   /\ cycle' % Interval = 0 /\ Hoarded(dag', cycle')
                         => spoken' # Never /\ Reported(dag', spoken')
<1>1. ASSUME PruneInv, [Next]_vars
      PROVE  [cycle' # cycle => Says]_vars
  <2>1. CASE Advance
    BY <1>1, <2>1, AdvanceKeeps
  <2>2. CASE ~Advance
    <3>1. ASSUME NEW e, Request(e)
          PROVE  cycle' = cycle
      BY <3>1 DEF Request
    <3>2. cycle' = cycle \/ UNCHANGED vars
      BY <1>1, <2>2, <3>1 DEF Next, Ingest, RegisterAxis, Perturb, Evolve, PerturbFromRaw,
                              Forge, PreserveAll, RunImmuneCheck, Restart
    <3> QED BY <3>2 DEF vars
  <2> QED BY <2>1, <2>2
<1> QED BY <1>1, PruneInvariant, PTL DEF Spec, HoardingIsReported

HeirRec(p, n, f) ==
    f = [k \in 0 .. n |->
            IF k = 0 THEN {p}
            ELSE LET H == f[k - 1] IN IF dag[k].supersedes \cap H # {} THEN H \cup {k} ELSE H]

LEMMA HeirsExist ==
    ASSUME NEW p, NEW n \in Nat
    PROVE  \E f : HeirRec(p, n, f)
<1> DEFINE Good == {k \in Nat : \E f : HeirRec(p, k, f)}
<1>1. 0 \in Good
  <2> DEFINE f == [k \in 0 .. 0 |-> {p}]
  <2>1. HeirRec(p, 0, f)
    BY DEF HeirRec
  <2> QED BY <2>1
<1>2. ASSUME NEW m \in 0 .. n - 1, m \in Good
      PROVE  m + 1 \in Good
  <2>1. PICK f : HeirRec(p, m, f)
    BY <1>2
  <2> DEFINE g == [k \in 0 .. m + 1 |->
                      IF k <= m THEN f[k]
                      ELSE IF dag[m + 1].supersedes \cap f[m] # {} THEN f[m] \cup {m + 1} ELSE f[m]]
  <2>2. f = [k \in 0 .. m |->
                IF k = 0 THEN {p}
                ELSE LET H == f[k - 1] IN IF dag[k].supersedes \cap H # {} THEN H \cup {k} ELSE H]
    BY <2>1 DEF HeirRec
  <2>3. ASSUME NEW k \in 0 .. m + 1
        PROVE  g[k] = IF k = 0 THEN {p}
                      ELSE LET H == g[k - 1]
                           IN  IF dag[k].supersedes \cap H # {} THEN H \cup {k} ELSE H
    <3>1. CASE k <= m
      <4>1. k \in 0 .. m /\ g[k] = f[k] /\ (k # 0 => g[k - 1] = f[k - 1])
        BY <3>1
      <4> HIDE DEF g
      <4> QED BY <2>2, <4>1
    <3>2. CASE ~(k <= m)
      <4>1. k = m + 1 /\ k # 0 /\ k - 1 = m
        BY <3>2
      <4>2. g[k] = IF dag[m + 1].supersedes \cap f[m] # {} THEN f[m] \cup {m + 1} ELSE f[m]
        BY <4>1
      <4>3. g[k - 1] = f[m]
        BY <4>1
      <4> HIDE DEF g
      <4> QED BY <4>1, <4>2, <4>3
    <3> QED BY <3>1, <3>2
  <2>4. HeirRec(p, m + 1, g)
    <3>1. g = [k \in 0 .. m + 1 |-> g[k]]
      OBVIOUS
    <3> HIDE DEF g
    <3> QED BY <2>3, <3>1 DEF HeirRec
  <2> QED BY <2>4
<1> HIDE DEF Good
<1>3. \A k \in 0 .. n : k \in Good
  BY <1>1, <1>2, Climb
<1>4. n \in Good
  BY <1>3
<1> QED BY <1>4 DEF Good

\* What supersedes an heir is one.
LEMMA HeirsAre ==
    ASSUME NEW c, Rooted(dag, c), NEW p \in 1 .. Len(dag)
    PROVE  /\ p \in Heirs(p) /\ Heirs(p) \subseteq 1 .. Len(dag)
           /\ \A m \in Heirs(p) : \A q \in 1 .. Len(dag) : m \in dag[q].supersedes => q \in Heirs(p)
<1> DEFINE n == Len(dag)
           f == CHOOSE f : HeirRec(p, n, f)
           Closed(k) == \A m \in f[k] : \A q \in 1 .. k : m \in dag[q].supersedes => q \in f[k]
           Good == {k \in Nat : p \in f[k] /\ f[k] \subseteq 1 .. n /\ Closed(k)}
<1>1. n \in Nat /\ \A q \in 1 .. n : \A m \in dag[q].supersedes : m \in 1 .. q - 1
  BY DEF Rooted, IsLog, NodeOK
<1>2. Heirs(p) = f[n]
  BY DEF Heirs, HeirRec
<1>3. f = [k \in 0 .. n |->
              IF k = 0 THEN {p}
              ELSE LET H == f[k - 1] IN IF dag[k].supersedes \cap H # {} THEN H \cup {k} ELSE H]
  <2>1. \E g : HeirRec(p, n, g)
    BY <1>1, HeirsExist
  <2> QED BY <2>1 DEF HeirRec
<1> HIDE DEF f
<1>4. 0 \in Good
  <2>1. f[0] = {p} /\ \A q \in 1 .. 0 : FALSE
    BY <1>1, <1>3
  <2> QED BY <2>1
<1>5. ASSUME NEW k \in 0 .. n - 1, k \in Good
      PROVE  k + 1 \in Good
  <2> DEFINE H == f[k]
             l == k + 1
  <2>1. l \in 0 .. n /\ l \in 1 .. n /\ l # 0 /\ l - 1 = k /\ l \in Nat
    BY <1>1
  <2>2. \A q \in 1 .. l : q \in 1 .. k \/ q = l
    OBVIOUS
  <2>3. p \in H /\ H \subseteq 1 .. n /\ \A m \in H : \A q \in 1 .. k : m \in dag[q].supersedes => q \in H
    BY <1>5
  <2>4. f[l] = IF dag[l].supersedes \cap H # {} THEN H \cup {l} ELSE H
    <3> HIDE DEF n, l
    <3> QED BY <1>3, <2>1
  <2> HIDE DEF H
  <2>5. p \in f[l] /\ f[l] \subseteq 1 .. n
    BY <2>1, <2>3, <2>4
  <2>6. ASSUME NEW m \in f[l], NEW q \in 1 .. l, m \in dag[q].supersedes
        PROVE  q \in f[l]
    <3>1. q \in 1 .. n /\ m \in 1 .. q - 1
      BY <1>1, <2>1, <2>6
    <3>2. m # l
      BY <3>1
    <3>3. m \in H
      BY <2>4, <2>6, <3>2
    <3>4. CASE q \in 1 .. k
      BY <2>3, <2>4, <2>6, <3>3, <3>4
    <3>5. CASE q = l
      BY <2>4, <2>6, <3>3, <3>5
    <3> QED BY <2>2, <3>4, <3>5
  <2>7. Closed(l)
    BY <2>6
  <2> HIDE DEF Closed, l
  <2>8. l \in Good
    BY <2>1, <2>5, <2>7
  <2> QED BY <2>8 DEF l
<1> HIDE DEF Good
<1>6. n \in Good
  <2>1. \A k \in 0 .. n : k \in Good
    BY <1>1, <1>4, <1>5, Climb
  <2> QED BY <1>1, <2>1
<1> QED BY <1>2, <1>6 DEF Good

LEMMA NothingLost ==
    ASSUME PruneInv
    PROVE  NothingKnownIsLost
<1>1. /\ IsLog(dag) /\ Len(dag) \in Nat /\ Rooted(dag, cycle)
      /\ \A q \in 1 .. Len(dag) : \A m \in dag[q].supersedes : m \in 1 .. q - 1
  BY DEF PruneInv, Rooted, IsLog, NodeOK
<1>2. \A kinds : Kind(dag, kinds) = {i \in 1 .. Len(dag) : dag[i].kind \in kinds}
  BY <1>1, KindIs
<1>3. ASSUME NEW p \in Dead(dag)
      PROVE  \E t \in Tombstones : dag[t].part = p
  BY <1>3 DEF Dead, Tombstones
\* Of a dead content another copy exists, and the dead one is the first.
<1>4. ASSUME NEW p \in Dead(dag), dag[p].kind = "raw_material"
      PROVE  /\ \A j \in 1 .. Len(dag) : dag[j].kind = dag[p].kind /\ dag[j].name = dag[p].name => p <= j
             /\ \E j \in 1 .. Len(dag) : dag[j].kind = dag[p].kind /\ dag[j].name = dag[p].name /\ j # p
  <2>1. PICK t \in Tombstones : dag[t].part = p
    BY <1>3
  <2>2. t \in 1 .. Len(dag) /\ p \in 1 .. t - 1 /\ Fits(dag, t, dag[t].rule, p, dag[t].cycle)
    BY <2>1, Stands
  <2>3. /\ \A j \in 1 .. t : dag[j].kind = dag[p].kind /\ dag[j].name = dag[p].name => p <= j
        /\ \E j \in 1 .. t : dag[j].kind = dag[p].kind /\ dag[j].name = dag[p].name /\ j # p
    BY <1>4, <2>2 DEF Fits
  <2>4. \A j \in 1 .. Len(dag) : j \in 1 .. t \/ p <= j
    BY <1>1, <2>2
  <2>5. 1 .. t \subseteq 1 .. Len(dag)
    BY <1>1, <2>2
  <2> QED BY <2>3, <2>4, <2>5
<1>5. ASSUME NEW i \in Kind(dag, {"raw_material"})
      PROVE  Copies(dag, i) \ Dead(dag) # {}
  <2> DEFINE C == Copies(dag, i)
  <2>1. i \in 1 .. Len(dag) /\ dag[i].kind = "raw_material"
    BY <1>2
  <2>2. C = {j \in 1 .. Len(dag) : dag[j].kind = dag[i].kind /\ dag[j].name = dag[i].name}
    <3>1. C = {j \in Kind(dag, {"raw_material", "sporocarp"}) :
                  dag[j].kind = dag[i].kind /\ dag[j].name = dag[i].name}
      BY DEF Copies
    <3>2. Kind(dag, {"raw_material", "sporocarp"})
            = {j \in 1 .. Len(dag) : dag[j].kind \in {"raw_material", "sporocarp"}}
      BY <1>2
    <3> HIDE DEF C
    <3> QED BY <2>1, <3>1, <3>2
  <2> HIDE DEF C
  <2>3. CASE i \notin Dead(dag)
    <3>1. i \in C
      BY <2>1, <2>2
    <3> QED BY <2>3, <3>1 DEF C
  <2>4. CASE i \in Dead(dag)
    <3>1. PICK j \in 1 .. Len(dag) : dag[j].kind = dag[i].kind /\ dag[j].name = dag[i].name /\ j # i
      BY <1>4, <2>1, <2>4
    <3>2. i <= j
      BY <1>4, <2>1, <2>4, <3>1
    <3>3. j \notin Dead(dag)
      <4>1. ASSUME j \in Dead(dag)
            PROVE  j <= i
        BY <1>4, <2>1, <3>1, <4>1
      <4> QED BY <2>1, <3>1, <3>2, <4>1
    <3>4. j \in C
      BY <2>2, <3>1
    <3> QED BY <3>3, <3>4 DEF C
  <2> QED BY <2>3, <2>4
<1>6. \A i : Superseders(dag, i) = {j \in 1 .. Len(dag) : dag[j].kind = "plate" /\ i \in dag[j].supersedes}
  <2>1. Kind(dag, {"plate"}) = {j \in 1 .. Len(dag) : dag[j].kind \in {"plate"}}
    BY <1>2
  <2> QED BY <2>1 DEF Superseders
\* A dead plate is superseded, so not listed.
<1>7. Recall(dag) \cap Dead(dag) = {}
  <2> SUFFICES ASSUME NEW p \in Recall(dag), p \in Dead(dag) PROVE FALSE
    OBVIOUS
  <2>1. PICK t \in Tombstones : dag[t].part = p
    BY <1>3
  <2>2. t \in 1 .. Len(dag) /\ Fits(dag, t, dag[t].rule, p, dag[t].cycle)
    BY <2>1, Stands
  <2>3. dag[p].kind = "plate" /\ Superseders(dag, p) = {}
    BY <1>2 DEF Recall
  <2>4. \E j \in 1 .. t : dag[j].kind = "plate" /\ p \in dag[j].supersedes
    BY <2>2, <2>3 DEF Fits
  <2>5. 1 .. t \subseteq 1 .. Len(dag)
    BY <1>1, <2>2
  <2> QED BY <1>6, <2>3, <2>4, <2>5
\* The newest heir that is a plate is listed.
<1>8. ASSUME NEW p \in Kind(dag, {"plate"})
      PROVE  Heirs(p) \cap Recall(dag) # {}
  <2> DEFINE H == Heirs(p)
             P == {j \in H : dag[j].kind = "plate"}
  <2>1. p \in 1 .. Len(dag) /\ dag[p].kind = "plate"
    BY <1>2
  <2>2. /\ p \in H /\ H \subseteq 1 .. Len(dag)
        /\ \A m \in H : \A q \in 1 .. Len(dag) : m \in dag[q].supersedes => q \in H
    BY <1>1, <2>1, HeirsAre
  <2> HIDE DEF H
  <2>3. P \in SUBSET (0 .. Len(dag)) /\ P # {}
    <3>1. 1 .. Len(dag) \subseteq 0 .. Len(dag)
      BY <1>1
    <3> QED BY <2>1, <2>2, <3>1
  <2>4. PICK m \in P : \A j \in P : j <= m
    <3> HIDE DEF P
    <3> QED BY <1>1, <2>3, Greatest
  <2>5. m \in H /\ m \in 1 .. Len(dag) /\ dag[m].kind = "plate"
    BY <2>2, <2>4
  <2>6. Superseders(dag, m) = {}
    <3> SUFFICES ASSUME NEW q \in 1 .. Len(dag), dag[q].kind = "plate", m \in dag[q].supersedes
                 PROVE  FALSE
      BY <1>6
    <3>1. q \in P
      BY <2>2, <2>5
    <3>2. m \in 1 .. q - 1
      BY <1>1
    <3>3. q <= m
      BY <2>4, <3>1
    <3> QED BY <3>2, <3>3
  <2>7. m \in Recall(dag)
    BY <1>2, <2>5, <2>6 DEF Recall
  <2> QED BY <2>5, <2>7 DEF H
<1> QED BY <1>5, <1>7, <1>8 DEF NothingKnownIsLost

\* Of every content a copy is not buried, recall lists no buried plate, and
\* every buried plate has an heir that recall lists.
THEOREM KnowledgeKept == Spec => []NothingKnownIsLost
BY PruneInvariant, NothingLost, PTL

\* Every variable keeps its type.
THEOREM PruneTyping == Spec => []PruneTypeOK
<1> DEFINE Bounds == cycle \in 0 .. MaxCycle /\ ops \in 0 .. MaxOps
<1>1. MaxCycle \in Nat /\ MaxOps \in Nat
  BY PruneAssumption
<1>2. Init => Bounds
  BY <1>1 DEF Init
<1>3. ASSUME Bounds, [Next]_vars
      PROVE  Bounds'
  <2>1. ASSUME NEW e, Request(e)
        PROVE  Bounds'
    BY <1>1, <1>3, <2>1 DEF Request
  <2>2. CASE Ingest
    BY <2>1, <2>2 DEF Ingest
  <2>3. CASE RegisterAxis
    BY <2>1, <2>3 DEF RegisterAxis
  <2>4. CASE Perturb
    BY <2>1, <2>4 DEF Perturb
  <2>5. CASE Evolve
    BY <2>1, <2>5 DEF Evolve
  <2>6. CASE PerturbFromRaw
    BY <2>1, <2>6 DEF PerturbFromRaw
  <2>7. CASE Forge
    BY <2>1, <2>7 DEF Forge
  <2>8. CASE PreserveAll
    BY <2>1, <2>8 DEF PreserveAll
  <2>9. CASE RunImmuneCheck
    BY <2>1, <2>9 DEF RunImmuneCheck
  <2>10. CASE Advance
    BY <1>1, <1>3, <2>10 DEF Advance
  <2>11. CASE Restart
    BY <1>1, <1>3, <2>11 DEF Restart
  <2>12. CASE UNCHANGED vars
    BY <1>3, <2>12 DEF vars
  <2> QED BY <1>3, <2>2, <2>3, <2>4, <2>5, <2>6, <2>7, <2>8, <2>9, <2>10, <2>11, <2>12 DEF Next
<1>4. ASSUME Bounds, PruneInv
      PROVE  PruneTypeOK
  <2>1. Rooted(dag, cycle) /\ DOMAIN dag = 1 .. Len(dag) /\ Len(dag) \in Nat
    BY <1>4, LogIsSeq DEF PruneInv, Rooted, IsLog
  <2>2. ASSUME NEW i \in DOMAIN dag
        PROVE  /\ dag[i].parents \subseteq 1 .. i - 1 /\ (i > 1 => dag[i].parents # {})
               /\ dag[i].supersedes \subseteq 1 .. i - 1
               /\ dag[i].part < i /\ dag[i].heir < i /\ dag[i].cycle <= cycle
    <3>1. NodeOK(dag, cycle, i) /\ i \in Nat /\ cycle \in Nat
      BY <1>1, <1>4, <2>1 DEF Rooted
    <3> QED BY <3>1 DEF NodeOK
  <2>3. {alarmAt, spoken} \subseteq {Never} \cup 0 .. MaxCycle
    <3>1. cycle \in Nat /\ cycle <= MaxCycle
      BY <1>1, <1>4
    <3>2. 0 .. cycle \subseteq 0 .. MaxCycle /\ 1 .. cycle \subseteq 0 .. MaxCycle
      BY <1>1, <3>1
    <3> QED BY <1>4, <3>2 DEF PruneInv, Spoken
  <2> QED BY <1>4, <2>2, <2>3 DEF PruneTypeOK
<1> HIDE DEF Bounds
<1> QED BY <1>2, <1>3, <1>4, PruneInvariant, PTL DEF Spec
=============================================================================
