-------------------------- MODULE LifecycleProofs --------------------------
(***************************************************************************)
(* Proofs about Lifecycle, for every set of directories, every set of      *)
(* envelopes and intervals an operator may send, and every limit.          *)
(*                                                                         *)
(* What the lineage promises of a DAG is kept DAG by DAG: Good holds of    *)
(* each DAG a file or a process has, and every handler turns a good DAG    *)
(* into a good one.  The caches need an invariant of their own, that they  *)
(* are what the process's DAG gives: the successor chain is checked against*)
(* the cache and appended to the DAG.  Kin counts, parent by parent, the   *)
(* children on disk that the parent's file does not know against the       *)
(* crashes and failed saves that can explain them.                         *)
(***************************************************************************)
EXTENDS Lifecycle, FiniteSetTheorems, TLAPS

Spaced(births) ==
    /\ IsFiniteSet(births) /\ Cardinality(births) <= Quota
    /\ \A b, c \in births :
          b = c \/ b.anchor - c.anchor >= MinInterval \/ c.anchor - b.anchor >= MinInterval

\* The starts are in order too, which is what an append is checked against.
Serial(entries) ==
    \A i, j \in DOMAIN entries :
        i < j => /\ entries[i].until # Open
                 /\ entries[i].until <= entries[j].from
                 /\ entries[i].from < entries[j].from

Rested(d) == d.quarantine = "entered" /\ d.axes # {} => d.cycle >= QuarantineCycles

Good(d) == d \in DagType /\ Spaced(d.births) /\ Serial(d.successors) /\ Rested(d)

NoneOrGood(d) == d = NoDag \/ Good(d)

\* A function on the directories.
OnDirs(f) == f = [s \in Dirs |-> f[s]]

IInv ==
    /\ OnDirs(file) /\ OnDirs(mem) /\ OnDirs(cultivation) /\ OnDirs(chain)
    /\ \A s \in Dirs : NoneOrGood(file[s]) /\ NoneOrGood(mem[s])
    /\ \A s \in Dirs : Running(s) =>
          chain[s] = mem[s].successors /\ cultivation[s] = CultivationState(mem[s])

-----------------------------------------------------------------------------
(* DAGs. *)

Lineages  == Seq(Nat)
Chains    == Seq(Intervals)
Families  == Seq({"orphaned", "recovered", "completed", "retired"})
BirthSets == SUBSET [child : Lineages, anchor : Nat]
LineageSets == SUBSET Lineages

\* DagType with the sets of its sequences named: the provers need not open them.
Shape ==
    [born : {TRUE}, id : Lineages, depth : Nat, cycle : 0 .. MaxCycle,
     births : BirthSets, overrides : LineageSets, alarm : BOOLEAN,
     quarantine : {"none", "entered", "lifted"},
     closure : {"none", "pending", "complete"},
     axes : SUBSET Axes, successors : Chains, family : Families,
     retirable : BOOLEAN, mortal : BOOLEAN, died : {Alive} \cup (0 .. MaxCycle)]

\* The two are one.
LEMMA DagIsShape == DagType = Shape
BY DEF DagType, Shape, Lineages, Chains, Families, BirthSets, LineageSets

\* What a DAG of that shape has in its fields.
LEMMA Fields ==
    ASSUME NEW d, d \in DagType
    PROVE  /\ d \in Shape /\ d.id \in Lineages /\ d.depth \in Nat
           /\ d.births \in BirthSets /\ d.overrides \in LineageSets
           /\ d.successors \in Chains /\ d.family \in Families
           /\ d.alarm \in BOOLEAN
BY DagIsShape DEF Shape

\* A directory without a DAG, and one with.
LEMMA BornIsGood ==
    ASSUME NEW d, NoneOrGood(d)
    PROVE  d.born => Good(d)
BY DEF NoneOrGood, NoDag

\* So a running process holds a good DAG.
LEMMA RunningIsGood ==
    ASSUME IInv, NEW s \in Dirs, Running(s)
    PROVE  Good(mem[s])
BY BornIsGood DEF IInv, Running

\* A first boot writes a good DAG, and an older version left one.
LEMMA FirstGood == Good(Ancestor) /\ Good(Orphan)
<1>1. /\ <<>> \in Seq(Nat) /\ <<>> \in Seq(Intervals)
      /\ <<>> \in Seq({"orphaned", "recovered", "completed", "retired"})
      /\ <<"orphaned">> \in Seq({"orphaned", "recovered", "completed", "retired"})
  OBVIOUS
<1>2. 0 \in 0 .. MaxCycle /\ Quota \in Nat
  BY LifecycleAssumption
<1>3. Ancestor \in DagType /\ Orphan \in DagType
  BY <1>1, <1>2 DEF Ancestor, Orphan, Genesis, DagType
<1>4. Spaced({}) /\ Serial(<<>>)
  BY <1>2, FS_EmptySet DEF Spaced, Serial
<1> QED BY <1>3, <1>4 DEF Good, Rested, Ancestor, Orphan, Genesis

\* Events that touch neither births, nor successors, nor what quarantine restrains.
LEMMA SameBoundsGood ==
    ASSUME NEW d, Good(d), NEW k \in DagType,
           k.births = d.births, k.successors = d.successors,
           k.quarantine = d.quarantine, k.axes = d.axes, k.cycle = d.cycle
    PROVE  Good(k)
BY DEF Good, Rested

\* An immune event.
LEMMA AlarmedGood ==
    ASSUME NEW d, Good(d)
    PROVE  /\ Good(Alarmed(d))
           /\ Alarmed(d).successors = d.successors /\ Alarmed(d).family = d.family
<1>1. /\ Alarmed(d) \in DagType
      /\ Alarmed(d).births = d.births /\ Alarmed(d).successors = d.successors
      /\ Alarmed(d).quarantine = d.quarantine /\ Alarmed(d).axes = d.axes
      /\ Alarmed(d).cycle = d.cycle /\ Alarmed(d).family = d.family
  BY DEF Alarmed, Good, DagType
<1> QED BY <1>1, SameBoundsGood

\* The boot's self-check.
LEMMA ClosedGood ==
    ASSUME NEW d, Good(d), NEW healthy
    PROVE  /\ Good(Closed(d, healthy))
           /\ Closed(d, healthy).successors = d.successors
           /\ Closed(d, healthy).family = d.family
<1> DEFINE c == IF healthy THEN d ELSE Alarmed(d)
           k == [c EXCEPT !.closure = "complete"]
<1>1. Good(c) /\ c.successors = d.successors /\ c.family = d.family
  BY AlarmedGood
<1>2. Closed(d, healthy) = IF d.closure = "pending" THEN k ELSE c
  BY DEF Closed
<1> HIDE DEF c
<1>3. /\ k \in DagType
      /\ k.births = c.births /\ k.successors = c.successors
      /\ k.quarantine = c.quarantine /\ k.axes = c.axes
      /\ k.cycle = c.cycle /\ k.family = c.family
  BY <1>1 DEF Good, DagType
<1> HIDE DEF k
<1>4. Good(k)
  BY <1>1, <1>3, SameBoundsGood
<1> QED BY <1>1, <1>2, <1>3, <1>4

\* A cycle.
LEMMA AdvancedGood ==
    ASSUME NEW d, Good(d), d.cycle < MaxCycle, NEW fruits \in BOOLEAN
    PROVE  LET k == [d EXCEPT !.cycle = @ + 1, !.mortal = @ \/ fruits]
           IN  Good(k) /\ k.successors = d.successors /\ k.family = d.family
<1> DEFINE k == [d EXCEPT !.cycle = @ + 1, !.mortal = @ \/ fruits]
<1>1. d \in DagType /\ d.cycle \in 0 .. MaxCycle /\ d.mortal \in BOOLEAN
  BY DEF Good, DagType
<1>2. d.cycle + 1 \in 0 .. MaxCycle
  BY <1>1, LifecycleAssumption
<1>3. (d.mortal \/ fruits) \in BOOLEAN
  BY <1>1
<1>4. k \in DagType
  BY <1>1, <1>2, <1>3 DEF DagType
<1>5. /\ k.births = d.births /\ k.successors = d.successors /\ k.family = d.family
      /\ k.quarantine = d.quarantine /\ k.axes = d.axes /\ k.cycle = d.cycle + 1
  BY <1>1 DEF DagType
<1> HIDE DEF k
<1>6. d.cycle >= QuarantineCycles => d.cycle + 1 >= QuarantineCycles
  BY <1>1, LifecycleAssumption
<1>7. Rested(k)
  BY <1>5, <1>6 DEF Good, Rested
<1>8. Good(k) /\ k.successors = d.successors /\ k.family = d.family
  BY <1>4, <1>5, <1>7 DEF Good
<1> QED BY <1>8 DEF k

\* An axis, which the quarantine let through.
LEMMA GrownGood ==
    ASSUME NEW d, Good(d), NEW a \in Axes, ~Quarantined(d)
    PROVE  LET k == [d EXCEPT !.axes = @ \cup {a}]
           IN  Good(k) /\ k.successors = d.successors /\ k.family = d.family
<1> DEFINE k == [d EXCEPT !.axes = @ \cup {a}]
<1>1. d \in DagType /\ d.cycle \in 0 .. MaxCycle /\ d.axes \subseteq Axes
  BY DEF Good, DagType
<1>2. d.axes \cup {a} \in SUBSET Axes
  BY <1>1
<1>3. k \in DagType
  BY <1>1, <1>2 DEF DagType
<1>4. /\ k.births = d.births /\ k.successors = d.successors /\ k.family = d.family
      /\ k.quarantine = d.quarantine /\ k.cycle = d.cycle
  BY <1>1 DEF DagType
<1> HIDE DEF k
<1>5. d.quarantine = "entered" => d.cycle >= QuarantineCycles
  BY <1>1, LifecycleAssumption DEF Quarantined
<1>6. Good(k) /\ k.successors = d.successors /\ k.family = d.family
  BY <1>3, <1>4, <1>5 DEF Good, Rested
<1> QED BY <1>6 DEF k

\* The end of a quarantine.
LEMMA LiftedGood ==
    ASSUME NEW d, Good(d)
    PROVE  LET k == [d EXCEPT !.quarantine = "lifted"]
           IN  Good(k) /\ k.successors = d.successors /\ k.family = d.family
BY DEF Good, Rested, DagType

\* The signature of a spawn names a lineage.
LEMMA MintType ==
    ASSUME NEW d, d \in DagType, NEW e \in Envelopes
    PROVE  Mint(d.id, e) \in Lineages
BY Fields, LifecycleAssumption DEF Mint, Lineages

\* A depth override.
LEMMA OverriddenGood ==
    ASSUME NEW d, Good(d), NEW e \in Envelopes
    PROVE  /\ Good(Overridden(d, e))
           /\ Overridden(d, e).births = d.births /\ Overridden(d, e).id = d.id
           /\ Overridden(d, e).successors = d.successors
           /\ Overridden(d, e).family = d.family
<1> DEFINE k == [d EXCEPT !.overrides = @ \cup {Mint(d.id, e)}]
<1>1. d \in Shape /\ d.overrides \cup {Mint(d.id, e)} \in LineageSets
  BY MintType, Fields DEF Good, LineageSets
<1>2. k \in DagType
  BY <1>1, DagIsShape DEF Shape
<1>3. /\ k.births = d.births /\ k.successors = d.successors /\ k.family = d.family
      /\ k.quarantine = d.quarantine /\ k.axes = d.axes /\ k.cycle = d.cycle
      /\ k.id = d.id
  BY <1>1 DEF Shape
<1>4. Overridden(d, e) = IF TooDeep(d) THEN k ELSE d
  BY DEF Overridden
<1> HIDE DEF k
<1>5. Good(k)
  BY <1>2, <1>3, SameBoundsGood
<1> QED BY <1>3, <1>4, <1>5

\* A birth that verify_spawn_co_attestation and the quota admitted.
LEMMA RecordedGood ==
    ASSUME NEW d, Good(d), NEW e \in Envelopes, Admitted(d, e)
    PROVE  /\ Good(Recorded(d, e))
           /\ Recorded(d, e).successors = d.successors
           /\ Recorded(d, e).family = d.family
<1> DEFINE o == Overridden(d, e)
           b == [child |-> Mint(d.id, e), anchor |-> e.anchor]
           k == [o EXCEPT !.births = @ \cup {b}]
<1>1. k = Recorded(d, e)
  BY DEF Recorded
<1>2. /\ Good(o) /\ o.births = d.births /\ o.successors = d.successors
      /\ o.family = d.family
  BY OverriddenGood
<1>3. Mint(d.id, e) \in Lineages /\ e.anchor \in Nat
  BY MintType, LifecycleAssumption DEF Good
<1>4. b \in [child : Lineages, anchor : Nat] /\ b.anchor = e.anchor
  BY <1>3
<1> HIDE DEF o, b
<1>5. o \in Shape /\ o.births \cup {b} \in BirthSets
  BY <1>2, <1>4, Fields DEF Good, BirthSets
<1>6. k \in DagType
  BY <1>5, DagIsShape DEF Shape
<1>7. /\ k.births = d.births \cup {b} /\ k.successors = o.successors /\ k.family = o.family
      /\ k.quarantine = o.quarantine /\ k.axes = o.axes /\ k.cycle = o.cycle
  BY <1>2, <1>5 DEF Shape
<1> HIDE DEF k
<1>8. IsFiniteSet(d.births) /\ Cardinality(d.births) \in Nat
  BY FS_CardinalityType DEF Good, Spaced
<1>9. /\ IsFiniteSet(d.births \cup {b})
      /\ Cardinality(d.births \cup {b}) = Cardinality(d.births)
         \/ Cardinality(d.births \cup {b}) = Cardinality(d.births) + 1
  BY <1>8, FS_AddElement
<1>10. Cardinality(d.births \cup {b}) <= Quota
  BY <1>8, <1>9, LifecycleAssumption DEF Admitted, WithinQuota, Good, Spaced
<1>11. \A x \in d.births : b.anchor - x.anchor >= MinInterval
  BY <1>4 DEF Admitted, Attested, Anchors
<1>12. Spaced(d.births \cup {b})
  BY <1>9, <1>10, <1>11 DEF Good, Spaced
<1>13. Good(k) /\ k.successors = d.successors /\ k.family = d.family
  BY <1>2, <1>6, <1>7, <1>12 DEF Good, Rested
<1> QED BY <1>1, <1>13

\* The DAG a parent builds for its child.
LEMMA ChildGood ==
    ASSUME NEW p, Good(p), NEW e \in Envelopes
    PROVE  Good(ChildOf(p, e))
<1> DEFINE k == ChildOf(p, e)
<1>1. p.depth + 1 \in Nat /\ Mint(p.id, e) \in Lineages /\ p.alarm \in BOOLEAN
  BY MintType, Fields DEF Good
<1>2. /\ <<>> \in Chains /\ <<>> \in Families
      /\ {} \in BirthSets /\ {} \in LineageSets /\ {} \in SUBSET Axes
      /\ 0 \in 0 .. MaxCycle /\ Quota \in Nat
  BY LifecycleAssumption DEF Chains, Families, BirthSets, LineageSets
<1> DEFINE g == Genesis(Mint(p.id, e), p.depth + 1)
           q == IF p.alarm THEN "entered" ELSE "none"
<1>3. g \in Shape /\ g.births = {} /\ g.successors = <<>> /\ g.axes = {}
  BY <1>1, <1>2 DEF Genesis, Shape
<1>4. k = [g EXCEPT !.closure = "pending", !.quarantine = q]
  BY DEF ChildOf
<1>5. q \in {"none", "entered", "lifted"}
  OBVIOUS
<1> HIDE DEF g, q
<1>6. k \in DagType /\ k.births = {} /\ k.successors = <<>> /\ k.axes = {}
  BY <1>3, <1>4, <1>5, DagIsShape DEF Shape
<1> HIDE DEF k
<1>7. Spaced({}) /\ Serial(<<>>)
  BY <1>2, FS_EmptySet DEF Spaced, Serial
<1>8. Good(k)
  BY <1>6, <1>7 DEF Good, Rested
<1> QED BY <1>8 DEF k

\* An appended interval, checked against the last one.
LEMMA SucceededGood ==
    ASSUME NEW d, Good(d), NEW i \in Intervals, Follows(d.successors, i)
    PROVE  LET k == [d EXCEPT !.successors = Append(@, i)]
           IN  Good(k) /\ k.successors = Append(d.successors, i) /\ k.family = d.family
<1> DEFINE q == d.successors
           k == [d EXCEPT !.successors = Append(@, i)]
<1>1. d \in Shape /\ q \in Seq(Intervals) /\ Append(q, i) \in Seq(Intervals)
  <2>1. d \in Shape /\ q \in Chains
    BY Fields DEF Good
  <2> QED BY <2>1 DEF Chains
<1>2. k \in DagType
  <2> HIDE DEF q
  <2>1. Append(q, i) \in Chains
    BY <1>1 DEF Chains
  <2>2. k = [d EXCEPT !.successors = Append(q, i)]
    BY DEF q
  <2> HIDE DEF k
  <2> QED BY <1>1, <2>1, <2>2, DagIsShape DEF Shape
<1>3. /\ k.births = d.births /\ k.successors = Append(q, i) /\ k.family = d.family
      /\ k.quarantine = d.quarantine /\ k.axes = d.axes /\ k.cycle = d.cycle
  BY <1>1 DEF Shape
<1> HIDE DEF k
<1>4. Serial(q) /\ Follows(q, i)
  BY DEF Good
<1> HIDE DEF q
<1>5. \A x \in Intervals : x.from \in Nat /\ x.until \in Nat \cup {Open}
  BY LifecycleAssumption
<1>6. ASSUME NEW m \in 1 .. Len(q)
      PROVE  q[m].until # Open /\ q[m].until <= i.from /\ q[m].from < i.from
  <2>1. q # <<>> /\ Len(q) \in Nat /\ Len(q) \in 1 .. Len(q)
    BY <1>1, <1>6
  <2>2. q[m] \in Intervals /\ q[Len(q)] \in Intervals
    BY <1>1, <1>6, <2>1
  <2>3. q[Len(q)].until # Open /\ q[Len(q)].until <= i.from /\ i.from > q[Len(q)].from
    BY <1>4, <2>1 DEF Follows, Last
  <2>4. CASE m = Len(q)
    BY <1>5, <2>2, <2>3, <2>4
  <2>5. CASE m # Len(q)
    <3>1. m \in DOMAIN q /\ Len(q) \in DOMAIN q /\ m < Len(q)
      BY <1>1, <1>6, <2>1, <2>5
    <3>2. q[m].until # Open /\ q[m].until <= q[Len(q)].from /\ q[m].from < q[Len(q)].from
      BY <1>4, <3>1 DEF Serial
    <3> QED BY <1>5, <2>2, <2>3, <3>2 DEF Open
  <2> QED BY <2>4, <2>5
<1>7. Serial(Append(q, i))
  <2> SUFFICES ASSUME NEW m \in DOMAIN Append(q, i), NEW n \in DOMAIN Append(q, i), m < n
               PROVE  /\ Append(q, i)[m].until # Open
                      /\ Append(q, i)[m].until <= Append(q, i)[n].from
                      /\ Append(q, i)[m].from < Append(q, i)[n].from
    BY DEF Serial
  <2>1. DOMAIN Append(q, i) = 1 .. Len(q) + 1 /\ Len(q) \in Nat
    BY <1>1
  <2>2. m \in 1 .. Len(q) /\ Append(q, i)[m] = q[m]
    BY <1>1, <2>1
  <2>3. CASE n = Len(q) + 1
    <3>1. Append(q, i)[n] = i
      BY <1>1, <2>1, <2>3
    <3> QED BY <1>6, <2>2, <3>1
  <2>4. CASE n # Len(q) + 1
    <3>1. Append(q, i)[n] = q[n] /\ n \in DOMAIN q /\ m \in DOMAIN q
      BY <1>1, <2>1, <2>2, <2>4
    <3> QED BY <1>4, <2>2, <3>1 DEF Serial
  <2> QED BY <2>3, <2>4
<1>8. Good(k)
  BY <1>2, <1>3, <1>7 DEF Good, Rested
<1>9. Good(k) /\ k.successors = Append(q, i) /\ k.family = d.family
  BY <1>3, <1>8
<1> QED BY <1>9 DEF k, q

\* A cultivation family event.
LEMMA FamilyGood ==
    ASSUME NEW d, Good(d),
           NEW f \in {"orphaned", "recovered", "completed", "retired"}
    PROVE  LET k == [d EXCEPT !.family = Append(@, f)]
           IN  Good(k) /\ k.successors = d.successors
<1> DEFINE k == [d EXCEPT !.family = Append(@, f)]
<1>1. d \in Shape /\ Append(d.family, f) \in Families
  <2>1. d \in Shape /\ d.family \in Families
    BY Fields DEF Good
  <2> QED BY <2>1 DEF Families
<1>2. /\ k \in DagType
      /\ k.births = d.births /\ k.successors = d.successors
      /\ k.quarantine = d.quarantine /\ k.axes = d.axes /\ k.cycle = d.cycle
  <2> DEFINE w == Append(d.family, f)
  <2>1. k = [d EXCEPT !.family = w] /\ w \in Families
    BY <1>1
  <2> HIDE DEF k, w
  <2> QED BY <1>1, <2>1, DagIsShape DEF Shape
<1> HIDE DEF k
<1>3. Good(k) /\ k.successors = d.successors
  BY <1>2, SameBoundsGood
<1> QED BY <1>3 DEF k

\* Whole death.
LEMMA DiedGood ==
    ASSUME NEW d, Good(d)
    PROVE  /\ Good(Died(d))
           /\ Died(d).successors = d.successors /\ Died(d).family = d.family
<1>1. /\ Died(d) \in DagType
      /\ Died(d).births = d.births /\ Died(d).successors = d.successors
      /\ Died(d).quarantine = d.quarantine /\ Died(d).axes = d.axes
      /\ Died(d).cycle = d.cycle /\ Died(d).family = d.family
  BY DEF Died, Good, DagType
<1> QED BY <1>1, SameBoundsGood

-----------------------------------------------------------------------------
(* Steps. *)

\* The cultivation state is read off the cultivation family.
LEMMA SameFamily ==
    ASSUME NEW d, NEW k, k.family = d.family
    PROVE  CultivationState(k) = CultivationState(d)
BY DEF CultivationState

\* A step in which one process changes its DAG and its caches, and files stay good.
LEMMA StepKeeps ==
    ASSUME IInv, NEW s \in Dirs, NEW d, NoneOrGood(d),
           mem' = [mem EXCEPT ![s] = d],
           OnDirs(file'), \A t \in Dirs : NoneOrGood(file'[t]),
           OnDirs(chain'), OnDirs(cultivation'),
           \A t \in Dirs : t # s => chain'[t] = chain[t] /\ cultivation'[t] = cultivation[t],
           d.born => chain'[s] = d.successors /\ cultivation'[s] = CultivationState(d)
    PROVE  IInv'
<1>1. OnDirs(mem')
  BY DEF IInv, OnDirs
<1>2. \A t \in Dirs : mem'[t] = IF t = s THEN d ELSE mem[t]
  BY DEF IInv, OnDirs
<1>3. \A t \in Dirs : NoneOrGood(mem'[t])
  BY <1>2 DEF IInv
<1>4. \A t \in Dirs : mem'[t].born =>
          chain'[t] = mem'[t].successors /\ cultivation'[t] = CultivationState(mem'[t])
  <2> TAKE t \in Dirs
  <2>1. CASE t = s
    BY <1>2, <2>1
  <2>2. CASE t # s
    BY <1>2, <2>2 DEF IInv, Running
  <2> QED BY <2>1, <2>2
<1> QED BY <1>1, <1>3, <1>4 DEF IInv, OnDirs, NoneOrGood, Running

\* A file that gets a good DAG, or is left alone.
LEMMA FilesKeep ==
    ASSUME IInv, NEW s \in Dirs, NEW d, Good(d),
           file' = file \/ file' = [file EXCEPT ![s] = d]
    PROVE  OnDirs(file') /\ \A t \in Dirs : NoneOrGood(file'[t])
BY DEF IInv, OnDirs, NoneOrGood

\* A handler that leaves the caches alone because it left alone what they cache.
LEMMA HandlerKeeps ==
    ASSUME IInv, NEW s \in Dirs, Running(s), NEW d, Good(d),
           d.successors = mem[s].successors, d.family = mem[s].family,
           mem' = [mem EXCEPT ![s] = d],
           file' = file \/ file' = [file EXCEPT ![s] = d],
           UNCHANGED <<cultivation, chain>>
    PROVE  IInv'
<1>1. OnDirs(file') /\ \A t \in Dirs : NoneOrGood(file'[t])
  BY FilesKeep
<1>2. chain'[s] = d.successors /\ cultivation'[s] = CultivationState(d)
  BY SameFamily DEF IInv
<1>3. OnDirs(chain') /\ OnDirs(cultivation')
  BY DEF IInv
<1> QED BY <1>1, <1>2, <1>3, StepKeeps DEF NoneOrGood

\* The same, as the dispatch arms save.
LEMMA SaveKeeps ==
    ASSUME IInv, NEW s \in Dirs, Running(s), NEW d, Good(d), NEW saved,
           d.successors = mem[s].successors, d.family = mem[s].family,
           Save(s, d, saved) \/ Keep(s, d), UNCHANGED <<cultivation, chain>>
    PROVE  IInv'
BY HandlerKeeps DEF Save, Keep

\* A process that ends, having left good files.
LEMMA EndKeeps ==
    ASSUME IInv, NEW s \in Dirs, EndProcess(s),
           OnDirs(file'), \A t \in Dirs : NoneOrGood(file'[t])
    PROVE  IInv'
<1>1. NoneOrGood(NoDag) /\ ~NoDag.born
  BY DEF NoneOrGood, NoDag
<1>2. /\ OnDirs(chain') /\ OnDirs(cultivation')
      /\ \A t \in Dirs : t # s => chain'[t] = chain[t] /\ cultivation'[t] = cultivation[t]
  BY DEF IInv, OnDirs, EndProcess
<1>3. mem' = [mem EXCEPT ![s] = NoDag]
  BY DEF EndProcess
<1> QED BY <1>1, <1>2, <1>3, StepKeeps

\* Boot: the caches are derived from the DAG the process starts with.
LEMMA BootKeeps ==
    ASSUME IInv, NEW s \in Dirs, NEW healthy, NEW saved, Boot(s, healthy, saved)
    PROVE  IInv'
<1> DEFINE l == Loaded(s)
           d == Closed(l, healthy)
<1>1. Good(l)
  BY BornIsGood, FirstGood DEF IInv, Loaded
<1>2. Good(d) /\ d.successors = l.successors /\ d.family = l.family
  BY <1>1, ClosedGood
<1>3. /\ mem' = [mem EXCEPT ![s] = d]
      /\ cultivation' = [cultivation EXCEPT ![s] = CultivationState(l)]
      /\ chain' = [chain EXCEPT ![s] = l.successors]
      /\ file' = file \/ file' = [file EXCEPT ![s] = mem'[s]]
  BY DEF Boot
<1> HIDE DEF l, d
<1>4. mem'[s] = d
  BY <1>3 DEF IInv, OnDirs
<1>5. OnDirs(file') /\ \A t \in Dirs : NoneOrGood(file'[t])
  BY <1>2, <1>3, <1>4, FilesKeep
<1>6. /\ OnDirs(chain') /\ OnDirs(cultivation')
      /\ \A t \in Dirs : t # s => chain'[t] = chain[t] /\ cultivation'[t] = cultivation[t]
      /\ chain'[s] = l.successors /\ cultivation'[s] = CultivationState(l)
  BY <1>3 DEF IInv, OnDirs
<1>7. CultivationState(d) = CultivationState(l)
  BY <1>2, SameFamily
<1> QED BY <1>2, <1>3, <1>5, <1>6, <1>7, StepKeeps DEF NoneOrGood

\* Shutdown and Crash.
LEMMA StopKeeps ==
    ASSUME IInv, NEW s \in Dirs, NEW saved, Shutdown(s, saved) \/ Crash(s)
    PROVE  IInv'
<1>1. Running(s) /\ EndProcess(s)
  BY DEF Shutdown, Crash
<1>2. file' = file \/ file' = [file EXCEPT ![s] = mem[s]]
  BY DEF Shutdown, Crash
<1>3. Good(mem[s])
  BY <1>1, RunningIsGood
<1> QED BY <1>1, <1>2, <1>3, FilesKeep, EndKeeps

\* Metabolism.
LEMMA MetabolismKeeps ==
    ASSUME IInv, NEW s \in Dirs, NEW saved,
           \/ \E fruits \in BOOLEAN : Advance(s, fruits, saved)
           \/ \E a \in Axes : RegisterAxis(s, a, saved)
           \/ QuarantineBlocks(s)
           \/ LiftQuarantine(s, saved)
    PROVE  IInv'
<1>1. Running(s) /\ Good(mem[s])
  BY RunningIsGood DEF Advance, RegisterAxis, QuarantineBlocks, LiftQuarantine
<1>2. ASSUME NEW fruits \in BOOLEAN, Advance(s, fruits, saved)
      PROVE  IInv'
  <2> DEFINE k == [mem[s] EXCEPT !.cycle = @ + 1, !.mortal = @ \/ fruits]
  <2>1. Save(s, k, saved) /\ UNCHANGED <<cultivation, chain>> /\ mem[s].cycle < MaxCycle
    BY <1>2 DEF Advance
  <2>2. Good(k) /\ k.successors = mem[s].successors /\ k.family = mem[s].family
    BY <1>1, <2>1, AdvancedGood
  <2> HIDE DEF k
  <2> QED BY <1>1, <2>1, <2>2, SaveKeeps
<1>3. ASSUME NEW a \in Axes, RegisterAxis(s, a, saved)
      PROVE  IInv'
  <2> DEFINE k == [mem[s] EXCEPT !.axes = @ \cup {a}]
  <2>1. Save(s, k, saved) /\ UNCHANGED <<cultivation, chain>> /\ ~Quarantined(mem[s])
    BY <1>3 DEF RegisterAxis
  <2>2. Good(k) /\ k.successors = mem[s].successors /\ k.family = mem[s].family
    BY <1>1, <2>1, GrownGood
  <2> HIDE DEF k
  <2> QED BY <1>1, <2>1, <2>2, SaveKeeps
<1>4. CASE QuarantineBlocks(s)
  <2>1. Keep(s, Alarmed(mem[s])) /\ UNCHANGED <<cultivation, chain>>
    BY <1>4 DEF QuarantineBlocks
  <2> QED BY <1>1, <2>1, AlarmedGood, SaveKeeps
<1>5. CASE LiftQuarantine(s, saved)
  <2> DEFINE k == [mem[s] EXCEPT !.quarantine = "lifted"]
  <2>1. Save(s, k, saved) /\ UNCHANGED <<cultivation, chain>>
    BY <1>5 DEF LiftQuarantine
  <2>2. Good(k) /\ k.successors = mem[s].successors /\ k.family = mem[s].family
    BY <1>1, LiftedGood
  <2> HIDE DEF k
  <2> QED BY <1>1, <2>1, <2>2, SaveKeeps
<1> QED BY <1>2, <1>3, <1>4, <1>5

\* Spawns: the parent's DAG gains a birth, the child's directory a good DAG.
LEMMA SpawnsKeep ==
    ASSUME IInv, NEW s \in Dirs, NEW saved, Spawns(s, saved)
    PROVE  IInv'
<1>1. PICK e \in Envelopes :
        \/ SproutRefused(s, e, saved)
        \/ SproutFails(s, e)
        \/ \E c \in Dirs : Sprout(s, e, c, saved) \/ SproutCrashes(s, e, c)
  BY DEF Spawns
<1> DEFINE d == mem[s]
           o == Overridden(d, e)
<1>2. Running(s) /\ Good(d)
  BY <1>1, RunningIsGood DEF SproutRefused, SproutFails, Sprout, SproutCrashes
<1>3. Good(o) /\ o.successors = d.successors /\ o.family = d.family
  BY <1>2, OverriddenGood
<1>4. CASE SproutRefused(s, e, saved)
  <2> DEFINE seen == IF Attested(d, e) /\ PassesDepth(d, e) THEN o ELSE d
  <2>1. Good(seen) /\ seen.successors = d.successors /\ seen.family = d.family
    BY <1>2, <1>3
  <2>2. Save(s, Alarmed(seen), saved) /\ UNCHANGED <<cultivation, chain>>
    BY <1>4 DEF SproutRefused
  <2> HIDE DEF seen
  <2>3. /\ Good(Alarmed(seen)) /\ Alarmed(seen).successors = d.successors
        /\ Alarmed(seen).family = d.family
    BY <2>1, AlarmedGood
  <2> QED BY <1>2, <2>2, <2>3, SaveKeeps
<1>5. CASE SproutFails(s, e)
  <2>1. Keep(s, o) /\ UNCHANGED <<cultivation, chain>>
    BY <1>5 DEF SproutFails
  <2> QED BY <1>2, <1>3, <2>1, SaveKeeps
<1>6. ASSUME NEW c \in Dirs, Sprout(s, e, c, saved)
      PROVE  IInv'
  <2> DEFINE r == Recorded(d, e)
             child == ChildOf(o, e)
  <2>1. Good(r) /\ r.successors = d.successors /\ r.family = d.family
    BY <1>2, <1>6, RecordedGood DEF Sprout
  <2>2. Good(child)
    BY <1>3, ChildGood
  <2>3. /\ mem' = [mem EXCEPT ![s] = r]
        /\ file' = [file EXCEPT ![c] = child, ![s] = IF saved THEN r ELSE @]
        /\ UNCHANGED <<cultivation, chain>> /\ c # s
    BY <1>6 DEF Sprout
  <2> HIDE DEF r, child
  <2>4. OnDirs(file') /\ \A t \in Dirs : NoneOrGood(file'[t])
    BY <2>1, <2>2, <2>3 DEF IInv, OnDirs, NoneOrGood
  <2>5. chain'[s] = r.successors /\ cultivation'[s] = CultivationState(r)
    BY <1>2, <2>1, <2>3, SameFamily DEF IInv
  <2>6. OnDirs(chain') /\ OnDirs(cultivation')
    BY <2>3 DEF IInv
  <2> QED BY <2>1, <2>3, <2>4, <2>5, <2>6, StepKeeps DEF NoneOrGood
<1>7. ASSUME NEW c \in Dirs, SproutCrashes(s, e, c)
      PROVE  IInv'
  <2> DEFINE child == ChildOf(o, e)
  <2>1. Good(child)
    BY <1>3, ChildGood
  <2>2. file' = [file EXCEPT ![c] = child] /\ EndProcess(s)
    BY <1>7 DEF SproutCrashes
  <2> HIDE DEF child
  <2>3. OnDirs(file') /\ \A t \in Dirs : NoneOrGood(file'[t])
    BY <2>1, <2>2, FilesKeep
  <2> QED BY <2>2, <2>3, EndKeeps
<1> QED BY <1>1, <1>4, <1>5, <1>6, <1>7

\* Succession, archival and death: each append reaches the DAG and its cache.
LEMMA EndsOfLifeKeep ==
    ASSUME IInv, NEW s \in Dirs, NEW saved, EndsOfLife(s, saved)
    PROVE  IInv'
<1> DEFINE d == mem[s]
<1>1. Running(s) /\ Good(d) /\ chain[s] = d.successors
  BY RunningIsGood DEF EndsOfLife, UpdateSuccessorChain, AcceptSuccession,
     SuccessionBypass, RetireBet, RetireBetUnsaved, Euthanize, EuthanizeUnsaved, IInv
<1>2. ASSUME NEW i \in Intervals, UpdateSuccessorChain(s, i, saved)
      PROVE  IInv'
  <2> DEFINE k == [d EXCEPT !.successors = Append(@, i)]
  <2>1. /\ Good(k) /\ k.successors = Append(d.successors, i) /\ k.family = d.family
    BY <1>1, <1>2, SucceededGood DEF UpdateSuccessorChain
  <2>2. /\ Save(s, k, saved) /\ chain' = [chain EXCEPT ![s] = Append(chain[s], i)]
        /\ cultivation' = cultivation
    BY <1>2 DEF UpdateSuccessorChain
  <2> HIDE DEF k
  <2>3. mem' = [mem EXCEPT ![s] = k] /\ (file' = file \/ file' = [file EXCEPT ![s] = k])
    BY <2>2 DEF Save
  <2>4. OnDirs(file') /\ \A t \in Dirs : NoneOrGood(file'[t])
    BY <2>1, <2>3, FilesKeep
  <2>5. /\ OnDirs(chain') /\ OnDirs(cultivation')
        /\ \A t \in Dirs : t # s => chain'[t] = chain[t] /\ cultivation'[t] = cultivation[t]
        /\ chain'[s] = Append(d.successors, i)
    BY <1>1, <2>2 DEF IInv, OnDirs
  <2>6. cultivation'[s] = CultivationState(k)
    BY <1>1, <2>1, <2>2, SameFamily DEF IInv
  <2> QED BY <2>1, <2>3, <2>4, <2>5, <2>6, StepKeeps DEF NoneOrGood
<1>3. ASSUME NEW f \in {"completed", "retired"}, NEW written,
             Save(s, [d EXCEPT !.family = Append(@, f)], written),
             cultivation' = Refreshed(s, [d EXCEPT !.family = Append(@, f)]),
             chain' = chain
      PROVE  IInv'
  <2> DEFINE k == [d EXCEPT !.family = Append(@, f)]
  <2>1. Good(k) /\ k.successors = d.successors
    BY <1>1, FamilyGood
  <2>2. Save(s, k, written) /\ cultivation' = [cultivation EXCEPT ![s] = CultivationState(k)]
    BY <1>3 DEF Refreshed
  <2> HIDE DEF k
  <2>3. mem' = [mem EXCEPT ![s] = k] /\ (file' = file \/ file' = [file EXCEPT ![s] = k])
    BY <2>2 DEF Save
  <2>4. OnDirs(file') /\ \A t \in Dirs : NoneOrGood(file'[t])
    BY <2>1, <2>3, FilesKeep
  <2>5. /\ OnDirs(chain') /\ OnDirs(cultivation')
        /\ \A t \in Dirs : t # s => chain'[t] = chain[t] /\ cultivation'[t] = cultivation[t]
        /\ chain'[s] = d.successors /\ cultivation'[s] = CultivationState(k)
    BY <1>1, <1>3, <2>2 DEF IInv, OnDirs
  <2> QED BY <2>1, <2>3, <2>4, <2>5, StepKeeps DEF NoneOrGood
<1>4. CASE AcceptSuccession(s, saved)
  BY <1>3, <1>4 DEF AcceptSuccession
<1>5. CASE RetireBetUnsaved(s)
  BY <1>3, <1>5 DEF RetireBetUnsaved
<1>6. CASE SuccessionBypass(s)
  BY <1>1, <1>6, AlarmedGood, SaveKeeps DEF SuccessionBypass
<1>7. CASE RetireBet(s)
  <2> DEFINE k == [d EXCEPT !.family = Append(@, "retired")]
  <2>1. Good(k) /\ file' = [file EXCEPT ![s] = k] /\ EndProcess(s)
    BY <1>1, <1>7, FamilyGood DEF RetireBet
  <2> HIDE DEF k
  <2> QED BY <2>1, FilesKeep, EndKeeps
<1>8. CASE Euthanize(s)
  BY <1>1, <1>8, DiedGood, FilesKeep, EndKeeps DEF Euthanize
<1>9. CASE EuthanizeUnsaved(s)
  BY <1>1, <1>9, DiedGood, SaveKeeps DEF EuthanizeUnsaved
<1> QED BY <1>2, <1>4, <1>5, <1>6, <1>7, <1>8, <1>9 DEF EndsOfLife

-----------------------------------------------------------------------------
(* The invariant. *)

\* IInv holds at the start.
LEMMA InitIInv == LifeInit => IInv
<1> SUFFICES ASSUME LifeInit PROVE IInv
  OBVIOUS
<1>1. PICK first \in {NoDag, Orphan} :
        file = [s \in Dirs |-> IF s = Root THEN first ELSE NoDag]
  BY DEF LifeInit
<1>2. \A s \in Dirs : NoneOrGood(file[s])
  BY <1>1, FirstGood DEF NoneOrGood
<1>3. OnDirs(file) /\ OnDirs(mem) /\ OnDirs(cultivation) /\ OnDirs(chain)
  BY <1>1 DEF LifeInit, OnDirs
<1>4. \A s \in Dirs : mem[s] = NoDag /\ ~mem[s].born
  BY DEF LifeInit, NoDag
<1> QED BY <1>2, <1>3, <1>4 DEF IInv, NoneOrGood, Running

\* No step breaks it.
LEMMA StepIInv == IInv /\ [LifeStep]_vars => IInv'
<1> SUFFICES ASSUME IInv, [LifeStep]_vars PROVE IInv'
  OBVIOUS
<1>1. CASE UNCHANGED vars
  BY <1>1 DEF vars, IInv, OnDirs, NoneOrGood, Running
<1>2. CASE StartsAndEnds
  BY <1>2, BootKeeps, StopKeeps DEF StartsAndEnds
<1>3. CASE LifeNext
  <2>1. PICK s \in Dirs, saved \in BOOLEAN :
          \/ \E fruits \in {FALSE, (s \in Elders)} : Advance(s, fruits, saved)
          \/ \E a \in Axes : RegisterAxis(s, a, saved)
          \/ QuarantineBlocks(s)
          \/ LiftQuarantine(s, saved)
          \/ Spawns(s, saved)
          \/ s \in Elders /\ EndsOfLife(s, saved)
    BY <1>3 DEF LifeNext
  <2>2. FALSE \in BOOLEAN /\ (s \in Elders) \in BOOLEAN
    OBVIOUS
  <2>3. (\E fruits \in {FALSE, (s \in Elders)} : Advance(s, fruits, saved))
          => \E fruits \in BOOLEAN : Advance(s, fruits, saved)
    BY <2>2, Zenon
  <2> QED BY <2>1, <2>3, MetabolismKeeps, SpawnsKeep, EndsOfLifeKeep
<1> QED BY <1>1, <1>2, <1>3 DEF LifeStep

\* IInv is an invariant of the specification.
THEOREM Invariance == LifeSpec => []IInv
BY InitIInv, StepIInv, PTL DEF LifeSpec

-----------------------------------------------------------------------------
(* Children. *)

\* A DAG that a process may come to hold in s, or write there: it has the births of
\* the file and its identity.  A first ancestor whose file was never written may
\* replace another DAG there, which nobody has loaded.
Stands(s, d) ==
    /\ file[s].born => file[s].births \subseteq d.births
    /\ d.id = <<>> \/ (file[s].born /\ file[s].id = d.id)

Kin ==
    /\ faults \in Nat
    /\ \A s \in Dirs : Running(s) => Stands(s, mem[s])
    /\ IsFiniteSet(Unrecorded) /\ Cardinality(Unrecorded) <= faults

\* What every handler does to a DAG.
Grows(d, k) == k.born /\ k.id = d.id /\ d.births \subseteq k.births

\* A grown DAG still stands.
LEMMA GrownStands ==
    ASSUME NEW s, NEW d, NEW k, Stands(s, d), Grows(d, k)
    PROVE  Stands(s, k)
BY DEF Stands, Grows

\* The events that are no birth.
LEMMA EditsGrow ==
    ASSUME NEW d, Good(d)
    PROVE  /\ Grows(d, d) /\ Grows(d, Alarmed(d)) /\ Grows(d, Died(d))
           /\ \A healthy : Grows(d, Closed(d, healthy))
           /\ \A c, m : Grows(d, [d EXCEPT !.cycle = c, !.mortal = m])
           /\ \A a : Grows(d, [d EXCEPT !.axes = a])
           /\ \A q : Grows(d, [d EXCEPT !.quarantine = q])
           /\ \A q : Grows(d, [d EXCEPT !.successors = q])
           /\ \A f : Grows(d, [d EXCEPT !.family = f])
<1>1. d \in DagType
  BY DEF Good
<1> QED BY <1>1 DEF DagType, Grows, Alarmed, Died, Closed

\* A birth, and the override before it.
LEMMA BirthGrows ==
    ASSUME NEW d, Good(d), NEW e \in Envelopes
    PROVE  /\ Grows(d, Overridden(d, e)) /\ Grows(d, Recorded(d, e))
           /\ \E b \in Recorded(d, e).births : b.child = Mint(d.id, e)
<1> DEFINE o == Overridden(d, e)
           b == [child |-> Mint(d.id, e), anchor |-> e.anchor]
           k == [o EXCEPT !.births = @ \cup {b}]
<1>1. Good(o) /\ o.births = d.births /\ o.id = d.id
  BY OverriddenGood
<1>2. k = Recorded(d, e) /\ b.child = Mint(d.id, e)
  BY DEF Recorded
<1> HIDE DEF o, b
<1>3. o \in Shape
  BY <1>1, DagIsShape DEF Good
<1>4. o.born /\ k.born /\ k.id = o.id /\ k.births = o.births \cup {b}
  BY <1>3 DEF Shape
<1> HIDE DEF k
<1>5. Grows(d, o) /\ Grows(d, k) /\ b \in k.births
  BY <1>1, <1>4 DEF Grows
<1> QED BY <1>2, <1>5 DEF o

\* A child's DAG has no birth yet.
LEMMA ChildIsNew ==
    ASSUME NEW p, Good(p), NEW e \in Envelopes
    PROVE  LET k == ChildOf(p, e)
           IN  k.born /\ k.births = {} /\ k.id = Mint(p.id, e)
BY DEF ChildOf, Genesis

\* A file that is overwritten by a DAG that stands loses no child and is none anew.
LEMMA OwnFile ==
    ASSUME IInv, NEW s \in Dirs, NEW d, d.born, Stands(s, d),
           file' = file \/ file' = [file EXCEPT ![s] = d]
    PROVE  Unrecorded' \subseteq Unrecorded
<1>1. CASE file' = file
  BY <1>1 DEF Unrecorded
<1>2. CASE file' = [file EXCEPT ![s] = d]
  <2>1. \A t \in Dirs : file'[t] = IF t = s THEN d ELSE file[t]
    BY <1>2 DEF IInv, OnDirs
  <2>2. \A t \in Dirs : file[t].born =>
            file'[t].born /\ file[t].births \subseteq file'[t].births
    BY <2>1 DEF Stands
  <2>3. \A t \in Dirs : file'[t].born /\ Len(file'[t].id) > 0 =>
            file[t].born /\ file[t].id = file'[t].id
    BY <2>1 DEF Stands
  <2> QED BY <2>2, <2>3 DEF Unrecorded
<1> QED BY <1>1, <1>2

\* A step of one process that writes no other file.
LEMMA OwnStep ==
    ASSUME IInv, Kin, NEW s \in Dirs, NEW d, d.born, Stands(s, d),
           file' = file \/ file' = [file EXCEPT ![s] = d],
           mem' = [mem EXCEPT ![s] = d] \/ mem' = [mem EXCEPT ![s] = NoDag],
           faults' \in Nat, faults <= faults'
    PROVE  Kin'
<1>1. /\ IsFiniteSet(Unrecorded') /\ Cardinality(Unrecorded') \in Nat
      /\ Cardinality(Unrecorded') <= Cardinality(Unrecorded)
  BY OwnFile, FS_Subset, FS_CardinalityType DEF Kin
<1>2. Cardinality(Unrecorded') <= faults'
  BY <1>1, FS_CardinalityType DEF Kin
<1>3. ASSUME NEW t \in Dirs, mem'[t].born
      PROVE  Stands(t, mem[t])' 
  <2>1. CASE t # s
    <3>1. mem'[t] = mem[t] /\ file'[t] = file[t]
      BY <2>1 DEF IInv, OnDirs
    <3>2. Stands(t, mem[t])
      BY <1>3, <3>1 DEF Kin, Running
    <3> QED BY <3>1, <3>2 DEF Stands
  <2>2. CASE t = s
    <3>1. mem'[t] = d
      BY <1>3, <2>2 DEF IInv, OnDirs, NoDag
    <3>2. file'[t] = file[t] \/ file'[t] = d
      BY <2>2 DEF IInv, OnDirs
    <3> QED BY <2>2, <3>1, <3>2 DEF Stands
  <2> QED BY <2>1, <2>2
<1> QED BY <1>1, <1>2, <1>3 DEF Kin, Running

\* The same for a process that grows the DAG it holds.
LEMMA GrowStep ==
    ASSUME IInv, Kin, NEW s \in Dirs, Running(s), NEW d, Grows(mem[s], d),
           file' = file \/ file' = [file EXCEPT ![s] = d],
           mem' = [mem EXCEPT ![s] = d] \/ mem' = [mem EXCEPT ![s] = NoDag],
           faults' \in Nat, faults <= faults'
    PROVE  Kin'
<1>1. d.born /\ Stands(s, d)
  BY GrownStands DEF Kin, Grows
<1> QED BY <1>1, OwnStep

\* Faults are only counted up.
LEMMA FaultCounts ==
    ASSUME Kin, NEW n \in Nat, Fault(n)
    PROVE  faults' \in Nat /\ faults + n = faults'
BY DEF Kin, Fault

\* The same, as the dispatch arms save.
LEMMA SaveGrows ==
    ASSUME IInv, Kin, NEW s \in Dirs, Running(s), NEW d, Grows(mem[s], d),
           NEW saved, Save(s, d, saved) \/ Keep(s, d)
    PROVE  Kin'
<1>1. /\ mem' = [mem EXCEPT ![s] = d]
      /\ file' = file \/ file' = [file EXCEPT ![s] = d]
  BY DEF Save, Keep
<1>2. faults' = faults \/ Fault(0) \/ Fault(1)
  BY DEF Save, Keep
<1>3. faults' \in Nat /\ faults <= faults'
  BY <1>2, FaultCounts DEF Kin
<1> QED BY <1>1, <1>3, GrowStep

\* The DAG a process starts with stands, and so does what the self-check makes of it.
LEMMA BootKin ==
    ASSUME IInv, Kin, NEW s \in Dirs, NEW healthy \in BOOLEAN, NEW saved \in BOOLEAN,
           Boot(s, healthy, saved)
    PROVE  Kin'
<1> DEFINE l == Loaded(s)
           d == Closed(l, healthy)
           n == (IF saved THEN 0 ELSE 1) + IF healthy THEN 0 ELSE 1
<1>1. Good(l)
  BY BornIsGood, FirstGood DEF IInv, Loaded
<1>2. Stands(s, l)
  BY DEF Stands, Loaded, Ancestor, Genesis
<1>3. d.born /\ Stands(s, d)
  <2>1. Grows(l, d)
    BY <1>1, EditsGrow
  <2> HIDE DEF l, d
  <2> QED BY <1>2, <2>1, GrownStands DEF Grows
<1>4. /\ mem' = [mem EXCEPT ![s] = d]
      /\ file' = file \/ file' = [file EXCEPT ![s] = mem'[s]]
      /\ Fault(n) /\ n \in Nat
  BY DEF Boot
<1> HIDE DEF d, n
<1>5. mem'[s] = d
  BY <1>4 DEF IInv, OnDirs
<1>6. faults' \in Nat /\ faults <= faults'
  BY <1>4, FaultCounts DEF Kin
<1> QED BY <1>3, <1>4, <1>5, <1>6, OwnStep

\* Shutdown and Crash.
LEMMA StopKin ==
    ASSUME IInv, Kin, NEW s \in Dirs, NEW saved, Shutdown(s, saved) \/ Crash(s)
    PROVE  Kin'
<1>1. Running(s) /\ mem' = [mem EXCEPT ![s] = NoDag]
  BY DEF Shutdown, Crash, EndProcess
<1>2. file' = file \/ file' = [file EXCEPT ![s] = mem[s]]
  BY DEF Shutdown, Crash
<1>3. faults' \in Nat /\ faults <= faults'
  <2>1. Fault(0) \/ Fault(1)
    BY DEF Shutdown, Crash
  <2> QED BY <2>1, FaultCounts DEF Kin
<1>4. Grows(mem[s], mem[s])
  BY <1>1, RunningIsGood, EditsGrow
<1> QED BY <1>1, <1>2, <1>3, <1>4, GrowStep

\* Metabolism.
LEMMA MetabolismKin ==
    ASSUME IInv, Kin, NEW s \in Dirs, NEW saved,
           \/ \E fruits \in BOOLEAN : Advance(s, fruits, saved)
           \/ \E a \in Axes : RegisterAxis(s, a, saved)
           \/ QuarantineBlocks(s)
           \/ LiftQuarantine(s, saved)
    PROVE  Kin'
<1> DEFINE d == mem[s]
<1>1. Running(s) /\ Good(d)
  BY RunningIsGood DEF Advance, RegisterAxis, QuarantineBlocks, LiftQuarantine
<1>2. ASSUME NEW fruits, Advance(s, fruits, saved)
      PROVE  Kin'
  <2>1. Save(s, [d EXCEPT !.cycle = d.cycle + 1, !.mortal = d.mortal \/ fruits], saved)
    BY <1>2 DEF Advance
  <2> QED BY <1>1, <2>1, EditsGrow, SaveGrows
<1>3. ASSUME NEW a, RegisterAxis(s, a, saved)
      PROVE  Kin'
  <2>1. Save(s, [d EXCEPT !.axes = d.axes \cup {a}], saved)
    BY <1>3 DEF RegisterAxis
  <2> QED BY <1>1, <2>1, EditsGrow, SaveGrows
<1>4. CASE QuarantineBlocks(s)
  BY <1>1, <1>4, EditsGrow, SaveGrows DEF QuarantineBlocks
<1>5. CASE LiftQuarantine(s, saved)
  BY <1>1, <1>5, EditsGrow, SaveGrows DEF LiftQuarantine
<1> QED BY <1>2, <1>3, <1>4, <1>5

\* Succession, archival and death.
LEMMA EndsOfLifeKin ==
    ASSUME IInv, Kin, NEW s \in Dirs, NEW saved, EndsOfLife(s, saved)
    PROVE  Kin'
<1> DEFINE d == mem[s]
<1>1. Running(s) /\ Good(d)
  BY RunningIsGood DEF EndsOfLife, UpdateSuccessorChain, AcceptSuccession,
     SuccessionBypass, RetireBet, RetireBetUnsaved, Euthanize, EuthanizeUnsaved
<1>2. ASSUME NEW i, UpdateSuccessorChain(s, i, saved)
      PROVE  Kin'
  <2>1. Save(s, [d EXCEPT !.successors = Append(d.successors, i)], saved)
    BY <1>2 DEF UpdateSuccessorChain
  <2> QED BY <1>1, <2>1, EditsGrow, SaveGrows
<1>3. ASSUME NEW f, NEW written, Save(s, [d EXCEPT !.family = Append(@, f)], written)
      PROVE  Kin'
  <2>1. Save(s, [d EXCEPT !.family = Append(d.family, f)], written)
    BY <1>3
  <2> QED BY <1>1, <2>1, EditsGrow, SaveGrows
<1>4. CASE AcceptSuccession(s, saved) \/ RetireBetUnsaved(s)
  BY <1>3, <1>4 DEF AcceptSuccession, RetireBetUnsaved
<1>5. CASE SuccessionBypass(s)
  BY <1>1, <1>5, EditsGrow, SaveGrows DEF SuccessionBypass
<1>6. CASE EuthanizeUnsaved(s)
  BY <1>1, <1>6, EditsGrow, SaveGrows DEF EuthanizeUnsaved
<1>7. faults' = faults => faults' \in Nat /\ faults <= faults'
  BY DEF Kin
<1>8. CASE RetireBet(s)
  <2> DEFINE k == [d EXCEPT !.family = Append(d.family, "retired")]
  <2>1. /\ file' = [file EXCEPT ![s] = k]
        /\ mem' = [mem EXCEPT ![s] = NoDag] /\ faults' = faults
    BY <1>8 DEF RetireBet, EndProcess
  <2>2. Grows(d, k)
    BY <1>1, EditsGrow
  <2> HIDE DEF k
  <2> QED BY <1>1, <1>7, <2>1, <2>2, GrowStep
<1>9. CASE Euthanize(s)
  <2>1. /\ file' = [file EXCEPT ![s] = Died(d)]
        /\ mem' = [mem EXCEPT ![s] = NoDag] /\ faults' = faults
    BY <1>9 DEF Euthanize, EndProcess
  <2> QED BY <1>1, <1>7, <2>1, EditsGrow, GrowStep
<1> QED BY <1>2, <1>4, <1>5, <1>6, <1>8, <1>9 DEF EndsOfLife

\* A child's file appears where there was none.  The parent's own file, if it is
\* written too, knows the child; otherwise the child may be one more without a record,
\* and a fault was paid for it.
LEMMA SproutKin ==
    ASSUME IInv, Kin, NEW s \in Dirs, Running(s), NEW c \in Dirs, c # s, ~file[c].born,
           NEW child, child.born, child.births = {}, NEW d, Grows(mem[s], d),
           \/ /\ file' = [file EXCEPT ![c] = child, ![s] = d]
              /\ \E b \in d.births : b.child = child.id
              /\ faults' = faults
           \/ file' = [file EXCEPT ![c] = child] /\ faults' = faults + 1,
           mem' = [mem EXCEPT ![s] = d] \/ mem' = [mem EXCEPT ![s] = NoDag]
    PROVE  Kin'
<1>1. d.born /\ Stands(s, d)
  BY GrownStands DEF Kin, Grows
<1>2. /\ file'[c] = child /\ (file'[s] = d \/ file'[s] = file[s])
      /\ \A t \in Dirs : t # s /\ t # c => file'[t] = file[t]
  BY DEF IInv, OnDirs
<1>3. \A t \in Dirs : file[t].born =>
          file'[t].born /\ file[t].births \subseteq file'[t].births
  BY <1>1, <1>2 DEF Stands
<1>4. \A t \in Dirs \ {c} : file'[t].born /\ Len(file'[t].id) > 0 =>
          file[t].born /\ file[t].id = file'[t].id
  BY <1>1, <1>2 DEF Stands
<1>5. Unrecorded' \subseteq Unrecorded \cup {c}
  BY <1>3, <1>4 DEF Unrecorded
<1>6. /\ IsFiniteSet(Unrecorded) /\ Cardinality(Unrecorded) \in Nat
      /\ Cardinality(Unrecorded) <= faults /\ faults \in Nat
  BY FS_CardinalityType DEF Kin
<1>7. IsFiniteSet(Unrecorded') /\ Cardinality(Unrecorded') <= faults' /\ faults' \in Nat
  <2>1. CASE faults' = faults + 1
    <3>1. /\ IsFiniteSet(Unrecorded \cup {c})
          /\ Cardinality(Unrecorded \cup {c}) \in
                {Cardinality(Unrecorded), Cardinality(Unrecorded) + 1}
      BY <1>6, FS_AddElement
    <3>2. /\ IsFiniteSet(Unrecorded')
          /\ Cardinality(Unrecorded') <= Cardinality(Unrecorded \cup {c})
      BY <1>5, <3>1, FS_Subset
    <3>3. Cardinality(Unrecorded') \in Nat
      BY <3>2, FS_CardinalityType
    <3> QED BY <1>6, <2>1, <3>1, <3>2, <3>3
  <2>2. CASE faults' # faults + 1
    <3>1. /\ file' = [file EXCEPT ![c] = child, ![s] = d] /\ faults' = faults
          /\ \E b \in d.births : b.child = child.id
      BY <2>2
    <3>2. file'[s] = d /\ file'[c] = child
      BY <3>1 DEF IInv, OnDirs
    <3>3. c \notin Unrecorded'
      <4>1. PICK b \in d.births : b.child = child.id
        BY <3>1
      <4>2. file'[s].born /\ b \in file'[s].births /\ b.child = file'[c].id
        BY <1>1, <3>2, <4>1
      <4>3. file'[c].id \in {x.child : x \in file'[s].births}
        BY <4>2
      <4> QED BY <4>2, <4>3 DEF Unrecorded
    <3>4. Unrecorded' \subseteq Unrecorded
      BY <1>5, <3>3
    <3>5. /\ IsFiniteSet(Unrecorded') /\ Cardinality(Unrecorded') \in Nat
          /\ Cardinality(Unrecorded') <= Cardinality(Unrecorded)
      BY <1>6, <3>4, FS_Subset, FS_CardinalityType
    <3> QED BY <1>6, <3>1, <3>5
  <2> QED BY <2>1, <2>2
<1>8. ASSUME NEW t \in Dirs, mem'[t].born
      PROVE  Stands(t, mem[t])'
  <2>1. CASE t = s
    <3>1. mem'[t] = d
      BY <1>8, <2>1 DEF IInv, OnDirs, NoDag
    <3> QED BY <1>1, <1>2, <2>1, <3>1 DEF Stands
  <2>2. CASE t # s
    <3>1. mem'[t] = mem[t]
      BY <2>2 DEF IInv, OnDirs
    <3>2. Stands(t, mem[t])
      BY <1>8, <3>1 DEF Kin, Running
    <3>3. CASE t = c
      BY <1>2, <3>1, <3>2, <3>3 DEF Stands
    <3>4. CASE t # c
      BY <1>2, <2>2, <3>1, <3>2, <3>4 DEF Stands
    <3> QED BY <3>3, <3>4
  <2> QED BY <2>1, <2>2
<1> QED BY <1>7, <1>8 DEF Kin, Running

\* Spawns.
LEMMA SpawnsKin ==
    ASSUME IInv, Kin, NEW s \in Dirs, NEW saved \in BOOLEAN, Spawns(s, saved)
    PROVE  Kin'
<1>1. PICK e \in Envelopes :
        \/ SproutRefused(s, e, saved)
        \/ SproutFails(s, e)
        \/ \E c \in Dirs : Sprout(s, e, c, saved) \/ SproutCrashes(s, e, c)
  BY DEF Spawns
<1> DEFINE d == mem[s]
           o == Overridden(d, e)
           r == Recorded(d, e)
           child == ChildOf(o, e)
<1>2. Running(s) /\ Good(d)
  BY <1>1, RunningIsGood DEF SproutRefused, SproutFails, Sprout, SproutCrashes
<1>3. Good(o) /\ o.id = d.id /\ Grows(d, d) /\ Grows(d, o) /\ Grows(d, r)
  BY <1>2, OverriddenGood, BirthGrows, EditsGrow
<1>4. CASE SproutRefused(s, e, saved)
  <2> DEFINE seen == IF Attested(d, e) /\ PassesDepth(d, e) THEN o ELSE d
  <2>1. Good(seen) /\ Grows(d, seen)
    BY <1>2, <1>3
  <2>2. Save(s, Alarmed(seen), saved)
    BY <1>4 DEF SproutRefused
  <2> HIDE DEF seen
  <2>3. Grows(seen, Alarmed(seen))
    BY <2>1, EditsGrow
  <2>4. Grows(d, Alarmed(seen))
    BY <2>1, <2>3 DEF Grows
  <2> QED BY <1>2, <2>2, <2>4, SaveGrows
<1>5. CASE SproutFails(s, e)
  BY <1>2, <1>3, <1>5, SaveGrows DEF SproutFails
<1>6. child.born /\ child.births = {} /\ child.id = Mint(d.id, e)
  BY <1>3, ChildIsNew
<1>7. \E b \in r.births : b.child = child.id
  BY <1>2, <1>6, BirthGrows
<1> HIDE DEF o, r, child
<1>8. ASSUME NEW c \in Dirs, Sprout(s, e, c, saved)
      PROVE  Kin'
  <2>1. /\ c # s /\ ~file[c].born /\ mem' = [mem EXCEPT ![s] = r]
        /\ file' = [file EXCEPT ![c] = child, ![s] = IF saved THEN r ELSE @]
        /\ Fault(IF saved THEN 0 ELSE 1)
    BY <1>8 DEF Sprout, o, r, child
  <2>2. CASE saved
    <3>1. file' = [file EXCEPT ![c] = child, ![s] = r] /\ faults' = faults
      BY <2>1, <2>2, FaultCounts DEF Kin
    <3>2. \/ /\ file' = [file EXCEPT ![c] = child, ![s] = r]
             /\ \E b \in r.births : b.child = child.id
             /\ faults' = faults
          \/ file' = [file EXCEPT ![c] = child] /\ faults' = faults + 1
      BY <1>7, <3>1
    <3> QED BY <1>2, <1>3, <1>6, <2>1, <3>2, SproutKin
  <2>3. CASE ~saved
    <3>1. file' = [file EXCEPT ![c] = child] /\ faults' = faults + 1
      BY <2>1, <2>3, FaultCounts DEF IInv, OnDirs
    <3> QED BY <1>2, <1>3, <1>6, <2>1, <3>1, SproutKin
  <2> QED BY <2>2, <2>3
<1>9. ASSUME NEW c \in Dirs, SproutCrashes(s, e, c)
      PROVE  Kin'
  <2>1. /\ c # s /\ ~file[c].born /\ mem' = [mem EXCEPT ![s] = NoDag]
        /\ file' = [file EXCEPT ![c] = child] /\ Fault(1)
    BY <1>9 DEF SproutCrashes, EndProcess, o, child
  <2>2. faults' = faults + 1
    BY <2>1, FaultCounts
  <2> QED BY <1>2, <1>3, <1>6, <2>1, <2>2, SproutKin
<1> QED BY <1>1, <1>4, <1>5, <1>8, <1>9

\* At the start no directory holds a child.
LEMMA InitKin == LifeInit => Kin
<1> SUFFICES ASSUME LifeInit PROVE Kin
  OBVIOUS
<1>1. \A s \in Dirs : file[s].born => Len(file[s].id) = 0
  <2>1. ~NoDag.born /\ Orphan.id = <<>>
    BY DEF NoDag, Orphan, Ancestor, Genesis
  <2>2. \A s \in Dirs : file[s] = NoDag \/ file[s] = Orphan
    BY DEF LifeInit
  <2> QED BY <2>1, <2>2
<1>2. Unrecorded = {}
  BY <1>1 DEF Unrecorded
<1>3. IsFiniteSet(Unrecorded) /\ Cardinality(Unrecorded) = 0 /\ faults = 0
  BY <1>2, FS_EmptySet DEF LifeInit
<1>4. \A s \in Dirs : ~Running(s)
  BY DEF LifeInit, Running, NoDag
<1> QED BY <1>3, <1>4 DEF Kin

\* No step breaks it.
LEMMA StepKin == IInv /\ Kin /\ [LifeStep]_vars => Kin'
<1> SUFFICES ASSUME IInv, Kin, [LifeStep]_vars PROVE Kin'
  OBVIOUS
<1>1. CASE UNCHANGED vars
  <2>1. file' = file /\ mem' = mem /\ faults' = faults
    BY <1>1 DEF vars
  <2>2. Unrecorded' = Unrecorded
    BY <2>1 DEF Unrecorded
  <2> QED BY <2>1, <2>2 DEF Kin, Running, Stands
<1>2. CASE StartsAndEnds
  BY <1>2, BootKin, StopKin DEF StartsAndEnds
<1>3. CASE LifeNext
  <2>1. PICK s \in Dirs, saved \in BOOLEAN :
          \/ \E fruits \in {FALSE, (s \in Elders)} : Advance(s, fruits, saved)
          \/ \E a \in Axes : RegisterAxis(s, a, saved)
          \/ QuarantineBlocks(s)
          \/ LiftQuarantine(s, saved)
          \/ Spawns(s, saved)
          \/ s \in Elders /\ EndsOfLife(s, saved)
    BY <1>3 DEF LifeNext
  <2>2. FALSE \in BOOLEAN /\ (s \in Elders) \in BOOLEAN
    OBVIOUS
  <2>3. (\E fruits \in {FALSE, (s \in Elders)} : Advance(s, fruits, saved))
          => \E fruits \in BOOLEAN : Advance(s, fruits, saved)
    BY <2>2, Zenon
  <2> QED BY <2>1, <2>3, MetabolismKin, SpawnsKin, EndsOfLifeKin
<1> QED BY <1>1, <1>2, <1>3 DEF LifeStep

-----------------------------------------------------------------------------
(* What it gives. *)

\* Every DAG there is, in a file or in memory, is a good one.
LEMMA DagsAreGood ==
    ASSUME IInv, NEW d \in Dags
    PROVE  Good(d)
BY BornIsGood DEF Dags, IInv

\* C48: in every DAG, over all the restarts behind it, the births are at least the
\* minimal interval apart and no more than the quota (verify_spawn_co_attestation).
THEOREM BirthsSpaced == LifeSpec => []BirthsAreSpaced
<1>1. IInv => BirthsAreSpaced
  BY DagsAreGood DEF BirthsAreSpaced, Good, Spaced
<1> QED BY <1>1, Invariance, PTL

\* handle_update_successor_chain: the intervals are in order and disjoint in every
\* DAG, and the caches of a process are what its own DAG gives.
THEOREM SuccessionSerial == LifeSpec => []SuccessionIsSerial
<1>1. IInv => SuccessionIsSerial
  BY DagsAreGood DEF SuccessionIsSerial, Good, Serial, IInv
<1> QED BY <1>1, Invariance, PTL

\* C34: no axis grows before the birth quarantine ran out or was lifted, through
\* every restart (is_in_birth_period_quarantine).
THEOREM QuarantineHolds == LifeSpec => []GrownAfterQuarantine
<1>1. IInv => GrownAfterQuarantine
  BY DagsAreGood DEF GrownAfterQuarantine, Good, Rested
<1> QED BY <1>1, Invariance, PTL
\* reproduction.rs writes the child's file before the parent's: each child its
\* parent's file does not know cost a crash or a failed save.
THEOREM ChildrenRecorded == LifeSpec => []ChildrenAreRecorded
<1>1. Kin => ChildrenAreRecorded
  BY DEF Kin, ChildrenAreRecorded
<1>2. LifeSpec => []Kin
  BY InitKin, StepKin, Invariance, PTL DEF LifeSpec
<1> QED BY <1>1, <1>2, PTL
=============================================================================
