----------------------- MODULE SchemaMigrationProofs -----------------------
(***************************************************************************)
(* Proofs about SchemaMigration, for every set of axes and diffs, every    *)
(* window and every bound.                                                 *)
(*                                                                         *)
(* The inductive invariant IInv joins the types, that Rust's record is the *)
(* one its DAG derives to, that no logged migration has outlived the       *)
(* window, and that the migration events add up.  The window cannot be     *)
(* proved of `migration' alone: a restart takes the record from the file,  *)
(* and the file may be several failed saves behind the process.            *)
(***************************************************************************)
EXTENDS SchemaMigration, FiniteSetTheorems, TLAPS

\* At most one migration, without counting.
AtMostOne(ms) == ms = {} \/ \E m \in Migration : ms = {m}

WindowOpen(l) == \A m \in l.migration : l.counter - m.started_at \in 0 .. Window - 1

Balanced(l) ==
    l.started + l.unbuilt
      = l.committed + l.rolledBack + (IF l.migration = {} THEN 0 ELSE 1)

GoodLog(l) == l \in Log /\ AtMostOne(l.migration) /\ WindowOpen(l) /\ Balanced(l)

Candidates == [gradient : Gradient, diff : MigrationDiffs]
NoneOrOne(cs) == cs = {} \/ \E c \in Candidates : cs = {c}

Types ==
    /\ phase \in {"down", "booted", "live"}
    /\ gradient \in Gradient
    /\ NoneOrOne(candidate)
    /\ desynced \in BOOLEAN

Record ==
    IF phase = "down" THEN migration = {} /\ counter = 0
    ELSE migration = log.migration /\ counter = log.counter

IInv ==
    /\ Types
    /\ Record
    /\ GoodLog(log)
    /\ GoodLog(file)

-----------------------------------------------------------------------------
(* The gradient's operators keep its type, and advancing keeps its schema. *)

\* A new axis starts within the range of values.
LEMMA NewAxisType ==
    ASSUME NEW a \in Axes
    PROVE  NewAxis(a) \in [threshold : Thresholds, value : 0 .. MaxValue]
BY MigrationAssumption DEF NewAxis, DefaultThreshold, InitialValue, Thresholds

\* register_axis keeps the gradient's type.
LEMMA RegisteredType ==
    ASSUME NEW g \in Gradient, NEW a \in Axes
    PROVE  Registered(g, a) \in Gradient
BY NewAxisType DEF Registered, Gradient

\* An axis that is there has a schema and a value.
LEMMA AxisType ==
    ASSUME NEW g \in Gradient, NEW a \in Axes, Has(g, a)
    PROVE  /\ g[a] \in [threshold : Thresholds, value : 0 .. MaxValue]
           /\ g[a].value \in 0 .. MaxValue
           /\ g[a].threshold \in Thresholds
BY DEF Gradient, Has

\* perturb keeps it.
LEMMA PerturbedType ==
    ASSUME NEW g \in Gradient, NEW a \in Axes, Has(g, a)
    PROVE  Perturbed(g, a) \in Gradient
<1> DEFINE v == IF g[a].value < MaxValue THEN g[a].value + 1 ELSE g[a].value
<1>1. v \in 0 .. MaxValue
  BY AxisType, MigrationAssumption
<1>2. [g[a] EXCEPT !.value = v] \in [threshold : Thresholds, value : 0 .. MaxValue]
  <2> HIDE DEF v
  <2> QED BY <1>1, AxisType
<1>3. Perturbed(g, a) = [g EXCEPT ![a] = [g[a] EXCEPT !.value = v]]
  BY DEF Perturbed, Gradient
<1> HIDE DEF v
<1> QED BY <1>2, <1>3 DEF Gradient

\* A schema diff that applies keeps it.
LEMMA AppliedType ==
    ASSUME NEW g \in Gradient, NEW d \in Diff, Applies(d, g)
    PROVE  Applied(d, g) \in Gradient
<1>1. d.axis \in Axes /\ d.op \in {"modify_axis_threshold", "add_axis_to_gradient"}
  BY DEF Diff
<1>2. CASE d.op = "modify_axis_threshold"
  <2>1. Has(g, d.axis)
    BY <1>1, <1>2 DEF Applies, Has
  <2>2. [g[d.axis] EXCEPT !.threshold = ModifiedThreshold]
          \in [threshold : Thresholds, value : 0 .. MaxValue]
    BY <1>1, <2>1, AxisType DEF ModifiedThreshold, Thresholds
  <2>3. Applied(d, g) = [g EXCEPT ![d.axis] = [g[d.axis] EXCEPT !.threshold = ModifiedThreshold]]
    BY <1>1, <1>2 DEF Applied, Gradient
  <2> QED BY <1>1, <2>2, <2>3 DEF Gradient
<1>3. CASE d.op # "modify_axis_threshold"
  BY <1>1, <1>3, RegisteredType DEF Applied
<1> QED BY <1>2, <1>3

\* What advance leaves of one axis.
LEMMA AdvancedAxis ==
    ASSUME NEW g \in Gradient, NEW a \in Axes
    PROVE  /\ Advanced(g)[a] \in [threshold : Thresholds, value : 0 .. MaxValue] \cup {NoAxis}
           /\ Advanced(g)[a].threshold = g[a].threshold
<1>1. CASE ~Has(g, a)
  BY <1>1 DEF Advanced, Has
<1>2. CASE Has(g, a)
  <2> DEFINE v == IF Fruits(g, a) /\ a \notin Mortal THEN InitialValue(a) ELSE Updated(g, a)
  <2>1. v \in 0 .. MaxValue
    BY <1>2, AxisType, MigrationAssumption DEF InitialValue, Updated
  <2>2. Advanced(g)[a] = [g[a] EXCEPT !.value = v]
    BY <1>2 DEF Advanced
  <2> HIDE DEF v
  <2> QED BY <1>2, <2>1, <2>2, AxisType
<1> QED BY <1>1, <1>2

\* advance keeps the gradient's type.
LEMMA AdvancedType ==
    ASSUME NEW g \in Gradient
    PROVE  Advanced(g) \in Gradient
<1>1. /\ DOMAIN Advanced(g) = Axes
      /\ Advanced(g) = [a \in Axes |-> Advanced(g)[a]]
  BY DEF Advanced
<1> QED BY <1>1, AdvancedAxis DEF Gradient

\* advance changes values and never a schema.
LEMMA AdvancedSchema ==
    ASSUME NEW g \in Gradient
    PROVE  Schema(Advanced(g)) = Schema(g)
BY AdvancedAxis DEF Schema

-----------------------------------------------------------------------------
(* What each event of a turn leaves of a good log. *)

\* A fresh DAG.
LEMMA EmptyGood == GoodLog(EmptyLog)
<1>1. EmptyGradient \in Gradient
  BY DEF EmptyGradient, Gradient
<1>2. EmptyLog \in Log
  BY <1>1, MigrationAssumption DEF EmptyLog, Log
<1> QED BY <1>2 DEF GoodLog, EmptyLog, AtMostOne, WindowOpen, Balanced

\* A new gradient, or a mark, beside the same counter and events.
LEMMA SameEventsGood ==
    ASSUME NEW l, GoodLog(l), NEW k \in Log,
           k.migration = l.migration, k.counter = l.counter,
           k.started = l.started, k.unbuilt = l.unbuilt,
           k.committed = l.committed, k.rolledBack = l.rolledBack
    PROVE  GoodLog(k)
BY DEF GoodLog, AtMostOne, WindowOpen, Balanced

\* axis_registered:*.
LEMMA RegisteredGood ==
    ASSUME NEW l, GoodLog(l), NEW a \in Axes
    PROVE  /\ GoodLog(LogRegistered(l, a))
           /\ LogRegistered(l, a).migration = l.migration
           /\ LogRegistered(l, a).counter = l.counter
<1>1. l \in Log /\ l.gradient \in Gradient
  BY DEF GoodLog, Log
<1>2. [l EXCEPT !.gradient = Registered(l.gradient, a)] \in Log
  BY <1>1, RegisteredType DEF Log
<1>3. [l EXCEPT !.replays = FALSE] \in Log
  BY <1>1 DEF Log
<1>4. LogRegistered(l, a) \in Log
  BY <1>2, <1>3 DEF LogRegistered
<1>5. /\ LogRegistered(l, a).migration = l.migration
      /\ LogRegistered(l, a).counter = l.counter
      /\ LogRegistered(l, a).started = l.started
      /\ LogRegistered(l, a).unbuilt = l.unbuilt
      /\ LogRegistered(l, a).committed = l.committed
      /\ LogRegistered(l, a).rolledBack = l.rolledBack
  BY <1>1 DEF LogRegistered, Log
<1> QED BY <1>4, <1>5, SameEventsGood

\* axis_perturbed:*.
LEMMA PerturbedGood ==
    ASSUME NEW l, GoodLog(l), NEW a \in Axes
    PROVE  /\ GoodLog(LogPerturbed(l, a))
           /\ LogPerturbed(l, a).migration = l.migration
           /\ LogPerturbed(l, a).counter = l.counter
<1>1. l \in Log /\ l.gradient \in Gradient
  BY DEF GoodLog, Log
<1>2. Has(l.gradient, a) => [l EXCEPT !.gradient = Perturbed(l.gradient, a)] \in Log
  BY <1>1, PerturbedType DEF Log
<1>3. [l EXCEPT !.replays = FALSE] \in Log
  BY <1>1 DEF Log
<1>4. LogPerturbed(l, a) \in Log
  BY <1>2, <1>3 DEF LogPerturbed
<1>5. /\ LogPerturbed(l, a).migration = l.migration
      /\ LogPerturbed(l, a).counter = l.counter
      /\ LogPerturbed(l, a).started = l.started
      /\ LogPerturbed(l, a).unbuilt = l.unbuilt
      /\ LogPerturbed(l, a).committed = l.committed
      /\ LogPerturbed(l, a).rolledBack = l.rolledBack
  BY <1>1 DEF LogPerturbed, Log
<1> QED BY <1>4, <1>5, SameEventsGood

\* An evolution.
LEMMA EvolvedGood ==
    ASSUME NEW l, GoodLog(l)
    PROVE  /\ GoodLog([l EXCEPT !.evolved = TRUE])
           /\ [l EXCEPT !.evolved = TRUE].migration = l.migration
           /\ [l EXCEPT !.evolved = TRUE].counter = l.counter
<1>1. l \in Log
  BY DEF GoodLog
<1>2. [l EXCEPT !.evolved = TRUE] \in Log
  BY <1>1 DEF Log
<1>3. LET k == [l EXCEPT !.evolved = TRUE]
      IN  /\ k.migration = l.migration /\ k.counter = l.counter
          /\ k.started = l.started /\ k.unbuilt = l.unbuilt
          /\ k.committed = l.committed /\ k.rolledBack = l.rolledBack
  BY <1>1 DEF Log
<1> QED BY <1>2, <1>3, SameEventsGood

\* A submitted migration, when none is open.
LEMMA StartedGood ==
    ASSUME NEW l, GoodLog(l), l.migration = {}, NEW m \in Migration,
           m.started_at = l.counter
    PROVE  /\ GoodLog(LogStarted(l, m))
           /\ LogStarted(l, m).migration = {m}
           /\ LogStarted(l, m).counter = l.counter
<1> DEFINE k == LogStarted(l, m)
<1>1. /\ l \in Log /\ l.counter \in Nat /\ l.started \in Nat /\ l.unbuilt \in Nat
      /\ l.committed \in Nat /\ l.rolledBack \in Nat
      /\ l.started + l.unbuilt = l.committed + l.rolledBack
  BY MigrationAssumption DEF GoodLog, Log, Balanced
<1>2. /\ k.migration = {m} /\ k.counter = l.counter
      /\ k.started = l.started + 1 /\ k.unbuilt = l.unbuilt
      /\ k.committed = l.committed /\ k.rolledBack = l.rolledBack
  BY <1>1 DEF LogStarted, Log
<1>3. k \in Log
  <2>1. {m} \in SUBSET Migration /\ l.started + 1 \in Nat
    BY <1>1
  <2> QED BY <1>1, <2>1 DEF LogStarted, Log
<1> HIDE DEF k
<1>4. AtMostOne(k.migration)
  BY <1>2 DEF AtMostOne
<1>5. WindowOpen(k)
  BY <1>1, <1>2, MigrationAssumption DEF WindowOpen
<1>6. Balanced(k)
  BY <1>1, <1>2 DEF Balanced
<1>7. GoodLog(k) /\ k.migration = {m} /\ k.counter = l.counter
  BY <1>2, <1>3, <1>4, <1>5, <1>6 DEF GoodLog
<1> QED BY <1>7 DEF k

\* A migration whose candidate could not be built.
LEMMA UnbuiltGood ==
    ASSUME NEW l, GoodLog(l), l.migration = {}
    PROVE  /\ GoodLog(LogUnbuilt(l))
           /\ LogUnbuilt(l).migration = {}
           /\ LogUnbuilt(l).counter = l.counter
<1> DEFINE k == LogUnbuilt(l)
<1>1. /\ l \in Log /\ l.counter \in Nat /\ l.started \in Nat /\ l.unbuilt \in Nat
      /\ l.committed \in Nat /\ l.rolledBack \in Nat
      /\ l.started + l.unbuilt = l.committed + l.rolledBack
  BY MigrationAssumption DEF GoodLog, Log, Balanced
<1>2. /\ k.migration = {} /\ k.counter = l.counter
      /\ k.started = l.started /\ k.unbuilt = l.unbuilt + 1
      /\ k.committed = l.committed /\ k.rolledBack = l.rolledBack + 1
  BY <1>1 DEF LogUnbuilt, Log
<1>3. k \in Log
  <2>1. {} \in SUBSET Migration /\ l.unbuilt + 1 \in Nat /\ l.rolledBack + 1 \in Nat
    BY <1>1
  <2> QED BY <1>1, <2>1 DEF LogUnbuilt, Log
<1> HIDE DEF k
<1>4. Balanced(k)
  BY <1>1, <1>2 DEF Balanced
<1>5. GoodLog(k) /\ k.migration = {} /\ k.counter = l.counter
  BY <1>2, <1>3, <1>4 DEF GoodLog, AtMostOne, WindowOpen
<1> QED BY <1>5 DEF k

\* A decision closes the migration that is open.
LEMMA DecidedGood ==
    ASSUME NEW l, l \in Log, AtMostOne(l.migration), Balanced(l), l.migration # {},
           NEW k \in {LogCommitted(l), LogRolledBack(l)}
    PROVE  GoodLog(k) /\ k.migration = {} /\ k.counter = l.counter
<1>1. /\ l \in Log /\ l.counter \in Nat /\ l.started \in Nat /\ l.unbuilt \in Nat
      /\ l.committed \in Nat /\ l.rolledBack \in Nat
      /\ l.started + l.unbuilt = l.committed + l.rolledBack + 1
  BY MigrationAssumption DEF Log, Balanced
<1>2. /\ k.migration = {} /\ k.counter = l.counter
      /\ k.started = l.started /\ k.unbuilt = l.unbuilt
      /\ \/ k.committed = l.committed + 1 /\ k.rolledBack = l.rolledBack
         \/ k.committed = l.committed /\ k.rolledBack = l.rolledBack + 1
  BY <1>1 DEF LogCommitted, LogRolledBack, Log
<1>3. k \in Log
  <2>1. {} \in SUBSET Migration /\ l.committed + 1 \in Nat /\ l.rolledBack + 1 \in Nat
    BY <1>1
  <2> QED BY <1>1, <2>1 DEF LogCommitted, LogRolledBack, Log
<1>4. Balanced(k)
  BY <1>1, <1>2 DEF Balanced
<1> QED BY <1>2, <1>3, <1>4 DEF GoodLog, AtMostOne, WindowOpen

\* A cycle.  Only its window needs an argument, which the caller gives.
LEMMA CycleLog ==
    ASSUME NEW l, GoodLog(l), l.counter < MaxCycle
    PROVE  /\ LogCycle(l) \in Log
           /\ LogCycle(l).migration = l.migration
           /\ LogCycle(l).counter = l.counter + 1
           /\ LogCycle(l).gradient = Advanced(l.gradient)
           /\ LogCycle(l).replays = l.replays
           /\ LogCycle(l).evolved = l.evolved
           /\ LogCycle(l).committed = l.committed
           /\ AtMostOne(LogCycle(l).migration)
           /\ Balanced(LogCycle(l))
<1> DEFINE k == LogCycle(l)
<1>1. l \in Log /\ l.counter \in 0 .. MaxCycle /\ Advanced(l.gradient) \in Gradient
  BY AdvancedType DEF GoodLog, Log
<1>2. l.counter + 1 \in 0 .. MaxCycle
  BY <1>1, MigrationAssumption
<1>3. k \in Log
  BY <1>1, <1>2 DEF LogCycle, Log
<1>4. /\ k.migration = l.migration /\ k.counter = l.counter + 1
      /\ k.gradient = Advanced(l.gradient)
      /\ k.replays = l.replays /\ k.evolved = l.evolved
      /\ k.started = l.started /\ k.unbuilt = l.unbuilt
      /\ k.committed = l.committed /\ k.rolledBack = l.rolledBack
  BY <1>1 DEF LogCycle, Log
<1> HIDE DEF k
<1>5. AtMostOne(k.migration) /\ Balanced(k)
  BY <1>4 DEF GoodLog, AtMostOne, Balanced
<1>6. /\ k \in Log /\ AtMostOne(k.migration) /\ Balanced(k)
      /\ k.migration = l.migration /\ k.counter = l.counter + 1
      /\ k.gradient = Advanced(l.gradient)
      /\ k.replays = l.replays /\ k.evolved = l.evolved /\ k.committed = l.committed
  BY <1>3, <1>4, <1>5
<1> QED BY <1>6 DEF k

-----------------------------------------------------------------------------
(* The candidate's type. *)

\* A diff that applies builds one candidate.
LEMMA BuiltType ==
    ASSUME gradient \in Gradient, NEW d \in MigrationDiffs, Applies(d, gradient)
    PROVE  NoneOrOne(BuiltCandidate(d))
<1>1. d \in Diff
  BY MigrationAssumption
<1>2. [gradient |-> Applied(d, gradient), diff |-> d] \in Candidates
  BY <1>1, AppliedType DEF Candidates
<1> QED BY <1>2 DEF BuiltCandidate, NoneOrOne

\* A cycle advances it.
LEMMA NextCandidateType ==
    ASSUME NoneOrOne(candidate)
    PROVE  NoneOrOne(NextCandidate)
<1>1. CASE candidate = {}
  BY <1>1 DEF NextCandidate, NoneOrOne
<1>2. ASSUME NEW c \in Candidates, candidate = {c}
      PROVE  NoneOrOne(NextCandidate)
  <2>1. NextCandidate = {[c EXCEPT !.gradient = Advanced(c.gradient)]}
    BY <1>2 DEF NextCandidate
  <2>2. [c EXCEPT !.gradient = Advanced(c.gradient)] \in Candidates
    BY AdvancedType DEF Candidates
  <2> QED BY <2>1, <2>2 DEF NoneOrOne
<1> QED BY <1>1, <1>2 DEF NoneOrOne

\* So a promotion yields a gradient.
LEMMA PromotedType ==
    ASSUME gradient \in Gradient, NoneOrOne(candidate)
    PROVE  Promoted \in Gradient
<1>1. CASE candidate = {}
  BY <1>1, AdvancedType DEF Promoted
<1>2. ASSUME NEW c \in Candidates, candidate = {c}
      PROVE  Promoted \in Gradient
  <2> DEFINE n == [c EXCEPT !.gradient = Advanced(c.gradient)]
  <2>1. NextCandidate = {n} /\ candidate # {}
    BY <1>2 DEF NextCandidate
  <2>2. n.gradient \in Gradient
    BY AdvancedType DEF Candidates
  <2> HIDE DEF n
  <2>3. (CHOOSE x \in NextCandidate : TRUE) = n
    BY <2>1
  <2> QED BY <2>1, <2>2, <2>3 DEF Promoted
<1> QED BY <1>1, <1>2 DEF NoneOrOne

-----------------------------------------------------------------------------
(* The inductive invariant. *)

\* The process ends: the record and the log start again from nothing.
LEMMA EndKeeps ==
    ASSUME IInv, ProcessEnds, GoodLog(file')
    PROVE  IInv'
<1>1. EmptyGradient \in Gradient
  BY DEF EmptyGradient, Gradient
<1>2. Types' /\ Record'
  BY <1>1 DEF ProcessEnds, Types, Record, NoneOrOne
<1>3. GoodLog(log')
  BY EmptyGood DEF ProcessEnds
<1> QED BY <1>2, <1>3 DEF IInv, GoodLog, WindowOpen, AtMostOne, Balanced

\* A turn that leaves a good log which agrees with the record.
LEMMA TurnKeeps ==
    ASSUME IInv, phase = "live", phase' = "live", Types',
           NEW l, GoodLog(l), NEW saved, Saves(l, saved),
           migration' = l.migration, counter' = l.counter
    PROVE  IInv'
<1>1. log' = l /\ GoodLog(log') /\ GoodLog(file')
  BY DEF Saves, IInv
<1>2. Record'
  BY <1>1 DEF Record
<1> QED BY <1>1, <1>2 DEF IInv, GoodLog, WindowOpen, AtMostOne, Balanced

\* Every request keeps it.
LEMMA RequestKeeps ==
    ASSUME IInv, NEW saved \in BOOLEAN, Request(saved)
    PROVE  IInv'
<1>1. phase = "live" /\ phase' = "live"
  BY DEF Request, RegisterAxis, PerturbAxis, Evolve, StartMigration, BuildFails,
         RefuseMigration, AbortMigration, Answered
<1>2. /\ migration = log.migration /\ counter = log.counter
      /\ gradient \in Gradient /\ NoneOrOne(candidate) /\ desynced \in BOOLEAN
      /\ GoodLog(log)
  BY <1>1 DEF IInv, Record, Types
<1>3. ASSUME NEW a \in Axes, RegisterAxis(a, saved)
      PROVE  IInv'
  <2>1. Types'
    BY <1>1, <1>2, <1>3, RegisteredType DEF RegisterAxis, Types
  <2>2. Saves(LogRegistered(log, a), saved) /\ migration' = migration /\ counter' = counter
    BY <1>3 DEF RegisterAxis
  <2> QED BY <1>1, <1>2, <2>1, <2>2, RegisteredGood, TurnKeeps
<1>4. ASSUME NEW a \in Axes, PerturbAxis(a, saved)
      PROVE  IInv'
  <2>1. Types'
    BY <1>1, <1>2, <1>4, PerturbedType DEF PerturbAxis, Types
  <2>2. Saves(LogPerturbed(log, a), saved) /\ migration' = migration /\ counter' = counter
    BY <1>4 DEF PerturbAxis
  <2> QED BY <1>1, <1>2, <2>1, <2>2, PerturbedGood, TurnKeeps
<1>5. ASSUME NEW d \in EvolutionDiffs, Evolve(d, saved)
      PROVE  IInv'
  <2>1. d \in Diff /\ Applies(d, gradient)
    BY <1>5, MigrationAssumption DEF Evolve
  <2>2. Types'
    BY <1>1, <1>2, <1>5, <2>1, AppliedType DEF Evolve, Types
  <2>3. /\ Saves([log EXCEPT !.evolved = TRUE], saved)
        /\ migration' = migration /\ counter' = counter
    BY <1>5 DEF Evolve
  <2> QED BY <1>1, <1>2, <2>2, <2>3, EvolvedGood, TurnKeeps
<1>6. ASSUME NEW d \in MigrationDiffs, StartMigration(d, saved)
      PROVE  IInv'
  <2> DEFINE m == [diff |-> d, started_at |-> counter]
  <2>1. Types'
    BY <1>1, <1>2, <1>6, BuiltType DEF StartMigration, Types
  <2>2. /\ Saves(LogStarted(log, m), saved)
        /\ migration' = {m} /\ counter' = counter /\ migration = {}
    BY <1>6 DEF StartMigration
  <2>3. m \in Migration /\ m.started_at = log.counter
    BY <1>2 DEF Migration, GoodLog, Log
  <2> HIDE DEF m
  <2> QED BY <1>1, <1>2, <2>1, <2>2, <2>3, StartedGood, TurnKeeps
<1>7. ASSUME NEW d \in MigrationDiffs, BuildFails(d, saved)
      PROVE  IInv'
  <2>1. Types'
    BY <1>1, <1>2, <1>7 DEF BuildFails, Types
  <2>2. /\ Saves(LogUnbuilt(log), saved)
        /\ migration' = {} /\ counter' = counter /\ migration = {}
    BY <1>7 DEF BuildFails
  <2> QED BY <1>1, <1>2, <2>1, <2>2, UnbuiltGood, TurnKeeps
<1>8. ASSUME NEW d \in MigrationDiffs, RefuseMigration(d, saved)
      PROVE  IInv'
  <2>1. Types'
    BY <1>1, <1>2, <1>8, BuiltType DEF RefuseMigration, Types
  <2>2. Saves(log, saved) /\ migration' = migration /\ counter' = counter
    BY <1>8 DEF RefuseMigration
  <2> QED BY <1>1, <1>2, <2>1, <2>2, TurnKeeps
<1>9. ASSUME NEW acked \in BOOLEAN, AbortMigration(acked, saved)
      PROVE  IInv'
  <2>1. Types'
    BY <1>1, <1>2, <1>9 DEF AbortMigration, Types, NoneOrOne
  <2>2. /\ Saves(LogRolledBack(log), saved)
        /\ migration' = {} /\ counter' = counter /\ migration # {}
    BY <1>9 DEF AbortMigration
  <2>3. /\ GoodLog(LogRolledBack(log)) /\ LogRolledBack(log).migration = {}
        /\ LogRolledBack(log).counter = log.counter
    BY <1>2, <2>2, DecidedGood DEF GoodLog
  <2> QED BY <1>1, <1>2, <2>1, <2>2, <2>3, TurnKeeps
<1> QED BY <1>3, <1>4, <1>5, <1>6, <1>7, <1>8, <1>9 DEF Request

\* Every cycle keeps it.  A migration that neither commits nor rolls back has
\* not completed its window, counted to the cycle that is just ending.
LEMMA AdvanceKeeps ==
    ASSUME IInv, NEW saved \in BOOLEAN, Advance(saved)
    PROVE  IInv'
<1>1. /\ phase = "live" /\ phase' = "live"
      /\ counter < MaxCycle /\ counter' = counter + 1
  BY DEF Advance, AdvanceOnly, AdvanceCommits, AdvanceRollsBack, Cycles, Answered
<1>2. /\ migration = log.migration /\ counter = log.counter
      /\ gradient \in Gradient /\ NoneOrOne(candidate) /\ desynced \in BOOLEAN
      /\ GoodLog(log)
  BY <1>1 DEF IInv, Record, Types
<1>3. /\ LogCycle(log) \in Log /\ AtMostOne(LogCycle(log).migration)
      /\ Balanced(LogCycle(log))
      /\ LogCycle(log).migration = migration /\ LogCycle(log).counter = counter + 1
  BY <1>1, <1>2, CycleLog
<1>4. ASSUME NEW k \in {LogCommitted(LogCycle(log)), LogRolledBack(LogCycle(log))},
             migration # {}
      PROVE  GoodLog(k) /\ k.migration = {} /\ k.counter = counter + 1
  BY <1>3, <1>4, DecidedGood
<1>5. Advanced(gradient) \in Gradient /\ Promoted \in Gradient /\ NoneOrOne(NextCandidate)
  BY <1>2, AdvancedType, PromotedType, NextCandidateType
<1>6. ASSUME NEW degenerate \in BOOLEAN, AdvanceOnly(saved, degenerate)
      PROVE  IInv'
  <2>1. Types'
    BY <1>1, <1>2, <1>5, <1>6 DEF AdvanceOnly, Types
  <2>2. Saves(LogCycle(log), saved) /\ migration' = migration
    BY <1>6 DEF AdvanceOnly
  <2>3. ASSUME NEW m \in migration
        PROVE  (counter + 1) - m.started_at \in 0 .. Window - 1
    <3>1. /\ counter \in Nat /\ m.started_at \in Nat
          /\ counter - m.started_at \in 0 .. Window - 1
      BY <1>2, <2>3, MigrationAssumption DEF GoodLog, Log, Migration, WindowOpen
    <3>2. ~ (counter + 1 - m.started_at >= Window)
      BY <1>6, <2>3 DEF AdvanceOnly, Commits, RollsBack, WindowComplete
    <3> QED BY <3>1, <3>2, MigrationAssumption
  <2>4. GoodLog(LogCycle(log))
    <3> DEFINE k == LogCycle(log)
    <3>1. k \in Log /\ AtMostOne(k.migration) /\ Balanced(k)
      BY <1>3
    <3>2. k.migration = migration /\ k.counter = counter + 1
      BY <1>3
    <3> HIDE DEF k
    <3>3. WindowOpen(k)
      BY <2>3, <3>2 DEF WindowOpen
    <3>4. GoodLog(k)
      BY <3>1, <3>3 DEF GoodLog
    <3> QED BY <3>4 DEF k
  <2> QED BY <1>1, <1>3, <2>1, <2>2, <2>4, TurnKeeps
<1>7. ASSUME NEW acked \in BOOLEAN, AdvanceCommits(acked, saved)
      PROVE  IInv'
  <2>1. Types'
    BY <1>1, <1>2, <1>5, <1>7 DEF AdvanceCommits, Types, NoneOrOne
  <2>2. /\ Saves(LogCommitted(LogCycle(log)), saved)
        /\ migration' = {} /\ migration # {}
    BY <1>7 DEF AdvanceCommits, Commits
  <2> QED BY <1>1, <1>4, <2>1, <2>2, TurnKeeps
<1>8. ASSUME NEW acked \in BOOLEAN, NEW degenerate \in BOOLEAN,
             AdvanceRollsBack(acked, saved, degenerate)
      PROVE  IInv'
  <2>1. Types'
    BY <1>1, <1>2, <1>5, <1>8 DEF AdvanceRollsBack, Types, NoneOrOne, Kept
  <2>2. /\ Saves(LogRolledBack(LogCycle(log)), saved)
        /\ migration' = {} /\ migration # {}
    BY <1>8 DEF AdvanceRollsBack, RollsBack
  <2> QED BY <1>1, <1>4, <2>1, <2>2, TurnKeeps
<1> QED BY <1>6, <1>7, <1>8 DEF Advance

\* Starting and ending keep it.
LEMMA RestKeeps ==
    ASSUME IInv,
           \/ Boot \/ Hello \/ HelloRejected \/ Shutdown \/ Save \/ Stop
           \/ \E saved \in BOOLEAN : CallTimesOut(saved)
    PROVE  IInv'
<1>1. CASE Boot
  <2>1. migration' = log'.migration /\ counter' = log'.counter /\ phase' = "booted"
    BY <1>1 DEF Boot
  <2>2. log' = file /\ file' = file /\ GoodLog(file)
    BY <1>1 DEF Boot, IInv
  <2>3. Types' /\ Record'
    BY <1>1, <2>1 DEF Boot, IInv, Types, Record
  <2> QED BY <2>2, <2>3 DEF IInv, GoodLog, WindowOpen, AtMostOne, Balanced
<1>2. CASE Hello
  <2>1. log.gradient \in Gradient
    BY DEF IInv, GoodLog, Log
  <2>2. Types' /\ Record'
    BY <1>2, <2>1 DEF Hello, IInv, Types, Record
  <2>3. log' = log /\ file' = file
    BY <1>2 DEF Hello
  <2> QED BY <2>2, <2>3 DEF IInv, GoodLog, WindowOpen, AtMostOne, Balanced
<1>3. CASE HelloRejected
  BY <1>3, EndKeeps DEF HelloRejected, IInv, GoodLog, WindowOpen, AtMostOne, Balanced
<1>4. CASE Shutdown
  BY <1>4, EndKeeps DEF Shutdown, IInv, GoodLog, WindowOpen, AtMostOne, Balanced
<1>5. CASE Save
  <2>1. Types' /\ Record'
    BY <1>5 DEF Save, IInv, Types, Record
  <2>2. log' = log /\ file' = log
    BY <1>5 DEF Save
  <2> QED BY <2>1, <2>2 DEF IInv, GoodLog, WindowOpen, AtMostOne, Balanced
<1>6. CASE Stop
  BY <1>6, EndKeeps DEF Stop, IInv, GoodLog, WindowOpen, AtMostOne, Balanced
<1>7. ASSUME NEW saved \in BOOLEAN, CallTimesOut(saved)
      PROVE  IInv'
  <2>1. Types'
    BY <1>7 DEF CallTimesOut, IInv, Types
  <2>2. /\ phase = "live" /\ phase' = "live" /\ Saves(log, saved)
        /\ migration' = log.migration /\ counter' = log.counter
    BY <1>7 DEF CallTimesOut, IInv, Record
  <2> QED BY <2>1, <2>2, TurnKeeps DEF IInv
<1> QED BY <1>1, <1>2, <1>3, <1>4, <1>5, <1>6, <1>7

\* IInv holds at the start.
LEMMA InitIInv == Init => IInv
<1> SUFFICES ASSUME Init PROVE IInv
  OBVIOUS
<1>1. EmptyGradient \in Gradient
  BY DEF EmptyGradient, Gradient
<1> QED BY <1>1, EmptyGood DEF Init, IInv, Types, Record, NoneOrOne

\* No step breaks it.
LEMMA NextIInv == IInv /\ [Next]_vars => IInv'
<1> SUFFICES ASSUME IInv, [Next]_vars PROVE IInv'
  OBVIOUS
<1>1. CASE UNCHANGED vars
  BY <1>1 DEF vars, IInv, Types, Record, GoodLog, WindowOpen, AtMostOne, Balanced
<1>2. CASE Next
  BY <1>2, RequestKeeps, AdvanceKeeps, RestKeeps DEF Next
<1> QED BY <1>1, <1>2

\* IInv is an invariant of the specification.
THEOREM Invariance == Spec => []IInv
BY InitIInv, NextIInv, PTL DEF Spec

-----------------------------------------------------------------------------
(* What it gives. *)

\* The window of a good log is open for any record taken from it.
LEMMA WindowOfRecord ==
    ASSUME IInv
    PROVE  DecidedWithinWindow
<1>1. \A m \in file.migration : file.counter - m.started_at \in 0 .. Window - 1
  BY DEF IInv, GoodLog, WindowOpen
<1>2. \A m \in log.migration : log.counter - m.started_at \in 0 .. Window - 1
  BY DEF IInv, GoodLog, WindowOpen
<1>3. migration = {} \/ (migration = log.migration /\ counter = log.counter)
  BY DEF IInv, Record
<1> QED BY <1>1, <1>2, <1>3 DEF DecidedWithinWindow

\* run_migration_step decides every migration within its window, whatever
\* restarts, refusals, timeouts and failed saves come between: C66 has no cause.
THEOREM Decided == Spec => []DecidedWithinWindow
BY Invariance, WindowOfRecord, PTL

\* ServerState.migration_candidate and the counter are what a boot would derive.
THEOREM RecordDerived == Spec => []RecordIsDerived
<1>1. IInv => RecordIsDerived
  BY DEF IInv, Record, RecordIsDerived
<1> QED BY <1>1, Invariance, PTL

\* At most one migration, counted.
LEMMA CountOpen ==
    ASSUME NEW ms, AtMostOne(ms)
    PROVE  Cardinality(ms) = IF ms = {} THEN 0 ELSE 1
<1>1. CASE ms = {}
  BY <1>1, FS_EmptySet
<1>2. ASSUME NEW m \in Migration, ms = {m}
      PROVE  Cardinality(ms) = 1 /\ ms # {}
  BY <1>2, FS_Singleton
<1> QED BY <1>1, <1>2 DEF AtMostOne

\* Each submitted migration has one migration_committed or migration_rolled_back
\* event, in memory and on file, except the one in flight.
THEOREM OneTerminal == Spec => []OneTerminalEach
<1>1. ASSUME NEW l, GoodLog(l)
      PROVE  l.started + l.unbuilt = l.committed + l.rolledBack + Cardinality(l.migration)
  BY <1>1, CountOpen DEF GoodLog, Balanced
<1>2. IInv => OneTerminalEach
  BY <1>1 DEF IInv, OneTerminalEach
<1> QED BY <1>2, Invariance, PTL

-----------------------------------------------------------------------------
(* The gradient in use is the one the next handshake would rebuild. *)

Agrees(g, l) == ~l.evolved => l.replays /\ g = l.gradient

\* Events that leave the replayed gradient alone.
LEMMA SameGradient ==
    ASSUME NEW l \in Log, NEW m
    PROVE  \A k \in {LogStarted(l, m), LogUnbuilt(l), LogRolledBack(l)} :
              k.gradient = l.gradient /\ k.replays = l.replays /\ k.evolved = l.evolved
BY DEF LogStarted, LogUnbuilt, LogRolledBack, Log

\* A commit changes the schema, which the replay does not know of.
LEMMA CommitEvolves ==
    ASSUME NEW l \in Log
    PROVE  LogCommitted(l).evolved = TRUE
BY DEF LogCommitted, Log

\* A registration or perturbation in Python is the one its event replays.
LEMMA TurnAgrees ==
    ASSUME NEW l \in Log, NEW a \in Axes, Agrees(l.gradient, l) \/ l.evolved
    PROVE  /\ ~Has(l.gradient, a) =>
                /\ LogRegistered(l, a).gradient = Registered(l.gradient, a)
                /\ LogRegistered(l, a).replays = l.replays
           /\ Has(l.gradient, a) =>
                /\ LogPerturbed(l, a).gradient = Perturbed(l.gradient, a)
                /\ LogPerturbed(l, a).replays = l.replays
           /\ LogRegistered(l, a).evolved = l.evolved
           /\ LogPerturbed(l, a).evolved = l.evolved
BY DEF LogRegistered, LogPerturbed, Log

\* One step.  A restart replays the log; a turn that Python answered changed the
\* gradient as its event says; any other leaves the bridge unusable.
LEMMA ReplayStep ==
    ASSUME IInv, GradientIsReplay, [Next]_vars
    PROVE  GradientIsReplay'
<1> SUFFICES ASSUME phase' = "live", ~desynced', ~log'.evolved
             PROVE  log'.replays /\ gradient' = log'.gradient
  BY DEF GradientIsReplay
<1>1. log \in Log
  BY DEF IInv, GoodLog
<1>2. ASSUME phase = "live", ~desynced, ~log.evolved
      PROVE  log.replays /\ gradient = log.gradient
  BY <1>2 DEF GradientIsReplay
<1>3. CASE UNCHANGED vars \/ Save
  BY <1>2, <1>3 DEF vars, Save
<1>4. CASE Hello
  BY <1>4 DEF Hello
<1>5. CASE Boot \/ HelloRejected \/ Shutdown \/ Stop \/ \E saved \in BOOLEAN : CallTimesOut(saved)
  BY <1>5 DEF Boot, HelloRejected, Shutdown, Stop, CallTimesOut, ProcessEnds
<1>6. ASSUME NEW saved \in BOOLEAN, Request(saved)
      PROVE  log'.replays /\ gradient' = log'.gradient
  <2>1. phase = "live" /\ ~desynced
    BY <1>6 DEF Request, RegisterAxis, PerturbAxis, Evolve, StartMigration, BuildFails,
           RefuseMigration, AbortMigration, Answered
  <2>2. CASE \E a \in Axes : RegisterAxis(a, saved)
    BY <1>1, <1>2, <2>1, <2>2, TurnAgrees DEF RegisterAxis, Saves, Agrees
  <2>3. CASE \E a \in Axes : PerturbAxis(a, saved)
    BY <1>1, <1>2, <2>1, <2>3, TurnAgrees DEF PerturbAxis, Saves, Agrees
  <2>4. CASE \E d \in EvolutionDiffs : Evolve(d, saved)
    BY <1>1, <2>4 DEF Evolve, Saves, Log
  <2>5. CASE \E d \in MigrationDiffs : StartMigration(d, saved)
    BY <1>1, <1>2, <2>1, <2>5, SameGradient DEF StartMigration, Saves
  <2>6. CASE \E d \in MigrationDiffs : BuildFails(d, saved) \/ RefuseMigration(d, saved)
    BY <1>1, <1>2, <2>1, <2>6, SameGradient DEF BuildFails, RefuseMigration, Saves
  <2>7. CASE \E acked \in BOOLEAN : AbortMigration(acked, saved)
    BY <1>1, <1>2, <2>1, <2>7, SameGradient DEF AbortMigration, Saves
  <2> QED BY <1>6, <2>2, <2>3, <2>4, <2>5, <2>6, <2>7 DEF Request
<1>7. ASSUME NEW saved \in BOOLEAN, Advance(saved)
      PROVE  log'.replays /\ gradient' = log'.gradient
  <2>1. phase = "live" /\ ~desynced /\ counter < MaxCycle
    BY <1>7 DEF Advance, AdvanceOnly, AdvanceCommits, AdvanceRollsBack, Cycles, Answered
  <2>2. counter = log.counter /\ GoodLog(log)
    BY <2>1 DEF IInv, Record
  <2>3. /\ LogCycle(log) \in Log /\ LogCycle(log).gradient = Advanced(log.gradient)
        /\ LogCycle(log).replays = log.replays /\ LogCycle(log).evolved = log.evolved
    BY <2>1, <2>2, CycleLog
  <2>4. CASE \E degenerate \in BOOLEAN : AdvanceOnly(saved, degenerate)
    BY <1>2, <2>1, <2>3, <2>4 DEF AdvanceOnly, Saves
  <2>5. CASE \E acked \in BOOLEAN : AdvanceCommits(acked, saved)
    BY <2>3, <2>5, CommitEvolves DEF AdvanceCommits, Saves
  <2>6. CASE \E acked, degenerate \in BOOLEAN : AdvanceRollsBack(acked, saved, degenerate)
    <3>1. log' = LogRolledBack(LogCycle(log)) /\ gradient' = Advanced(gradient)
      BY <2>6 DEF AdvanceRollsBack, Saves, Kept
    <3> QED BY <1>2, <2>1, <2>3, <3>1, SameGradient
  <2> QED BY <1>7, <2>4, <2>5, <2>6 DEF Advance
<1> QED BY <1>3, <1>4, <1>5, <1>6, <1>7 DEF Next

\* replay_python_events_from_dag rebuilds the gradient that DispatcherState held,
\* as long as no schema changed and the bridge is usable.
THEOREM GradientReplayed == Spec => []GradientIsReplay
<1>1. Init => GradientIsReplay
  BY DEF Init, GradientIsReplay
<1>2. IInv /\ GradientIsReplay /\ [Next]_vars => GradientIsReplay'
  BY ReplayStep
<1> QED BY <1>1, <1>2, Invariance, PTL DEF Spec

-----------------------------------------------------------------------------
(* The schema in use changes by decision only. *)

Decision ==
    phase = "live" /\ phase' = "live" /\ Schema(gradient') # Schema(gradient)
      => \/ log'.committed > log.committed
         \/ log'.counter = log.counter /\ migration' = migration /\ candidate' = candidate

\* One step.  An advance, in whatever way it ends, keeps the schema of the active
\* gradient; only an acknowledged commit replaces it.
LEMMA DecisionStep ==
    ASSUME IInv, [Next]_vars
    PROVE  Decision
<1> SUFFICES ASSUME phase = "live", phase' = "live", Schema(gradient') # Schema(gradient)
             PROVE  \/ log'.committed > log.committed
                    \/ /\ log'.counter = log.counter
                       /\ migration' = migration /\ candidate' = candidate
  BY DEF Decision
<1>1. gradient \in Gradient /\ log \in Log /\ counter = log.counter /\ GoodLog(log)
  BY DEF IInv, GoodLog, Types, Record
<1>2. CASE UNCHANGED vars \/ Boot \/ Hello \/ HelloRejected \/ Shutdown \/ Save \/ Stop
           \/ \E saved \in BOOLEAN : CallTimesOut(saved)
  BY <1>2 DEF vars, Boot, Hello, HelloRejected, Shutdown, Save, Stop, CallTimesOut, ProcessEnds
<1>3. ASSUME NEW saved \in BOOLEAN, NEW a \in Axes,
             RegisterAxis(a, saved) \/ PerturbAxis(a, saved)
      PROVE  log'.counter = log.counter /\ migration' = migration /\ candidate' = candidate
  BY <1>1, <1>3, RegisteredGood, PerturbedGood DEF RegisterAxis, PerturbAxis, Saves
<1>4. ASSUME NEW saved \in BOOLEAN, NEW d, Evolve(d, saved)
      PROVE  log'.counter = log.counter /\ migration' = migration /\ candidate' = candidate
  BY <1>1, <1>4 DEF Evolve, Saves, Log
<1>5. ASSUME NEW saved \in BOOLEAN, NEW d,
             StartMigration(d, saved) \/ BuildFails(d, saved) \/ RefuseMigration(d, saved)
      PROVE  FALSE
  BY <1>5 DEF StartMigration, BuildFails, RefuseMigration
<1>6. ASSUME NEW saved \in BOOLEAN, NEW acked \in BOOLEAN, AbortMigration(acked, saved)
      PROVE  FALSE
  BY <1>6 DEF AbortMigration
<1>7. ASSUME NEW saved \in BOOLEAN, NEW degenerate \in BOOLEAN, NEW acked \in BOOLEAN,
             AdvanceOnly(saved, degenerate) \/ AdvanceRollsBack(acked, saved, degenerate)
      PROVE  FALSE
  BY <1>1, <1>7, AdvancedSchema DEF AdvanceOnly, AdvanceRollsBack, Kept
<1>8. ASSUME NEW saved \in BOOLEAN, NEW acked \in BOOLEAN, AdvanceCommits(acked, saved)
      PROVE  log'.committed > log.committed
  <2>1. log' = LogCommitted(LogCycle(log)) /\ counter < MaxCycle
    BY <1>8 DEF AdvanceCommits, Saves, Cycles
  <2>2. LogCycle(log) \in Log /\ LogCycle(log).committed = log.committed
    BY <1>1, <2>1, CycleLog
  <2>3. LogCommitted(LogCycle(log)).committed = LogCycle(log).committed + 1
    BY <2>2 DEF LogCommitted, Log
  <2>4. log.committed \in Nat
    BY <1>1 DEF Log
  <2>5. log'.committed = log.committed + 1
    BY <2>1, <2>2, <2>3
  <2> QED BY <2>4, <2>5
<1>9. CASE \E saved \in BOOLEAN : Request(saved)
  BY <1>3, <1>4, <1>5, <1>6, <1>9 DEF Request
<1>10. CASE \E saved \in BOOLEAN : Advance(saved)
  BY <1>7, <1>8, <1>10 DEF Advance
<1> QED BY <1>2, <1>9, <1>10 DEF Next

\* No rollback, abort, refusal, timeout or failed save changes the schema in use.
THEOREM SchemaByDecision == Spec => SchemaChangesOnlyByDecision
<1>1. IInv /\ [Next]_vars => [Decision]_vars
  BY DecisionStep
<1> QED BY <1>1, Invariance, PTL DEF Spec, SchemaChangesOnlyByDecision, Decision
=============================================================================
