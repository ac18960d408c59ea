------------------------ MODULE MetabolicClockProofs ------------------------
(***************************************************************************)
(* Safety of MetabolicClock, proved for every value of the constants.      *)
(*                                                                         *)
(* Types first: the invariant is TypeOK with three facts it needs: the     *)
(* idle span stays below the bound (Reach), it is empty unless the main    *)
(* loop ticks (IdleOnlyLive: a boot reloads the counter but not the span), *)
(* and the axes can be counted (FiniteAxes).  Max is a CHOOSE, so the      *)
(* maximum of a set of cycle numbers is first shown to exist.              *)
(*                                                                         *)
(* Then Shapes reduces the actions to six kinds of step.  Each section     *)
(* after it strengthens one property to an inductive invariant: the tiling *)
(* first, for the counter a boot derives is only known through it; then    *)
(* what is kept beside the DAG; and on these the inert span, absorption    *)
(* and the prune boundaries.                                               *)
(***************************************************************************)
EXTENDS MetabolicClock, TLAPS, FiniteSetTheorems, WellFoundedInduction

-----------------------------------------------------------------------------
(* Arithmetic. *)

\* The values a boot starts from lie in their ranges.
LEMMA Zero ==
  0 \in Cycle /\ 0 \in 0 .. BatchMax - 1 /\ 0 \in 0 .. MaxFaults /\ MaxCycle \in Nat
BY CadenceAssumption DEF Cycle

\* Cycle as a range of naturals, without its definition.
LEMMA CycleRange ==
  MaxCycle \in Nat /\ \A c : c \in Cycle <=> c \in Nat /\ c <= MaxCycle
BY Zero DEF Cycle

\* A nonempty set of naturals has a least element: < is well founded.
LEMMA MinNat ==
  ASSUME NEW S, S \subseteq Nat, S # {}
  PROVE  \E x \in S : \A y \in S : x <= y
<1> DEFINE R == {p \in Nat \X Nat : p[1] < p[2]}
<1>1. IsWellFoundedOn(R, Nat)
  BY NatLessThanWellFounded DEF OpToRel
<1> HIDE DEF R
<1>2. PICK x \in S : \A y \in S : <<y, x>> \notin R
  BY <1>1, WFMin
<1>3. \A y \in S : ~(y < x)
  BY <1>2 DEF R
<1> QED
  BY <1>3

\* Max picks a member of a nonempty set of integers with an upper bound, and no
\* member is above it.
LEMMA MaxInt ==
  ASSUME NEW S, NEW N \in Int, S \subseteq Int, S # {}, \A x \in S : x <= N
  PROVE  /\ Max(S) \in S
         /\ \A y \in S : y <= Max(S)
<1> DEFINE T == {N - x : x \in S}
<1>1. T \subseteq Nat
  <2>1. \A x \in S : N - x \in Nat
    OBVIOUS
  <2> QED
    BY <2>1
<1>2. T # {}
  <2>1. PICK x \in S : TRUE
    OBVIOUS
  <2>2. N - x \in T
    OBVIOUS
  <2> QED
    BY <2>2
<1>3. PICK t \in T : \A u \in T : t <= u
  BY <1>1, <1>2, MinNat
<1>4. PICK m \in S : t = N - m
  BY <1>3
<1>5. \A y \in S : m >= y
  <2> TAKE y \in S
  <2>1. N - y \in T
    OBVIOUS
  <2>2. t <= N - y
    BY <1>3, <2>1
  <2> QED
    BY <1>4, <2>2
<1> HIDE DEF T
<1> QED
  BY <1>4, <1>5 DEF Max

\* Max on the sets the model takes it of: cycle numbers and Never.
LEMMA MaxMark ==
  ASSUME NEW S, S \subseteq Cycle \cup {Never}, S # {}
  PROVE  /\ Max(S) \in S
         /\ \A y \in S : y <= Max(S)
<1>1. S \subseteq Int /\ MaxCycle \in Int
  BY Zero, CycleRange DEF Never
<1>2. \A x \in S : x <= MaxCycle
  BY Zero, CycleRange DEF Never
<1> QED
  BY <1>1, <1>2, MaxInt

-----------------------------------------------------------------------------
(* The invariant, and the parts of a step. *)

\* The idle span in memory never promises a cycle beyond the bound.
Reach == counter + pending <= MaxCycle
\* Idle cycles are pending only while the main loop ticks.
IdleOnlyLive == phase # "live" => pending = 0
\* The DAGs hold finitely many axes, so that they can be counted.
FiniteAxes == IsFiniteSet(dag.axes) /\ IsFiniteSet(disk.axes)
\* The inductive type invariant.
TypeInv == TypeOK /\ Reach /\ IdleOnlyLive /\ FiniteAxes

\* flush_pending_self_driven yields a well-typed DAG and counter, and changes no
\* event family but cycle_advanced.
LEMMA FlushFrame ==
  ASSUME TypeInv
  PROVE  /\ FlushedDag \in Dag
         /\ FlushedCounter \in Cycle
         /\ FlushedSpan \in Nat
         /\ FlushedDag.raw = dag.raw
         /\ FlushedDag.absorbed = dag.absorbed
         /\ FlushedDag.axes = dag.axes
         /\ FlushedDag.started = dag.started
         /\ FlushedDag.ended = dag.ended
         /\ FlushedDag.scans = dag.scans
         /\ FlushedDag.asks = dag.asks
         /\ FlushedDag.retired = dag.retired
<1>1. FlushedSpan \in Nat /\ FlushedCounter \in Cycle
  BY CycleRange, Zero DEF TypeInv, TypeOK, Reach, FlushedSpan, FlushedCounter
<1>2. [prior |-> counter, new |-> FlushedCounter] \in CycleAdvanced
  BY <1>1 DEF TypeInv, TypeOK, CycleAdvanced
<1> QED
  BY <1>1, <1>2 DEF TypeInv, TypeOK, FlushedDag, Dag

\* The flush leaves a well-typed DAG in the file, saved or not.
LEMMA FlushedDiskType ==
  ASSUME TypeInv, NEW saved
  PROVE  FlushedDisk(saved) \in Dag /\ IsFiniteSet(FlushedDisk(saved).axes)
BY FlushFrame DEF TypeInv, TypeOK, FiniteAxes, FlushedDisk

\* A committed cycle leaves a well-typed DAG, and registers no axis.
LEMMA CycledType ==
  ASSUME TypeInv, NEW decided \in Decisions(dag), FlushedCounter < MaxCycle
  PROVE  /\ CycledDag(FlushedDag, FlushedCounter, decided) \in Dag
         /\ CycledDag(FlushedDag, FlushedCounter, decided).axes = dag.axes
<1> DEFINE d == FlushedDag
           post == FlushedCounter + 1
           batch == PendingAbsorption(d, lastAbsorbed)
<1>1. d \in Dag /\ FlushedCounter \in Cycle /\ post \in Cycle
  BY FlushFrame, CycleRange
<1>2. batch \subseteq RawMaterial
  BY <1>1 DEF PendingAbsorption, Dag
<1>3. [at |-> post, of |-> batch] \in AbsorptionEvent
  BY <1>1, <1>2 DEF AbsorptionEvent
<1>4. [prior |-> FlushedCounter, new |-> post] \in CycleAdvanced
  BY <1>1 DEF CycleAdvanced
<1>5. decided \subseteq Migrations
  BY DEF Decisions, TypeInv, TypeOK, Dag
<1> QED
  BY <1>1, <1>3, <1>4, <1>5, FlushFrame DEF CycledDag, Dag

\* The new absorption mark is a cycle number, or None if nothing was ever absorbed.
LEMMA MarkType ==
  ASSUME TypeInv
  PROVE  AbsorbedMark(FlushedDag, lastAbsorbed) \in Cycle \cup {Never}
<1> DEFINE batch == PendingAbsorption(FlushedDag, lastAbsorbed)
           S == {r.at : r \in batch}
<1>1. CASE batch = {}
  BY <1>1 DEF AbsorbedMark, TypeInv, TypeOK
<1>2. CASE batch # {}
  <2>1. batch \subseteq RawMaterial
    BY FlushFrame DEF PendingAbsorption, Dag
  <2>2. S \subseteq Cycle /\ S # {}
    BY <1>2, <2>1 DEF RawMaterial
  <2>3. Max(S) \in S
    <3> HIDE DEF S
    <3> QED
      BY <2>2, MaxMark
  <2> QED
    BY <1>2, <2>2, <2>3 DEF AbsorbedMark
<1> QED
  BY <1>1, <1>2

\* DerivedState::from_dag picks the last new_cycle of the DAG, or 0.
LEMMA CounterOfType ==
  ASSUME NEW d \in Dag
  PROVE  /\ CounterOf(d) \in {0} \cup {e.new : e \in d.cycles}
         /\ CounterOf(d) \in Cycle
         /\ \A e \in d.cycles : e.new <= CounterOf(d)
<1> DEFINE S == {0} \cup {e.new : e \in d.cycles}
<1>1. S \subseteq Cycle /\ S # {}
  BY Zero DEF Dag, CycleAdvanced
<1>2. Max(S) \in S /\ \A y \in S : y <= Max(S)
  <2> HIDE DEF S
  <2> QED
    BY <1>1, MaxMark
<1> QED
  BY <1>1, <1>2 DEF CounterOf

\* ... and the newest material an absorption of the DAG names, or None.
LEMMA LastAbsorbedOfType ==
  ASSUME NEW d \in Dag
  PROVE  /\ LastAbsorbedOf(d)
              \in {Never} \cup {r.at : r \in UNION {e.of : e \in d.absorbed}}
         /\ LastAbsorbedOf(d) \in Cycle \cup {Never}
         /\ \A e \in d.absorbed : \A r \in e.of : r.at <= LastAbsorbedOf(d)
<1> DEFINE S == {Never} \cup {r.at : r \in UNION {e.of : e \in d.absorbed}}
<1>1. S \subseteq Cycle \cup {Never} /\ S # {}
  <2>1. \A e \in d.absorbed : \A r \in e.of : r.at \in Cycle
    BY DEF Dag, AbsorptionEvent, RawMaterial
  <2> QED
    BY <2>1
<1>2. Max(S) \in S /\ \A y \in S : y <= Max(S)
  <2> HIDE DEF S
  <2> QED
    BY <1>1, MaxMark
<1> QED
  BY <1>1, <1>2 DEF LastAbsorbedOf

\* A fault that is counted leaves the count in its range.
LEMMA FaultsType ==
  ASSUME TypeInv, NEW n \in Nat, Faults(n)
  PROVE  faults' \in 0 .. MaxFaults
BY DEF TypeInv, TypeOK, Faults

\* The number of saves that failed is a natural.
LEMMA FailuresType ==
  ASSUME NEW a \in BOOLEAN, NEW b \in BOOLEAN
  PROVE  Failures(<<a, b>>) \in Nat
<1> DEFINE lost == {o \in DOMAIN <<a, b>> : ~<<a, b>>[o]}
<1>1. lost \subseteq 1 .. 2
  OBVIOUS
<1>2. IsFiniteSet(1 .. 2)
  BY FS_Interval, 1 \in Int, 2 \in Int
<1>3. Cardinality(lost) \in Nat
  <2> HIDE DEF lost
  <2> QED
    BY <1>1, <1>2, FS_Subset, FS_CardinalityType
<1> QED
  BY <1>3 DEF Failures

\* The end of the process leaves TypeInv true.
LEMMA EndsType ==
  ASSUME TypeInv, ProcessEnds, disk' \in Dag, IsFiniteSet(disk'.axes),
         faults' \in 0 .. MaxFaults
  PROVE  TypeInv'
<1>1. EmptyDag \in Dag /\ IsFiniteSet(EmptyDag.axes)
  BY FS_EmptySet DEF EmptyDag, Dag
<1>2. Reach' /\ IdleOnlyLive'
  BY Zero DEF ProcessEnds, Reach, IdleOnlyLive
<1>3. FiniteAxes'
  BY <1>1 DEF ProcessEnds, FiniteAxes
<1>4. TypeOK'
  BY <1>1, Zero DEF ProcessEnds, TypeOK
<1> QED
  BY <1>2, <1>3, <1>4 DEF TypeInv

\* So does the handling of a frame, given a well-typed DAG.
LEMMA HandledType ==
  ASSUME TypeInv, NEW d \in Dag, IsFiniteSet(d.axes), NEW saved \in BOOLEAN,
         Handled(d, saved),
         axisRegisterCount' \in Nat, pyAxes' \subseteq Axes, federated' \in BOOLEAN
  PROVE  TypeInv'
<1>1. faults' \in 0 .. MaxFaults
  BY FaultsType DEF Handled
<1>2. FlushedCounter \in Cycle
  BY FlushFrame
<1>3. FlushedDisk(TRUE) \in Dag /\ IsFiniteSet(FlushedDisk(TRUE).axes)
  BY FlushedDiskType
<1>4. Reach' /\ IdleOnlyLive'
  BY <1>2, CycleRange DEF Handled, Reach, IdleOnlyLive
<1>5. FiniteAxes'
  BY <1>3 DEF Handled, FiniteAxes
<1>6. TypeOK'
  BY <1>1, <1>2, <1>3, Zero DEF Handled, TypeInv, TypeOK
<1> QED
  BY <1>4, <1>5, <1>6 DEF TypeInv

\* So does a committed cycle, from a tick or from ADVANCE.
LEMMA CommitType ==
  ASSUME TypeInv, FlushedCounter < MaxCycle,
         NEW flushSaved \in BOOLEAN, NEW saved \in BOOLEAN,
         NEW decided \in Decisions(dag),
         CommitCycle(flushSaved, saved, decided), faults' \in 0 .. MaxFaults
  PROVE  TypeInv'
<1>1. dag' \in Dag /\ IsFiniteSet(dag'.axes)
  BY CycledType DEF CommitCycle, TypeInv, FiniteAxes
<1>2. FlushedCounter \in Cycle /\ FlushedCounter + 1 \in Cycle
  BY FlushFrame, CycleRange
<1>2a. counter' \in Cycle
  BY <1>2 DEF CommitCycle
<1>3. disk' \in Dag /\ IsFiniteSet(disk'.axes)
  BY <1>1, FlushedDiskType DEF CommitCycle
<1>4. lastAbsorbed' \in Cycle \cup {Never}
  BY MarkType DEF CommitCycle
<1>5. lastAskAt' \in Cycle \cup {Never}
  BY <1>2 DEF CommitCycle, TypeInv, TypeOK
<1>6. UNCHANGED <<phase, axisRegisterCount, pyAxes, federated>> /\ pending' = 0
  BY DEF CommitCycle
<1>7. Reach' /\ IdleOnlyLive'
  BY <1>2a, <1>6, CycleRange DEF Reach, IdleOnlyLive
<1>8. FiniteAxes'
  BY <1>1, <1>3 DEF FiniteAxes
<1>9. TypeOK'
  BY <1>1, <1>2a, <1>3, <1>4, <1>5, <1>6, Zero DEF TypeInv, TypeOK
<1> QED
  BY <1>7, <1>8, <1>9 DEF TypeInv

\* So does a failed one.
LEMMA FailType ==
  ASSUME TypeInv, NEW flushSaved \in BOOLEAN, NEW saved \in BOOLEAN,
         FailCycle(flushSaved, saved), faults' \in 0 .. MaxFaults
  PROVE  TypeInv'
<1>1. /\ FlushedDag \in Dag /\ IsFiniteSet(FlushedDag.axes)
      /\ FlushedCounter \in Cycle
  BY FlushFrame DEF TypeInv, FiniteAxes
<1>2. FlushedDisk(flushSaved) \in Dag /\ IsFiniteSet(FlushedDisk(flushSaved).axes)
  BY FlushedDiskType
<1>3. Reach' /\ IdleOnlyLive'
  BY <1>1, CycleRange DEF FailCycle, Reach, IdleOnlyLive
<1>4. FiniteAxes'
  BY <1>1, <1>2 DEF FailCycle, FiniteAxes
<1>5. TypeOK'
  BY <1>1, <1>2, Zero DEF FailCycle, TypeInv, TypeOK
<1> QED
  BY <1>3, <1>4, <1>5 DEF TypeInv

\* The tick's flush drops nothing: an archived substrate does not tick.
LEMMA TickableSpan ==
  ASSUME TypeInv, Tickable
  PROVE  FlushedSpan = pending /\ FlushedCounter < MaxCycle
BY DEF Tickable, FlushedSpan, FlushedCounter

-----------------------------------------------------------------------------
(* The theorem. *)

\* TypeInv is inductive: every action of the main loop preserves it.
LEMMA TypeInvStep == TypeInv /\ [Next]_vars => TypeInv'
<1> SUFFICES ASSUME TypeInv, [Next]_vars
             PROVE  TypeInv'
  OBVIOUS
<1>a. FlushedDag \in Dag /\ FlushedCounter \in Cycle /\ IsFiniteSet(FlushedDag.axes)
  BY FlushFrame DEF TypeInv, FiniteAxes
<1>1. CASE Boot
  <2>1. Cardinality(disk.axes) \in Nat
    BY FS_CardinalityType DEF TypeInv, FiniteAxes
  <2>2. CounterOf(disk) \in Cycle /\ LastAbsorbedOf(disk) \in Cycle \cup {Never}
    BY CounterOfType, LastAbsorbedOfType DEF TypeInv, TypeOK
  <2>3. Reach' /\ IdleOnlyLive'
    BY <1>1, <2>2, CycleRange DEF Boot, LoadedDag, TypeInv, Reach, IdleOnlyLive
  <2>4. FiniteAxes'
    BY <1>1 DEF Boot, LoadedDag, TypeInv, FiniteAxes
  <2>5. TypeOK'
    BY <1>1, <2>1, <2>2 DEF Boot, LoadedDag, AxisRegisterCountOf, TypeInv, TypeOK
  <2> QED
    BY <2>3, <2>4, <2>5 DEF TypeInv
<1>2. CASE Hello
  BY <1>2 DEF Hello, TypeInv, TypeOK, Reach, IdleOnlyLive, FiniteAxes, Dag
<1>3. CASE Crash
  BY <1>3, EndsType, FaultsType DEF Crash, TypeInv, TypeOK, FiniteAxes
<1>4. ASSUME NEW saved \in BOOLEAN, Exit(saved)
      PROVE  TypeInv'
  <2>1. faults' \in 0 .. MaxFaults
    BY <1>4, FaultsType DEF Exit
  <2> QED
    BY <1>4, <2>1, EndsType, FlushedDiskType DEF Exit
<1>5. CASE TickBatch
  <2>1. Reach' /\ IdleOnlyLive'
    BY <1>5, CycleRange DEF TickBatch, Tickable, TypeInv, TypeOK, Reach, IdleOnlyLive
  <2>2. FiniteAxes'
    BY <1>5 DEF TickBatch, TypeInv, FiniteAxes
  <2>3. pending' \in 0 .. BatchMax - 1
    BY <1>5, CadenceAssumption DEF TickBatch, Batches, TypeInv, TypeOK
  <2>4. TypeOK'
    BY <1>5, <2>3 DEF TickBatch, TypeInv, TypeOK
  <2> QED
    BY <2>1, <2>2, <2>4 DEF TypeInv
<1>6. ASSUME NEW flushSaved \in BOOLEAN, NEW saved \in BOOLEAN,
             NEW decided \in Decisions(dag), TickReal(flushSaved, saved, decided)
      PROVE  TypeInv'
  <2>1. faults' \in 0 .. MaxFaults
    BY <1>6, FaultsType, FailuresType DEF TickReal
  <2> QED
    BY <1>6, <2>1, CommitType, TickableSpan DEF TickReal
<1>7. ASSUME NEW flushSaved \in BOOLEAN, NEW saved \in BOOLEAN,
             TickFails(flushSaved, saved)
      PROVE  TypeInv'
  <2>1. faults' \in 0 .. MaxFaults
    BY <1>7, FaultsType, FailuresType DEF TickFails
  <2> QED
    BY <1>7, <2>1, FailType DEF TickFails
<1>8. CASE FlushFails
  BY <1>8, EndsType, FaultsType DEF FlushFails, TypeInv, TypeOK, FiniteAxes
<1>9. CASE Query
  <2>1. Reach' /\ IdleOnlyLive'
    BY <1>9, <1>a, CycleRange DEF Query, Reach, IdleOnlyLive
  <2>2. FlushedDisk(TRUE) \in Dag /\ IsFiniteSet(FlushedDisk(TRUE).axes)
    BY FlushedDiskType
  <2>3. FiniteAxes'
    BY <1>9, <1>a, <2>2 DEF Query, FiniteAxes
  <2>4. TypeOK'
    BY <1>9, <1>a, <2>2, Zero DEF Query, TypeInv, TypeOK
  <2> QED
    BY <2>1, <2>3, <2>4 DEF TypeInv
<1>10. ASSUME NEW saved \in BOOLEAN, NEW m \in Raws, Ingest(m, saved)
       PROVE  TypeInv'
  <2> DEFINE d == [FlushedDag EXCEPT
                     !.raw = @ \cup {[id |-> m, at |-> FlushedCounter]}]
  <2>1. d \in Dag /\ IsFiniteSet(d.axes)
    BY <1>a DEF Dag, RawMaterial
  <2> QED
    BY <1>10, <2>1, HandledType DEF Ingest, TypeInv, TypeOK
<1>11. ASSUME NEW saved \in BOOLEAN, NEW a \in Axes, RegisterAxis(a, saved)
       PROVE  TypeInv'
  <2> DEFINE d == [FlushedDag EXCEPT !.axes = @ \cup {a}]
  <2>1. d \in Dag /\ IsFiniteSet(d.axes)
    BY <1>a, FS_AddElement DEF Dag
  <2>2. /\ Handled(d, saved)
        /\ axisRegisterCount' \in Nat /\ pyAxes' \subseteq Axes /\ federated' \in BOOLEAN
    BY <1>11 DEF RegisterAxis, TypeInv, TypeOK
  <2> HIDE DEF d
  <2> QED
    BY <2>1, <2>2, HandledType
<1>12. ASSUME NEW saved \in BOOLEAN, NEW a \in Axes, EvolveAxis(a, saved)
       PROVE  TypeInv'
  BY <1>12, <1>a, HandledType DEF EvolveAxis, TypeInv, TypeOK
<1>13. ASSUME NEW saved \in BOOLEAN, NEW g \in Migrations, StartMigration(g, saved)
       PROVE  TypeInv'
  <2> DEFINE d == [FlushedDag EXCEPT !.started = @ \cup {g}]
  <2>1. d \in Dag /\ IsFiniteSet(d.axes)
    BY <1>a DEF Dag
  <2> QED
    BY <1>13, <2>1, HandledType DEF StartMigration, TypeInv, TypeOK
<1>14. ASSUME NEW saved \in BOOLEAN, AbortMigration(saved)
       PROVE  TypeInv'
  <2> DEFINE d == [FlushedDag EXCEPT !.ended = FlushedDag.started]
  <2>1. d \in Dag /\ IsFiniteSet(d.axes)
    BY <1>a DEF Dag
  <2> QED
    BY <1>14, <2>1, HandledType DEF AbortMigration, TypeInv, TypeOK
<1>15. ASSUME NEW saved \in BOOLEAN, NEW on \in BOOLEAN, Federate(on, saved)
       PROVE  TypeInv'
  BY <1>15, <1>a, HandledType DEF Federate, TypeInv, TypeOK
<1>16. ASSUME NEW saved \in BOOLEAN, NEW decided \in Decisions(dag),
              Advance(saved, decided)
       PROVE  TypeInv'
  <2>1. faults' \in 0 .. MaxFaults
    BY <1>16, FaultsType DEF Advance
  <2> QED
    BY <1>16, <2>1, CommitType DEF Advance
<1>17. ASSUME NEW saved \in BOOLEAN, AdvanceFails(saved)
       PROVE  TypeInv'
  <2>1. faults' \in 0 .. MaxFaults
    BY <1>17, FaultsType DEF AdvanceFails
  <2> QED
    BY <1>17, <2>1, FailType DEF AdvanceFails
<1>18. CASE RetireBet
  BY <1>18, <1>a, EndsType DEF RetireBet, TypeInv, TypeOK, Dag
<1>19. CASE RetireBetUnsaved
  <2> DEFINE d == [FlushedDag EXCEPT !.retired = TRUE]
  <2>1. d \in Dag /\ IsFiniteSet(d.axes)
    BY <1>a DEF Dag
  <2> QED
    BY <1>19, <2>1, HandledType DEF RetireBetUnsaved, TypeInv, TypeOK
<1>20. ASSUME NEW saved \in BOOLEAN, Shutdown(saved)
       PROVE  TypeInv'
  <2>1. faults' \in 0 .. MaxFaults
    BY <1>20, FaultsType DEF Shutdown
  <2> QED
    BY <1>20, <1>a, <2>1, EndsType, FlushedDiskType DEF Shutdown
<1>21. ASSUME NEW saved \in BOOLEAN, Emit(saved)
       PROVE  TypeInv'
  BY <1>21, <1>a, HandledType DEF Emit, TypeInv, TypeOK
<1>22. CASE UNCHANGED vars
  BY <1>22 DEF vars, TypeInv, TypeOK, Reach, IdleOnlyLive, FiniteAxes
<1> QED
  BY <1>1, <1>2, <1>3, <1>4, <1>5, <1>6, <1>7, <1>8, <1>9, <1>10, <1>11, <1>12,
     <1>13, <1>14, <1>15, <1>16, <1>17, <1>18, <1>19, <1>20,
     <1>21, <1>22
  DEF Next, Tick, Request, Mutate

\* TypeInv holds of a fresh substrate.
LEMMA TypeInvInit == Init => TypeInv
<1> SUFFICES ASSUME Init PROVE TypeInv
  OBVIOUS
<1>1. EmptyDag \in Dag /\ IsFiniteSet(EmptyDag.axes)
  BY FS_EmptySet DEF EmptyDag, Dag
<1>2. Reach /\ IdleOnlyLive
  BY Zero DEF Init, Reach, IdleOnlyLive
<1>3. FiniteAxes
  BY <1>1 DEF Init, FiniteAxes
<1>4. TypeOK
  BY <1>1, Zero DEF Init, TypeOK
<1> QED
  BY <1>2, <1>3, <1>4 DEF TypeInv

\* Type correctness: every variable keeps its Rust type, the pending span stays
\* shorter than a batch, whatever the constants.
THEOREM Typing == Spec => []TypeOK
<1>1. TypeInv => TypeOK
  BY DEF TypeInv
<1> QED
  BY <1>1, TypeInvInit, TypeInvStep, PTL DEF Spec

-----------------------------------------------------------------------------
(* The shapes of a step. *)

\* The process ends, with the old file, the flushed DAG or the sealed one.
Ending ==
    /\ Up
    /\ ProcessEnds
    /\ \/ disk' = disk
       \/ disk' = FlushedDag
       \/ disk' = [FlushedDag EXCEPT !.retired = TRUE]

\* No axis event, or the one of REGISTER_AXIS.
AxisStep ==
    \/ dag'.axes = dag.axes /\ axisRegisterCount' = axisRegisterCount
       /\ pyAxes \subseteq pyAxes'
    \/ \E a \in Axes \ pyAxes :
          /\ dag'.axes = dag.axes \cup {a}
          /\ axisRegisterCount' = axisRegisterCount + 1
          /\ pyAxes' = pyAxes \cup {a}

\* A frame, or a failed cycle: the flush, then no cycle, absorption or scan.
Turn ==
    /\ phase = "live" /\ phase' = "live" /\ pending' = 0
    /\ counter' = FlushedCounter /\ lastAbsorbed' = lastAbsorbed
    /\ dag'.cycles = FlushedDag.cycles
    /\ dag'.absorbed = dag.absorbed /\ dag'.scans = dag.scans
    /\ AxisStep
    /\ disk' \in {disk, FlushedDag, dag'}

\* A committed cycle, from a tick or from ADVANCE.
Committed ==
    /\ phase = "live" /\ FlushedCounter < MaxCycle
    /\ \E flushSaved, saved \in BOOLEAN : \E decided \in Decisions(dag) :
          CommitCycle(flushSaved, saved, decided)

\* The file after a flush is the old one or the flushed DAG.
LEMMA DiskShape ==
  ASSUME NEW saved
  PROVE  FlushedDisk(saved) \in {disk, FlushedDag}
BY DEF FlushedDisk

\* A handled frame that adds no cycle, absorption or scan is a Turn.
LEMMA HandledTurn ==
  ASSUME TypeInv, NEW d \in Dag, NEW saved \in BOOLEAN, Handled(d, saved),
         d.cycles = FlushedDag.cycles, d.absorbed = dag.absorbed,
         d.scans = dag.scans, AxisStep
  PROVE  Turn
<1>1. FlushedDisk(TRUE) \in {disk, FlushedDag}
  BY DiskShape
<1> QED
  BY <1>1 DEF Handled, Turn

\* Every step of the substrate has one of six shapes, so a property of cycles,
\* absorptions, scans and axes need not be checked action by action.
LEMMA Shapes ==
  TypeInv /\ Next => Boot \/ Hello \/ Ending \/ TickBatch \/ Turn \/ Committed
<1> SUFFICES ASSUME TypeInv, Next
             PROVE  Boot \/ Hello \/ Ending \/ TickBatch \/ Turn \/ Committed
  OBVIOUS
<1>a. /\ FlushedDag \in Dag
      /\ FlushedDag.absorbed = dag.absorbed /\ FlushedDag.axes = dag.axes
      /\ FlushedDag.scans = dag.scans
  BY FlushFrame
<1>b. \A saved \in BOOLEAN : FlushedDisk(saved) \in {disk, FlushedDag}
  BY DiskShape
<1>1. CASE Crash
  BY <1>1 DEF Crash, Ending, Up
<1>2. ASSUME NEW saved \in BOOLEAN, Exit(saved)
      PROVE  Ending
  BY <1>2, <1>b DEF Exit, Ending, Up
<1>3. ASSUME NEW flushSaved \in BOOLEAN, NEW saved \in BOOLEAN,
             NEW decided \in Decisions(dag), TickReal(flushSaved, saved, decided)
      PROVE  Committed
  <2>1. phase = "live" /\ FlushedCounter < MaxCycle
    BY <1>3, TickableSpan DEF TickReal, Tickable
  <2>2. CommitCycle(flushSaved, saved, decided)
    BY <1>3 DEF TickReal
  <2> QED
    BY <2>1, <2>2 DEF Committed
<1>4. ASSUME NEW flushSaved \in BOOLEAN, NEW saved \in BOOLEAN,
             phase = "live", FailCycle(flushSaved, saved)
      PROVE  Turn
  BY <1>4, <1>a, <1>b DEF FailCycle, Turn, AxisStep
<1>5. ASSUME NEW flushSaved \in BOOLEAN, NEW saved \in BOOLEAN,
             TickFails(flushSaved, saved)
      PROVE  Turn
  BY <1>5, <1>4 DEF TickFails, Tickable
<1>6. CASE FlushFails
  BY <1>6 DEF FlushFails, Ending, Up
<1>7. CASE Query
  BY <1>7, <1>a, <1>b DEF Query, Turn, AxisStep
<1>8. ASSUME NEW saved \in BOOLEAN, NEW m \in Raws, Ingest(m, saved)
      PROVE  Turn
  <2> DEFINE d == [FlushedDag EXCEPT
                     !.raw = @ \cup {[id |-> m, at |-> FlushedCounter]}]
  <2>1. /\ d \in Dag /\ d.cycles = FlushedDag.cycles
        /\ d.absorbed = dag.absorbed /\ d.scans = dag.scans /\ d.axes = dag.axes
    BY <1>a, FlushFrame DEF Dag, RawMaterial
  <2>2. Handled(d, saved) /\ dag' = d
    BY <1>8 DEF Ingest, Handled
  <2>3. AxisStep
    BY <1>8, <2>1, <2>2 DEF Ingest, AxisStep
  <2> HIDE DEF d
  <2> QED
    BY <2>1, <2>2, <2>3, HandledTurn
<1>9. ASSUME NEW saved \in BOOLEAN, NEW a \in Axes, RegisterAxis(a, saved)
      PROVE  Turn
  <2> DEFINE d == [FlushedDag EXCEPT !.axes = @ \cup {a}]
  <2>1. /\ d \in Dag /\ d.cycles = FlushedDag.cycles
        /\ d.absorbed = dag.absorbed /\ d.scans = dag.scans
        /\ d.axes = dag.axes \cup {a}
    BY <1>a DEF Dag
  <2>2. Handled(d, saved) /\ dag' = d
    BY <1>9 DEF RegisterAxis, Handled
  <2>3. AxisStep
    <3> HIDE DEF d
    <3> QED
      BY <1>9, <2>1, <2>2 DEF RegisterAxis, AxisStep
  <2> HIDE DEF d
  <2> QED
    BY <2>1, <2>2, <2>3, HandledTurn
<1>10. ASSUME NEW saved \in BOOLEAN, NEW a \in Axes, EvolveAxis(a, saved)
       PROVE  Turn
  <2>1. Handled(FlushedDag, saved) /\ AxisStep
    BY <1>10, <1>a DEF EvolveAxis, Handled, AxisStep
  <2> QED
    BY <2>1, <1>a, HandledTurn
<1>11. ASSUME NEW saved \in BOOLEAN, NEW g \in Migrations, StartMigration(g, saved)
       PROVE  Turn
  <2> DEFINE d == [FlushedDag EXCEPT !.started = @ \cup {g}]
  <2>1. /\ d \in Dag /\ d.cycles = FlushedDag.cycles
        /\ d.absorbed = dag.absorbed /\ d.scans = dag.scans /\ d.axes = dag.axes
    BY <1>a DEF Dag
  <2>2. Handled(d, saved) /\ dag' = d
    BY <1>11 DEF StartMigration, Handled
  <2>3. AxisStep
    BY <1>11, <2>1, <2>2 DEF StartMigration, AxisStep
  <2> HIDE DEF d
  <2> QED
    BY <2>1, <2>2, <2>3, HandledTurn
<1>12. ASSUME NEW saved \in BOOLEAN, AbortMigration(saved)
       PROVE  Turn
  <2> DEFINE d == [FlushedDag EXCEPT !.ended = FlushedDag.started]
  <2>1. /\ d \in Dag /\ d.cycles = FlushedDag.cycles
        /\ d.absorbed = dag.absorbed /\ d.scans = dag.scans /\ d.axes = dag.axes
    BY <1>a DEF Dag
  <2>2. Handled(d, saved) /\ dag' = d
    BY <1>12 DEF AbortMigration, Handled
  <2>3. AxisStep
    BY <1>12, <2>1, <2>2 DEF AbortMigration, AxisStep
  <2> HIDE DEF d
  <2> QED
    BY <2>1, <2>2, <2>3, HandledTurn
<1>13. ASSUME NEW saved \in BOOLEAN, NEW on \in BOOLEAN, Federate(on, saved)
       PROVE  Turn
  <2>1. Handled(FlushedDag, saved) /\ AxisStep
    BY <1>13, <1>a DEF Federate, Handled, AxisStep
  <2> QED
    BY <2>1, <1>a, HandledTurn
<1>14. ASSUME NEW saved \in BOOLEAN, NEW decided \in Decisions(dag),
              Advance(saved, decided)
       PROVE  Committed
  BY <1>14 DEF Advance, Committed
<1>15. ASSUME NEW saved \in BOOLEAN, AdvanceFails(saved)
       PROVE  Turn
  BY <1>15, <1>4 DEF AdvanceFails
<1>16. CASE RetireBet
  BY <1>16 DEF RetireBet, Ending, Up
<1>17. CASE RetireBetUnsaved
  <2> DEFINE d == [FlushedDag EXCEPT !.retired = TRUE]
  <2>1. /\ d \in Dag /\ d.cycles = FlushedDag.cycles
        /\ d.absorbed = dag.absorbed /\ d.scans = dag.scans /\ d.axes = dag.axes
    BY <1>a DEF Dag
  <2>2. Handled(d, FALSE) /\ dag' = d
    BY <1>17 DEF RetireBetUnsaved, Handled
  <2>3. AxisStep
    BY <1>17, <2>1, <2>2 DEF RetireBetUnsaved, AxisStep
  <2> HIDE DEF d
  <2> QED
    BY <2>1, <2>2, <2>3, HandledTurn
<1>18. ASSUME NEW saved \in BOOLEAN, Shutdown(saved)
       PROVE  Ending
  BY <1>18, <1>b DEF Shutdown, Ending, Up
<1>19. ASSUME NEW saved \in BOOLEAN, Emit(saved)
       PROVE  Turn
  <2>1. Handled(FlushedDag, saved) /\ AxisStep
    BY <1>19, <1>a DEF Emit, Handled, AxisStep
  <2> QED
    BY <2>1, <1>a, HandledTurn
<1> QED
  BY <1>1, <1>2, <1>3, <1>5, <1>6, <1>7, <1>8, <1>9, <1>10, <1>11, <1>12, <1>13,
     <1>14, <1>15, <1>16, <1>17, <1>18, <1>19
  DEF Next, Tick, Request, Mutate

-----------------------------------------------------------------------------
(* The cycle counter. *)

\* A span appended where the counter stands extends a tiling.
LEMMA TilesGrow ==
  ASSUME NEW d \in Dag, NEW d2, NEW c \in Nat, NEW n \in Nat, c < n, Tiles(d, c),
         d2.cycles = d.cycles \cup {[prior |-> c, new |-> n]}
  PROVE  Tiles(d2, n)
<1> DEFINE span == [prior |-> c, new |-> n]
<1>1. \A e \in d.cycles : e.prior \in Nat /\ e.new \in Nat
  BY CycleRange DEF Dag, CycleAdvanced
<1>2. \A e \in d2.cycles : e.prior < e.new /\ e.new <= n
  BY <1>1 DEF Tiles
<1>3. ASSUME NEW m \in 1 .. n
      PROVE  \E e \in d2.cycles : e.prior < m /\ m <= e.new
  <2>1. CASE m <= c
    <3>1. PICK e \in d.cycles : e.prior < m /\ m <= e.new
      BY <2>1 DEF Tiles
    <3> QED
      BY <3>1
  <2>2. CASE c < m
    <3>1. span \in d2.cycles /\ span.prior < m /\ m <= span.new
      BY <2>2
    <3> QED
      BY <3>1
  <2> QED
    BY <2>1, <2>2
<1>4. ASSUME NEW e1 \in d2.cycles, NEW e2 \in d2.cycles
      PROVE  e1 = e2 \/ e1.new <= e2.prior \/ e2.new <= e1.prior
  BY <1>1 DEF Tiles
<1> QED
  BY <1>2, <1>3, <1>4 DEF Tiles

\* A tiling depends on the cycle_advanced events only.
LEMMA TilesSame ==
  ASSUME NEW d, NEW d2, NEW c, Tiles(d, c), d2.cycles = d.cycles
  PROVE  Tiles(d2, c)
BY DEF Tiles

\* The empty DAG tiles to 0.
LEMMA TilesEmpty == Tiles(EmptyDag, 0)
BY DEF Tiles, EmptyDag

\* The counter a boot derives is the end of the tiling.
LEMMA TilesCounter ==
  ASSUME NEW d \in Dag, NEW c \in Cycle, Tiles(d, c)
  PROVE  CounterOf(d) = c
<1>1. \A e \in d.cycles : e.prior \in Nat /\ e.new \in Nat
  BY CycleRange DEF Dag, CycleAdvanced
<1>2. c \in Nat /\ CounterOf(d) \in Nat
  BY CycleRange, CounterOfType
<1>3. CounterOf(d) <= c
  BY <1>1, <1>2, CounterOfType DEF Tiles
<1>4. c <= CounterOf(d)
  <2>1. CASE c = 0
    BY <1>2, <2>1
  <2>2. CASE c # 0
    <3>1. PICK e \in d.cycles : e.prior < c /\ c <= e.new
      BY <1>2, <2>2 DEF Tiles
    <3> QED
      BY <1>1, <1>2, <3>1, CounterOfType
  <2> QED
    BY <2>1, <2>2
<1> QED
  BY <1>2, <1>3, <1>4

\* The one event of a flush, for the whole idle span, extends the tiling.
LEMMA FlushTiles ==
  ASSUME TypeInv, Tiles(dag, counter)
  PROVE  Tiles(FlushedDag, FlushedCounter)
<1>1. CASE FlushedSpan = 0
  BY <1>1, CycleRange DEF FlushedDag, FlushedCounter, TypeInv, TypeOK
<1>2. CASE FlushedSpan # 0
  <2>1. FlushedSpan \in Nat /\ FlushedCounter \in Nat /\ counter \in Nat /\ dag \in Dag
    BY FlushFrame, CycleRange DEF TypeInv, TypeOK
  <2>2. counter < FlushedCounter
    BY <1>2, <2>1 DEF FlushedCounter
  <2>3. FlushedDag.cycles
          = dag.cycles \cup {[prior |-> counter, new |-> FlushedCounter]}
    BY <1>2, <2>1 DEF FlushedDag, Dag
  <2> QED
    BY <2>1, <2>2, <2>3, TilesGrow
<1> QED
  BY <1>1, <1>2

\* What a committed cycle adds to the DAG, family by family.
LEMMA CycledFrame ==
  ASSUME TypeInv, NEW decided \in Decisions(dag), FlushedCounter < MaxCycle,
         NEW d, d = CycledDag(FlushedDag, FlushedCounter, decided)
  PROVE  /\ d.cycles = FlushedDag.cycles
                         \cup {[prior |-> FlushedCounter, new |-> FlushedCounter + 1]}
         /\ d.raw = dag.raw /\ d.axes = dag.axes
         /\ d.absorbed = IF PendingAbsorption(FlushedDag, lastAbsorbed) = {}
                         THEN dag.absorbed
                         ELSE dag.absorbed
                                \cup {[at |-> FlushedCounter + 1,
                                       of |-> PendingAbsorption(FlushedDag, lastAbsorbed)]}
         /\ d.scans = IF ShouldRunPruneScan(FlushedCounter + 1)
                      THEN dag.scans \cup {FlushedCounter + 1} ELSE dag.scans
         /\ d.retired = dag.retired
BY FlushFrame DEF CycledDag, Dag

\* The tiling's inductive invariant.
TileInv == TypeInv /\ SpansTileTheCounter

\* The tiling, with the types, is inductive.
LEMMA TileStep == TileInv /\ [Next]_vars => TileInv'
<1> SUFFICES ASSUME TileInv, [Next]_vars
             PROVE  SpansTileTheCounter'
  BY TypeInvStep DEF TileInv
<1>a. TypeInv /\ TypeInv' /\ SpansTileTheCounter
  BY TypeInvStep DEF TileInv
<1>b. Up => Tiles(FlushedDag, FlushedCounter) /\ FlushedCounter \in Cycle
  BY <1>a, FlushTiles, FlushFrame DEF SpansTileTheCounter
<1>c. PICK c \in Cycle : Tiles(disk, c)
  BY <1>a DEF SpansTileTheCounter
<1>1. CASE UNCHANGED vars
  BY <1>1, <1>a DEF vars, SpansTileTheCounter, Up, Tiles
<1>2. CASE Boot
  <2>1. CounterOf(disk) = c
    BY <1>a, <1>c, TilesCounter DEF TypeInv, TypeOK
  <2> QED
    BY <1>2, <1>c, <2>1 DEF Boot, LoadedDag, SpansTileTheCounter, Up
<1>3. CASE Hello
  BY <1>3, <1>a DEF Hello, SpansTileTheCounter, Up
<1>4. CASE Ending
  <2>1. phase' = "down"
    BY <1>4 DEF Ending, ProcessEnds
  <2>2. \E k \in Cycle : Tiles(disk', k)
    <3>1. CASE disk' = disk
      BY <1>c, <3>1
    <3>2. CASE disk'.cycles = FlushedDag.cycles
      BY <1>4, <1>b, <3>2, TilesSame DEF Ending
    <3> QED
      BY <1>4, <1>a, <3>1, <3>2, FlushFrame DEF Ending, Dag
  <2> QED
    BY <2>1, <2>2 DEF SpansTileTheCounter, Up
<1>5. CASE TickBatch
  <2>1. Up /\ UNCHANGED <<phase, dag, counter>> /\ disk' \in {disk, dag}
    BY <1>5 DEF TickBatch, Tickable, Up
  <2>2. Tiles(dag, counter) /\ counter \in Cycle
    BY <1>a, <2>1 DEF SpansTileTheCounter, TypeInv, TypeOK
  <2> QED
    BY <1>c, <2>1, <2>2 DEF SpansTileTheCounter
<1>6. CASE Turn
  <2>1. Tiles(dag', counter') /\ counter' \in Cycle
    BY <1>6, <1>b, TilesSame DEF Turn, Up
  <2>2. \E k \in Cycle : Tiles(disk', k)
    BY <1>6, <1>b, <1>c, <2>1 DEF Turn, Up
  <2> QED
    BY <2>1, <2>2 DEF SpansTileTheCounter
<1>7. CASE Committed
  <2>1. PICK flushSaved \in BOOLEAN, saved \in BOOLEAN, decided \in Decisions(dag) :
            CommitCycle(flushSaved, saved, decided)
    BY <1>7 DEF Committed
  <2>2. Tiles(FlushedDag, FlushedCounter) /\ FlushedCounter \in Nat /\ FlushedDag \in Dag
    BY <1>7, <1>a, <1>b, CycleRange, FlushFrame DEF Committed, Up
  <2>3. dag'.cycles = FlushedDag.cycles
          \cup {[prior |-> FlushedCounter, new |-> FlushedCounter + 1]}
    BY <1>7, <1>a, <2>1, CycledFrame DEF CommitCycle, Committed
  <2>4. Tiles(dag', counter')
    BY <2>1, <2>2, <2>3, TilesGrow DEF CommitCycle
  <2>5. disk' \in {disk, FlushedDag, dag'}
    BY <2>1, DiskShape DEF CommitCycle
  <2>6. counter' \in Cycle
    BY <1>a DEF TypeInv, TypeOK
  <2> QED
    BY <1>7, <1>b, <1>c, <2>4, <2>5, <2>6 DEF SpansTileTheCounter, Committed, Up
<1> QED
  BY <1>a, <1>1, <1>2, <1>3, <1>4, <1>5, <1>6, <1>7, Shapes

\* C59 for every BatchMax, PruneInterval and number of faults: the cycle_advanced
\* spans tile the counter, in memory and in any file a restart may find.
THEOREM Tiling == Spec => []SpansTileTheCounter
<1>1. Init => TileInv
  <2> SUFFICES ASSUME Init PROVE TileInv
    OBVIOUS
  <2>1. SpansTileTheCounter
    BY TilesEmpty, Zero DEF Init, SpansTileTheCounter, Up
  <2> QED
    BY <2>1, TypeInvInit DEF TileInv
<1>2. TileInv => SpansTileTheCounter
  BY DEF TileInv
<1> QED
  BY <1>1, <1>2, TileStep, PTL DEF Spec

-----------------------------------------------------------------------------
(* What the process keeps beside the DAG. *)

\* The in-memory mark after a cycle is the one a boot would derive from the DAG
\* the cycle leaves: the batch is newer than everything absorbed before.
LEMMA MarkIsLast ==
  ASSUME TypeInv, TypeInv', NEW decided \in Decisions(dag), FlushedCounter < MaxCycle,
         dag' = CycledDag(FlushedDag, FlushedCounter, decided),
         lastAbsorbed = LastAbsorbedOf(dag)
  PROVE  LastAbsorbedOf(dag') = AbsorbedMark(FlushedDag, lastAbsorbed)
<1> DEFINE batch == PendingAbsorption(FlushedDag, lastAbsorbed)
           marks == {r.at : r \in batch}
           event == [at |-> FlushedCounter + 1, of |-> batch]
           last  == LastAbsorbedOf(dag')
<1>1. dag \in Dag /\ dag' \in Dag /\ FlushedDag \in Dag
  BY FlushFrame DEF TypeInv, TypeOK
<1>2. CASE batch = {}
  <2>1. dag'.absorbed = dag.absorbed
    BY <1>2, CycledFrame
  <2> QED
    BY <1>2, <2>1 DEF AbsorbedMark, LastAbsorbedOf
<1>3. CASE batch # {}
  <2>1. dag'.absorbed = dag.absorbed \cup {event}
    BY <1>3, CycledFrame
  <2>2. \A r \in batch : r.at \in Cycle /\ r.at > lastAbsorbed
    BY <1>1 DEF PendingAbsorption, Dag, RawMaterial
  <2>3. marks \subseteq Cycle \cup {Never} /\ marks # {}
    BY <1>3, <2>2
  <2>4. Max(marks) \in marks /\ \A y \in marks : y <= Max(marks)
    <3> HIDE DEF marks
    <3> QED
      BY <2>3, MaxMark
  <2>5. PICK top \in batch : top.at = Max(marks)
    BY <2>4
  <2>6. \A r \in batch : r.at <= Max(marks)
    BY <2>4
  <2>7. top.at \in Int /\ last \in Int /\ lastAbsorbed \in Int
    BY <1>1, <2>2, <2>5, LastAbsorbedOfType, CycleRange DEF Never
  <2>8. top.at <= last
    <3>1. event \in dag'.absorbed /\ top \in event.of
      BY <2>1
    <3> QED
      BY <1>1, <3>1, LastAbsorbedOfType
  <2>9. last <= top.at
    <3>1. CASE last = Never
      BY <2>2, <2>5, <3>1, CycleRange DEF Never
    <3>2. CASE last # Never
      <4>1. PICK e \in dag'.absorbed : \E r \in e.of : r.at = last
        BY <1>1, <3>2, LastAbsorbedOfType
      <4>2. PICK r \in e.of : r.at = last
        BY <4>1
      <4>3. CASE e \in dag.absorbed
        <5>1. last <= lastAbsorbed
          BY <1>1, <4>2, <4>3, LastAbsorbedOfType
        <5> QED
          BY <2>2, <2>7, <5>1
      <4>4. CASE e = event
        <5>1. r \in batch
          BY <4>2, <4>4
        <5> QED
          BY <2>5, <2>6, <4>2, <5>1
      <4> QED
        BY <2>1, <4>1, <4>3, <4>4
    <3> QED
      BY <3>1, <3>2
  <2>10. last = Max(marks)
    <3> HIDE DEF last, marks
    <3> QED
      BY <2>5, <2>7, <2>8, <2>9
  <2> QED
    BY <1>3, <2>10 DEF AbsorbedMark
<1> QED
  BY <1>2, <1>3

\* Python holds at least the axes the DAG registers.
AxesReplayed == phase = "live" => dag.axes \subseteq pyAxes

\* The inductive invariant behind LiveIsReplay.
ReplayInv == TileInv /\ LiveIsReplay /\ AxesReplayed

\* A turn keeps the inert-gate witness equal to the number of axis events: an axis
\* Python accepts is not in the DAG yet, since the handshake replayed the DAG.
LEMMA AxisStepCounts ==
  ASSUME TypeInv, AxisStep, dag.axes \subseteq pyAxes,
         axisRegisterCount = Cardinality(dag.axes)
  PROVE  axisRegisterCount' = Cardinality(dag'.axes) /\ dag'.axes \subseteq pyAxes'
<1>1. CASE dag'.axes = dag.axes /\ axisRegisterCount' = axisRegisterCount
           /\ pyAxes \subseteq pyAxes'
  BY <1>1
<1>2. CASE \E a \in Axes \ pyAxes :
             /\ dag'.axes = dag.axes \cup {a}
             /\ axisRegisterCount' = axisRegisterCount + 1
             /\ pyAxes' = pyAxes \cup {a}
  <2>1. PICK a \in Axes \ pyAxes :
             /\ dag'.axes = dag.axes \cup {a}
             /\ axisRegisterCount' = axisRegisterCount + 1
             /\ pyAxes' = pyAxes \cup {a}
    BY <1>2
  <2>2. a \notin dag.axes /\ IsFiniteSet(dag.axes)
    BY <2>1 DEF TypeInv, FiniteAxes
  <2>3. Cardinality(dag.axes \cup {a}) = Cardinality(dag.axes) + 1
    BY <2>2, FS_AddElement
  <2> QED
    BY <2>1, <2>3
<1> QED
  BY <1>1, <1>2 DEF AxisStep

\* LiveIsReplay, with the tiling and the replayed axes, is inductive.
LEMMA ReplayStep == ReplayInv /\ [Next]_vars => ReplayInv'
<1> SUFFICES ASSUME ReplayInv, [Next]_vars
             PROVE  LiveIsReplay' /\ AxesReplayed'
  BY TileStep DEF ReplayInv
<1>a. TypeInv /\ TypeInv' /\ TileInv' /\ LiveIsReplay /\ AxesReplayed
  BY TileStep DEF ReplayInv, TileInv
<1>b. Up' => counter' = CounterOf(dag')
  BY <1>a, TilesCounter DEF TileInv, SpansTileTheCounter, TypeInv, TypeOK
<1>1. CASE UNCHANGED vars
  BY <1>1, <1>a DEF vars, LiveIsReplay, AxesReplayed, Up, CounterOf, LastAbsorbedOf
<1>2. CASE Boot
  BY <1>2, <1>b
  DEF Boot, LoadedDag, AxisRegisterCountOf, LiveIsReplay, AxesReplayed, Up
<1>3. CASE Hello
  BY <1>3, <1>a DEF Hello, LiveIsReplay, AxesReplayed, Up, CounterOf, LastAbsorbedOf
<1>4. CASE Ending
  BY <1>4 DEF Ending, ProcessEnds, LiveIsReplay, AxesReplayed, Up
<1>5. CASE TickBatch
  BY <1>5, <1>a DEF TickBatch, LiveIsReplay, AxesReplayed, Up, CounterOf, LastAbsorbedOf
<1>6. CASE Turn
  <2>1. axisRegisterCount' = Cardinality(dag'.axes) /\ dag'.axes \subseteq pyAxes'
    BY <1>6, <1>a, AxisStepCounts DEF Turn, LiveIsReplay, AxesReplayed, Up
  <2>2. LastAbsorbedOf(dag') = LastAbsorbedOf(dag)
    BY <1>6 DEF Turn, LastAbsorbedOf
  <2> QED
    BY <1>6, <1>a, <1>b, <2>1, <2>2 DEF Turn, LiveIsReplay, AxesReplayed, Up
<1>7. CASE Committed
  <2>1. PICK flushSaved \in BOOLEAN, saved \in BOOLEAN, decided \in Decisions(dag) :
            CommitCycle(flushSaved, saved, decided)
    BY <1>7 DEF Committed
  <2>2. dag'.axes = dag.axes
    BY <1>7, <1>a, <2>1, CycledFrame DEF CommitCycle, Committed
  <2>3. lastAbsorbed' = LastAbsorbedOf(dag')
    BY <1>7, <1>a, <2>1, MarkIsLast DEF CommitCycle, Committed, LiveIsReplay, Up
  <2> QED
    BY <1>7, <1>a, <1>b, <2>1, <2>2, <2>3
    DEF CommitCycle, Committed, LiveIsReplay, AxesReplayed, Up
<1> QED
  BY <1>a, <1>1, <1>2, <1>3, <1>4, <1>5, <1>6, <1>7, Shapes

\* ReplayInv holds of a fresh substrate.
LEMMA ReplayInvInit == Init => ReplayInv
<1> SUFFICES ASSUME Init PROVE ReplayInv
  OBVIOUS
<1>1. SpansTileTheCounter
  BY TilesEmpty, Zero DEF Init, SpansTileTheCounter, Up
<1>2. LiveIsReplay /\ AxesReplayed
  BY DEF Init, LiveIsReplay, AxesReplayed, Up
<1> QED
  BY <1>1, <1>2, TypeInvInit DEF TileInv, ReplayInv

\* C32: the counter, the absorption mark and the inert-gate witness are at every
\* moment what a restart would derive from the DAG in memory.
THEOREM Replay == Spec => []LiveIsReplay
<1>1. ReplayInv => LiveIsReplay
  BY DEF ReplayInv
<1> QED
  BY <1>1, ReplayInvInit, ReplayStep, PTL DEF Spec

-----------------------------------------------------------------------------
(* The pending span. *)

\* The inductive invariant behind PendingIsInert.
InertInv == ReplayInv /\ PendingIsInert

\* PendingIsInert is inductive once the witness is known to count the axis events.
LEMMA InertStep == InertInv /\ [Next]_vars => InertInv'
<1> SUFFICES ASSUME InertInv, [Next]_vars
             PROVE  PendingIsInert'
  BY ReplayStep DEF InertInv
<1>a. TypeInv /\ IdleOnlyLive /\ LiveIsReplay /\ PendingIsInert
  BY DEF InertInv, ReplayInv, TileInv, TypeInv
<1>1. CASE UNCHANGED vars
  BY <1>1, <1>a DEF vars, PendingIsInert
<1>2. CASE Boot \/ Hello
  BY <1>2, <1>a DEF Boot, Hello, IdleOnlyLive, PendingIsInert
<1>3. CASE Ending \/ Turn \/ Committed
  BY <1>3 DEF Ending, ProcessEnds, Turn, Committed, CommitCycle, PendingIsInert
<1>4. CASE TickBatch
  <2>1. Inert /\ UNCHANGED <<dag, federated>> /\ phase = "live"
    BY <1>4 DEF TickBatch, Tickable, Batches
  <2>2. Cardinality(dag.axes) = 0 /\ IsFiniteSet(dag.axes)
    BY <1>a, <2>1 DEF Inert, LiveIsReplay, Up, TypeInv, FiniteAxes
  <2>3. dag.axes = {}
    BY <2>2, FS_EmptySet
  <2> QED
    BY <2>1, <2>3 DEF Inert, Archived, Migrating, PendingIsInert
<1> QED
  BY <1>a, <1>1, <1>2, <1>3, <1>4, Shapes

\* H1: while idle cycles are pending no axis is registered, no migration is open,
\* no federation is up and the substrate is not archived.
THEOREM Inertness == Spec => []PendingIsInert
<1>1. Init => InertInv
  BY ReplayInvInit DEF Init, InertInv, PendingIsInert
<1>2. InertInv => PendingIsInert
  BY DEF InertInv
<1> QED
  BY <1>1, <1>2, InertStep, PTL DEF Spec

-----------------------------------------------------------------------------
(* Absorption. *)

\* The inductive invariant behind AbsorbedOnce.
OnceInv == ReplayInv /\ AbsorbedOnce

\* AbsorbedOnce for one DAG.
Once(d) == \A e1, e2 \in d.absorbed : e1 = e2 \/ e1.of \cap e2.of = {}

\* AbsorbedOnce is inductive: what a batch takes is newer than the mark, what was
\* absorbed before is not.
LEMMA OnceStep == OnceInv /\ [Next]_vars => OnceInv'
<1> SUFFICES ASSUME OnceInv, [Next]_vars
             PROVE  AbsorbedOnce'
  BY ReplayStep DEF OnceInv
<1>a. TypeInv /\ LiveIsReplay /\ Once(dag) /\ Once(disk)
  BY DEF OnceInv, ReplayInv, TileInv, AbsorbedOnce, Once
<1>b. Once(FlushedDag)
  BY <1>a, FlushFrame DEF Once
<1>c. SUFFICES Once(dag') /\ Once(disk')
  BY DEF AbsorbedOnce, Once
<1>1. CASE UNCHANGED vars
  BY <1>1, <1>a DEF vars
<1>2. CASE Boot \/ Hello \/ TickBatch
  BY <1>2, <1>a DEF Boot, LoadedDag, Hello, TickBatch
<1>3. CASE Ending
  <2>1. Once(EmptyDag)
    BY DEF Once, EmptyDag
  <2>2. Once([FlushedDag EXCEPT !.retired = TRUE])
    BY <1>a, <1>b, FlushFrame DEF Once, Dag
  <2> QED
    BY <1>3, <1>a, <1>b, <2>1, <2>2 DEF Ending, ProcessEnds
<1>4. CASE Turn
  <2>1. Once(dag')
    BY <1>4, <1>a DEF Turn, Once
  <2> QED
    BY <1>4, <1>a, <1>b, <2>1 DEF Turn
<1>5. CASE Committed
  <2>1. PICK flushSaved \in BOOLEAN, saved \in BOOLEAN, decided \in Decisions(dag) :
            CommitCycle(flushSaved, saved, decided)
    BY <1>5 DEF Committed
  <2> DEFINE batch == PendingAbsorption(FlushedDag, lastAbsorbed)
             event == [at |-> FlushedCounter + 1, of |-> batch]
  <2>2. dag'.absorbed \subseteq dag.absorbed \cup {event}
    BY <1>5, <1>a, <2>1, CycledFrame DEF CommitCycle, Committed
  <2>3. \A e \in dag.absorbed : e.of \cap batch = {}
    <3>1. \A e \in dag.absorbed : \A r \in e.of : r.at <= lastAbsorbed
      BY <1>5, <1>a, LastAbsorbedOfType DEF Committed, LiveIsReplay, Up, TypeInv, TypeOK
    <3>2. \A r \in batch : r.at > lastAbsorbed /\ r.at \in Nat
      BY <1>a, FlushFrame, CycleRange DEF PendingAbsorption, Dag, RawMaterial
    <3>3. lastAbsorbed \in Int
      BY <1>a, CycleRange DEF TypeInv, TypeOK, Never
    <3> QED
      BY <3>1, <3>2, <3>3
  <2>4. Once(dag')
    BY <1>a, <2>2, <2>3 DEF Once
  <2>5. disk' \in {disk, FlushedDag, dag'}
    BY <2>1, DiskShape DEF CommitCycle
  <2> QED
    BY <1>a, <1>b, <2>4, <2>5
<1> QED
  BY <1>a, <1>1, <1>2, <1>3, <1>4, <1>5, Shapes

\* No material is absorbed twice, across flushes, crashes, lost saves and restarts.
THEOREM AbsorptionIsOnce == Spec => []AbsorbedOnce
<1>1. Init => OnceInv
  BY ReplayInvInit DEF Init, OnceInv, AbsorbedOnce, EmptyDag
<1>2. OnceInv => AbsorbedOnce
  BY DEF OnceInv
<1> QED
  BY <1>1, <1>2, OnceStep, PTL DEF Spec

-----------------------------------------------------------------------------
(* The prune boundaries. *)

\* No cycle of the pending span is a prune boundary.
SpanHasNoBoundary ==
    \A n \in Nat : counter < n /\ n <= counter + pending => ~ShouldRunPruneScan(n)

\* The inductive invariant behind BoundaryScanned.
BoundaryInv == TileInv /\ SpanHasNoBoundary /\ BoundaryScanned

\* BoundaryScanned for one DAG.
Scanned(d) == \A n \in 1 .. CounterOf(d) : ShouldRunPruneScan(n) => n \in d.scans

\* Scanned depends on the cycles and the scans only.
LEMMA ScannedSame ==
  ASSUME NEW d, NEW d2, Scanned(d), d2.cycles = d.cycles, d2.scans = d.scans
  PROVE  Scanned(d2)
BY DEF Scanned, CounterOf

\* A flush passes no boundary, because the span it records holds none.
LEMMA FlushScanned ==
  ASSUME TileInv, Up, Scanned(dag), SpanHasNoBoundary
  PROVE  Scanned(FlushedDag)
<1>1. CounterOf(dag) = counter /\ CounterOf(FlushedDag) = FlushedCounter
  BY FlushFrame, FlushTiles, TilesCounter
  DEF TileInv, SpansTileTheCounter, TypeInv, TypeOK
<1>2. counter \in Nat /\ pending \in Nat
  BY CycleRange DEF TileInv, TypeInv, TypeOK
<1>3. FlushedCounter \in Nat /\ FlushedCounter <= counter + pending
  BY <1>2 DEF FlushedCounter, FlushedSpan
<1>4. ASSUME NEW n \in 1 .. FlushedCounter, ShouldRunPruneScan(n)
      PROVE  n \in dag.scans
  <2>1. n <= counter
    BY <1>2, <1>3, <1>4 DEF SpanHasNoBoundary
  <2> QED
    BY <1>1, <1>2, <1>4, <2>1 DEF Scanned
<1> QED
  BY <1>1, <1>4, FlushFrame DEF Scanned, TileInv

\* BoundaryScanned is inductive with the absence of boundaries in the pending span.
LEMMA BoundaryStep == BoundaryInv /\ [Next]_vars => BoundaryInv'
<1> SUFFICES ASSUME BoundaryInv, [Next]_vars
             PROVE  SpanHasNoBoundary' /\ BoundaryScanned'
  BY TileStep DEF BoundaryInv
<1>a. /\ TileInv /\ TileInv' /\ TypeInv /\ TypeInv' /\ SpanHasNoBoundary
      /\ Scanned(dag) /\ Scanned(disk)
  BY TileStep DEF BoundaryInv, TileInv, BoundaryScanned, Scanned
<1>b. Up => Scanned(FlushedDag)
  BY <1>a, FlushScanned
<1>c. counter' \in Nat /\ pending' \in Nat
  BY <1>a, CycleRange DEF TypeInv, TypeOK
<1>d. ASSUME pending' = 0
      PROVE  SpanHasNoBoundary'
  <2>1. \A n \in Nat : ~(counter' < n /\ n <= counter' + pending')
    <3>1. \A c, p \in Nat : p = 0 => \A n \in Nat : ~(c < n /\ n <= c + p)
      OBVIOUS
    <3> QED
      BY <1>c, <1>d, <3>1
  <2> QED
    BY <2>1 DEF SpanHasNoBoundary
<1>e. SUFFICES SpanHasNoBoundary' /\ Scanned(dag') /\ Scanned(disk')
  BY DEF BoundaryScanned, Scanned
<1>1. CASE UNCHANGED vars
  BY <1>1, <1>a DEF vars, SpanHasNoBoundary
<1>2. CASE Boot \/ Hello
  BY <1>2, <1>a, <1>d DEF Boot, LoadedDag, Hello, TypeInv, IdleOnlyLive
<1>3. CASE Ending
  <2>1. Scanned(EmptyDag)
    <3>1. EmptyDag \in Dag
      BY DEF EmptyDag, Dag
    <3>2. CounterOf(EmptyDag) = 0
      BY <3>1, TilesEmpty, TilesCounter, Zero
    <3> QED
      BY <3>2 DEF Scanned
  <2>2. Scanned([FlushedDag EXCEPT !.retired = TRUE])
    BY <1>3, <1>a, <1>b, FlushFrame, ScannedSame DEF Ending, Dag
  <2> QED
    BY <1>3, <1>a, <1>b, <1>d, <2>1, <2>2 DEF Ending, ProcessEnds
<1>4. CASE TickBatch
  <2>1. /\ ~ShouldRunPruneScan(counter + pending + 1) /\ UNCHANGED <<dag, counter>>
        /\ disk' \in {disk, dag} /\ pending' = pending + 1
    BY <1>4 DEF TickBatch, Batches
  <2>2. counter \in Nat /\ pending \in Nat
    BY <1>a, CycleRange DEF TypeInv, TypeOK
  <2>3. ASSUME NEW n \in Nat, counter' < n, n <= counter' + pending'
        PROVE  ~ShouldRunPruneScan(n)
    <3>1. n <= counter + pending \/ n = counter + pending + 1
      BY <2>1, <2>2, <2>3
    <3> QED
      BY <1>a, <2>1, <2>3, <3>1 DEF SpanHasNoBoundary
  <2> QED
    BY <1>a, <2>1, <2>3 DEF SpanHasNoBoundary
<1>5. CASE Turn
  <2>1. dag'.scans = FlushedDag.scans
    BY <1>5, <1>a, FlushFrame DEF Turn
  <2>2. Scanned(dag')
    BY <1>5, <1>b, <2>1, ScannedSame DEF Turn, Up
  <2> QED
    BY <1>5, <1>a, <1>b, <1>d, <2>2 DEF Turn, Up
<1>6. CASE Committed
  <2>1. PICK flushSaved \in BOOLEAN, saved \in BOOLEAN, decided \in Decisions(dag) :
            CommitCycle(flushSaved, saved, decided)
    BY <1>6 DEF Committed
  <2>2. Scanned(FlushedDag) /\ FlushedCounter \in Nat
    BY <1>6, <1>a, <1>b, FlushFrame, CycleRange DEF Committed, Up
  <2>3. CounterOf(FlushedDag) = FlushedCounter
    BY <1>6, <1>a, FlushFrame, FlushTiles, TilesCounter
    DEF Committed, Up, TileInv, SpansTileTheCounter
  <2>4. CounterOf(dag') = FlushedCounter + 1
    <3>1. phase' # "down" /\ counter' = FlushedCounter + 1
      BY <1>6, <2>1 DEF Committed, CommitCycle
    <3> QED
      BY <1>a, <3>1, TilesCounter DEF TileInv, SpansTileTheCounter, TypeInv, TypeOK, Up
  <2>5. dag'.scans = IF ShouldRunPruneScan(FlushedCounter + 1)
                     THEN FlushedDag.scans \cup {FlushedCounter + 1}
                     ELSE FlushedDag.scans
    BY <1>6, <1>a, <2>1, CycledFrame, FlushFrame DEF CommitCycle, Committed
  <2>6. Scanned(dag')
    <3> SUFFICES ASSUME NEW n \in 1 .. FlushedCounter + 1, ShouldRunPruneScan(n)
                 PROVE  n \in dag'.scans
      BY <2>4 DEF Scanned
    <3>1. CASE n = FlushedCounter + 1
      BY <2>5, <3>1
    <3>2. CASE n # FlushedCounter + 1
      <4>1. n \in 1 .. FlushedCounter
        BY <2>2, <3>2
      <4> QED
        BY <2>2, <2>3, <2>5, <4>1 DEF Scanned
    <3> QED
      BY <3>1, <3>2
  <2>7. disk' \in {disk, FlushedDag, dag'} /\ pending' = 0
    BY <2>1, DiskShape DEF CommitCycle
  <2> QED
    BY <1>a, <1>d, <2>2, <2>6, <2>7
<1> QED
  BY <1>a, <1>1, <1>2, <1>3, <1>4, <1>5, <1>6, Shapes

\* H1: no prune boundary is passed without a real cycle that ran the scan,
\* whatever BatchMax and PruneInterval are.
THEOREM NoBoundaryPassed == Spec => []BoundaryScanned
<1>1. Init => BoundaryInv
  <2> SUFFICES ASSUME Init PROVE SpanHasNoBoundary /\ BoundaryScanned
    BY ReplayInvInit DEF BoundaryInv, ReplayInv
  <2>1. CounterOf(EmptyDag) = 0
    <3>1. EmptyDag \in Dag
      BY DEF EmptyDag, Dag
    <3> QED
      BY <3>1, TilesEmpty, TilesCounter, Zero
  <2> QED
    BY <2>1 DEF Init, SpanHasNoBoundary, BoundaryScanned
<1>2. BoundaryInv => BoundaryScanned
  BY DEF BoundaryInv
<1> QED
  BY <1>1, <1>2, BoundaryStep, PTL DEF Spec
=============================================================================
