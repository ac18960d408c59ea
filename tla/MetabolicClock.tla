--------------------------- MODULE MetabolicClock ---------------------------
(***************************************************************************)
(* The metabolic clock of a Myco substrate: the cycle counter, the         *)
(* self-driven scheduler that batches idle cycles in memory, the causal    *)
(* DAG the counter is recorded in, and the DAG file a restart reads back.  *)
(*                                                                         *)
(* One process runs everything on its main loop (server/mod.rs run_loop):  *)
(* an operator frame or a 500 ms timeout, handled to completion, then the  *)
(* next.  An action below is one such turn.  Every frame first flushes the *)
(* pending idle span, then runs its handler, then saves.  The process may  *)
(* be killed between any two turns, and any save may fail.                 *)
(*                                                                         *)
(* The DAG is a record with one set per event family.  The order of the    *)
(* nodes is left out: what a family records (a cycle number) orders it.    *)
(*                                                                         *)
(* An operator X_Y beside an operator X is X with a plausible bug Y: it is *)
(* used only to see that a property fails when the code is wrong.          *)
(***************************************************************************)
EXTENDS Integers, FiniteSets, FiniteSetsExt

CONSTANTS
    Raws,             \* raw materials the operator may ingest
    Axes,             \* gradient axes that may come to exist
    Migrations,       \* two-phase schema migrations that may be started
    BatchMax,         \* SELF_DRIVEN_BATCH_MAX (9)
    HungerThreshold,  \* HUNGER_REQUEST_THRESHOLD_CYCLES (10), also the debounce
    PruneInterval,    \* PRUNE_SCAN_DEEP_CYCLE_INTERVAL (100)
    SelfDriven,       \* MYCO_SELF_DRIVEN_CYCLE_ADVANCE: idle ticks drive cycles
    MaxCycle,         \* bound: the highest cycle a run reaches
    MaxFaults         \* bound: crashes, failed saves and failed cycles together

\* The three cadences the code fixes: a batch is shorter than the hunger
\* threshold, which is shorter than the prune interval.
ASSUME CadenceAssumption ==
    /\ BatchMax \in Nat \ {0} /\ HungerThreshold \in Nat /\ PruneInterval \in Nat
    /\ BatchMax < HungerThreshold /\ HungerThreshold < PruneInterval
    /\ MaxCycle \in Nat /\ MaxFaults \in Nat

\* The binary turns the flag on when its environment leaves it unset, and an
\* operator may turn it off; with it off only ADVANCE runs cycles.
ASSUME SelfDrivenAssumption == SelfDriven \in BOOLEAN

VARIABLES
    phase,              \* "down", "booted" (no handshake yet) or "live"
    dag,                \* the in-memory causal DAG
    disk,               \* the DAG file as last written
    counter,            \* ServerState.cycle_counter
    lastAbsorbed,       \* ServerState.last_absorbed_cycle; Never is None
    pending,            \* pending_self_driven_noop_cycles
    axisRegisterCount,  \* the inert-gate witness
    lastAskAt,          \* last_cultivar_initiated_ingestion_request_at_cycle
    pyAxes,             \* the axes of the gradient the Python kernel holds
    federated,          \* a federation listener is open or a peer is connected
    faults              \* faults so far (bounds the run)

vars == <<phase, dag, disk, counter, lastAbsorbed, pending, axisRegisterCount,
          lastAskAt, pyAxes, federated, faults>>

-----------------------------------------------------------------------------
(* The DAG and what a boot derives from it. *)

Never == -1

Cycle  == 0 .. MaxCycle
RawMaterial     == [id : Raws, at : Cycle]
AbsorptionEvent == [at : Cycle, of : SUBSET RawMaterial]
CycleAdvanced   == [prior : Cycle, new : Cycle]

Dag == [raw      : SUBSET RawMaterial,
        absorbed : SUBSET AbsorptionEvent,
        cycles   : SUBSET CycleAdvanced,
        axes     : SUBSET Axes,
        started  : SUBSET Migrations,
        ended    : SUBSET Migrations,
        scans    : SUBSET Cycle,
        asks     : SUBSET Cycle,
        retired  : BOOLEAN]

EmptyDag == [raw |-> {}, absorbed |-> {}, cycles |-> {}, axes |-> {},
             started |-> {}, ended |-> {}, scans |-> {}, asks |-> {},
             retired |-> FALSE]

\* DerivedState::from_dag: the counter is the last cycle_advanced's new_cycle.
CounterOf(d) == Max({0} \cup {e.new : e \in d.cycles})

\* ... and the high-water mark is the newest material an absorption names.
LastAbsorbedOf(d) ==
    Max({Never} \cup {r.at : r \in UNION {e.of : e \in d.absorbed}})

\* The inert-gate witness is not derived state: run_loop counts the nodes itself.
AxisRegisterCountOf_NotHydrated(d) == 0
AxisRegisterCountOf(d) == Cardinality(d.axes)

Archived(d)  == d.retired
Migrating(d) == d.started # d.ended

Ids(d) == {r.id : r \in d.raw}

-----------------------------------------------------------------------------
(* One metabolic cycle: handle_advance and the bookkeeping after it. *)

ShouldRunPruneScan(c) == c > 0 /\ c % PruneInterval = 0

PendingAbsorption_Inclusive(d, last) == {r \in d.raw : r.at >= last}
PendingAbsorption(d, last) == {r \in d.raw : r.at > last}

AbsorbedMark(d, last) ==
    LET batch == PendingAbsorption(d, last)
    IN  IF batch = {} THEN last ELSE Max({r.at : r \in batch})

CyclesSinceIngestion(d, c) == c - Max({0} \cup {r.at : r \in d.raw})

Hungry(d, c) == CyclesSinceIngestion(d, c) >= HungerThreshold

\* apply_hunger_and_emit: ask when hungry, at most once per threshold.
Asks(d, post) ==
    /\ Hungry(d, post)
    /\ lastAskAt = Never \/ post - lastAskAt >= HungerThreshold

\* The DAG after a committed cycle that starts at counter c; `decided' is the
\* migration run_migration_step committed or rolled back, if any.
CycledDag(d, c, decided) ==
    LET post  == c + 1
        batch == PendingAbsorption(d, lastAbsorbed)
    IN  [d EXCEPT
            !.absorbed = IF batch = {} THEN @
                         ELSE @ \cup {[at |-> post, of |-> batch]},
            !.scans    = IF ShouldRunPruneScan(post) THEN @ \cup {post} ELSE @,
            !.asks     = IF Asks(d, post) THEN @ \cup {post} ELSE @,
            !.cycles   = @ \cup {[prior |-> c, new |-> post]},
            !.ended    = @ \cup decided]

Decisions(d) == {{}} \cup {{g} : g \in d.started \ d.ended}

-----------------------------------------------------------------------------
(* The pending idle span and its flush. *)

\* is_provably_inert_for_batch.
Inert_NoMigrationTest == ~Archived(dag) /\ axisRegisterCount = 0 /\ ~federated
Inert ==
    /\ ~Archived(dag)
    /\ ~Migrating(dag)
    /\ axisRegisterCount = 0
    /\ ~federated

\* The tick accumulates instead of running a cycle: do_autonomous_tick.
Batches_FullBatch ==
    Inert /\ pending < BatchMax /\ ~ShouldRunPruneScan(counter + pending + 1)
Batches_NoBoundary == Inert /\ pending + 1 < BatchMax
Batches ==
    /\ Inert
    /\ pending + 1 < BatchMax
    /\ ~ShouldRunPruneScan(counter + pending + 1)

\* flush_pending_self_driven drops the span of an archived substrate.
FlushedSpan == IF Archived(dag) THEN 0 ELSE pending

FlushedCounter == counter + FlushedSpan

FlushedDag_NoEvent == dag
FlushedDag ==
    IF FlushedSpan = 0 THEN dag
    ELSE [dag EXCEPT !.cycles = @ \cup {[prior |-> counter, new |-> FlushedCounter]}]

\* What the DAG file holds after the flush; nothing is written for no span.
FlushedDisk(saved) == IF saved /\ FlushedSpan > 0 THEN FlushedDag ELSE disk

\* A save that does not happen is a fault, and faults are bounded.
Faults(n) == /\ faults + n <= MaxFaults
             /\ faults' = faults + n

Failures(outcomes) == Cardinality({o \in DOMAIN outcomes : ~outcomes[o]})

-----------------------------------------------------------------------------
(* The process. *)

Init ==
    /\ phase = "down"
    /\ dag = EmptyDag /\ disk = EmptyDag
    /\ counter = 0 /\ lastAbsorbed = Never /\ pending = 0
    /\ axisRegisterCount = 0 /\ lastAskAt = Never
    /\ pyAxes = {} /\ federated = FALSE
    /\ faults = 0

\* Everything but the DAG file is gone once the process ends.
ProcessEnds ==
    /\ phase' = "down"
    /\ dag' = EmptyDag
    /\ counter' = 0 /\ lastAbsorbed' = Never /\ pending' = 0
    /\ axisRegisterCount' = 0 /\ lastAskAt' = Never
    /\ pyAxes' = {} /\ federated' = FALSE

\* run_loop up to its main loop: load the DAG, derive the state from it.
LoadedDag == disk

Boot ==
    /\ phase = "down"
    /\ phase' = "booted"
    /\ dag' = LoadedDag
    /\ counter' = CounterOf(LoadedDag)
    /\ lastAbsorbed' = LastAbsorbedOf(LoadedDag)
    /\ axisRegisterCount' = AxisRegisterCountOf(LoadedDag)
    /\ UNCHANGED <<disk, pending, lastAskAt, pyAxes, federated, faults>>

\* The handshake spawns the Python kernel and replays the DAG's axes into it.
Hello ==
    /\ phase = "booted"
    /\ phase' = "live"
    /\ pyAxes' = dag.axes
    /\ UNCHANGED <<dag, disk, counter, lastAbsorbed, pending, axisRegisterCount,
                   lastAskAt, federated, faults>>

\* Killed between two turns of the main loop.
Crash ==
    /\ phase # "down"
    /\ ProcessEnds
    /\ Faults(1)
    /\ UNCHANGED disk

\* graceful_shutdown_python: end of input, the operator gone, a read error, a
\* rejected hello.  The flush is best-effort.
Exit(saved) ==
    /\ phase # "down"
    /\ FlushedSpan = 0 => saved
    /\ disk' = FlushedDisk(saved)
    /\ ProcessEnds
    /\ Faults(IF saved THEN 0 ELSE 1)

-----------------------------------------------------------------------------
(* Autonomous ticks: the main loop's timeout branch. *)

Tickable ==
    SelfDriven /\ phase = "live" /\ ~Archived(dag) /\ counter + pending < MaxCycle

\* An idle cycle is only counted.  A health signal later in the same tick may save
\* the DAG as it stands, the span unflushed.
TickBatch ==
    /\ Tickable
    /\ Batches
    /\ pending' = pending + 1
    /\ disk' \in {disk, dag}
    /\ UNCHANGED <<phase, dag, counter, lastAbsorbed, axisRegisterCount,
                   lastAskAt, pyAxes, federated, faults>>

\* A cycle on the flushed state: handle_advance commits, the counter moves, the
\* event is emitted, and the DAG is saved (or not).
CommitCycle(flushSaved, saved, decided) ==
    /\ dag' = CycledDag(FlushedDag, FlushedCounter, decided)
    /\ counter' = FlushedCounter + 1
    /\ lastAbsorbed' = AbsorbedMark(FlushedDag, lastAbsorbed)
    /\ lastAskAt' = IF Asks(FlushedDag, FlushedCounter + 1)
                    THEN FlushedCounter + 1 ELSE lastAskAt
    /\ disk' = IF saved THEN dag' ELSE FlushedDisk(flushSaved)
    /\ pending' = 0
    /\ UNCHANGED <<phase, axisRegisterCount, pyAxes, federated>>

\* handle_advance fails: the C31 signal is saved with whatever the DAG holds,
\* and no counter moves beyond the flushed span.
FailCycle(flushSaved, saved) ==
    /\ dag' = FlushedDag
    /\ counter' = FlushedCounter
    /\ disk' = IF saved THEN dag' ELSE FlushedDisk(flushSaved)
    /\ pending' = 0
    /\ UNCHANGED <<phase, lastAbsorbed, axisRegisterCount, lastAskAt, pyAxes,
                   federated>>

\* do_autonomous_tick's other branch: flush (a failed save is only logged),
\* then one real cycle (whose failure is only logged).
TickReal(flushSaved, saved, decided) ==
    /\ Tickable
    /\ ~Batches
    /\ FlushedSpan = 0 => flushSaved
    /\ CommitCycle(flushSaved, saved, decided)
    /\ Faults(Failures(<<flushSaved, saved>>))

TickFails(flushSaved, saved) ==
    /\ Tickable
    /\ ~Batches
    /\ FlushedSpan = 0 => flushSaved
    /\ FailCycle(flushSaved, saved)
    /\ Faults(1 + Failures(<<flushSaved, saved>>))

-----------------------------------------------------------------------------
(* Operator frames.  The flush precedes the dispatch of every one of them.  *)

\* The flush's save fails: run_loop returns the error and the process ends.
FlushFails ==
    /\ phase = "live" /\ FlushedSpan > 0
    /\ ProcessEnds
    /\ Faults(1)
    /\ UNCHANGED disk

\* A query, or a request the handler refuses: the flush is all that happens.
Query ==
    /\ phase = "live"
    /\ dag' = FlushedDag /\ counter' = FlushedCounter /\ pending' = 0
    /\ disk' = FlushedDisk(TRUE)
    /\ UNCHANGED <<phase, lastAbsorbed, axisRegisterCount, lastAskAt, pyAxes,
                   federated, faults>>

\* SHUTDOWN saves once more, best-effort, before the process ends.
Shutdown(saved) ==
    /\ phase = "live"
    /\ disk' = IF saved THEN FlushedDag ELSE FlushedDisk(TRUE)
    /\ ProcessEnds
    /\ Faults(IF saved THEN 0 ELSE 1)

\* The frame's handler leaves the DAG as d; then save_dag_state, which may fail.
Handled(d, saved) ==
    /\ phase = "live"
    /\ dag' = d /\ counter' = FlushedCounter /\ pending' = 0
    /\ disk' = IF saved THEN d ELSE FlushedDisk(TRUE)
    /\ Faults(IF saved THEN 0 ELSE 1)
    /\ UNCHANGED <<phase, lastAbsorbed, lastAskAt>>

\* PERTURB, FEDERATION_POLL and the like, or the health signals of a tick that
\* drives no cycle: a save, but no event of these families.
Emit(saved) ==
    /\ Handled(FlushedDag, saved)
    /\ UNCHANGED <<axisRegisterCount, pyAxes, federated>>

\* INGEST_RAW_MATERIAL.
Ingest(m, saved) ==
    /\ m \notin Ids(dag)
    /\ Handled([FlushedDag EXCEPT
                    !.raw = @ \cup {[id |-> m, at |-> FlushedCounter]}], saved)
    /\ UNCHANGED <<axisRegisterCount, pyAxes, federated>>

\* REGISTER_AXIS: Python adds the axis, the event is emitted, the gate closes.
RegisterAxis(a, saved) ==
    /\ a \notin pyAxes
    /\ pyAxes' = pyAxes \cup {a}
    /\ axisRegisterCount' = axisRegisterCount + 1
    /\ Handled([FlushedDag EXCEPT !.axes = @ \cup {a}], saved)
    /\ UNCHANGED federated

\* SUBMIT_MUTATION, a schema_evolution applied at once: add_axis_to_gradient
\* adds an axis to the Python gradient and no axis_registered event is emitted.
EvolveAxis(a, saved) ==
    /\ a \notin pyAxes
    /\ pyAxes' = pyAxes \cup {a}
    /\ Handled(FlushedDag, saved)
    /\ UNCHANGED <<axisRegisterCount, federated>>

\* SUBMIT_MUTATION, a schema_evolution in migration mode.
StartMigration(g, saved) ==
    /\ ~Migrating(dag) /\ g \notin dag.started
    /\ Handled([FlushedDag EXCEPT !.started = @ \cup {g}], saved)
    /\ UNCHANGED <<axisRegisterCount, pyAxes, federated>>

\* SUBMIT_MUTATION, abort_migration.
AbortMigration(saved) ==
    /\ Migrating(dag)
    /\ Handled([FlushedDag EXCEPT !.ended = FlushedDag.started], saved)
    /\ UNCHANGED <<axisRegisterCount, pyAxes, federated>>

\* FEDERATION_OPEN_LISTENER and _CONNECT_PEER, or the last of them closed.
Federate(on, saved) ==
    /\ federated # on
    /\ federated' = on
    /\ Handled(FlushedDag, saved)
    /\ UNCHANGED <<axisRegisterCount, pyAxes>>

\* ADVANCE: refused once archived, otherwise the same cycle as a real tick.
Advance(saved, decided) ==
    /\ phase = "live" /\ ~Archived(dag) /\ FlushedCounter < MaxCycle
    /\ CommitCycle(TRUE, saved, decided)
    /\ Faults(IF saved THEN 0 ELSE 1)

AdvanceFails(saved) ==
    /\ phase = "live" /\ ~Archived(dag) /\ FlushedCounter < MaxCycle
    /\ FailCycle(TRUE, saved)
    /\ Faults(1 + IF saved THEN 0 ELSE 1)

\* ACCEPT_BET_RETIRED_PROPOSAL: the archive seal, saved, ends the process; if
\* the save fails the reply is an error and the loop goes on, archived.
RetireBet ==
    /\ phase = "live"
    /\ disk' = [FlushedDag EXCEPT !.retired = TRUE]
    /\ ProcessEnds
    /\ UNCHANGED faults

RetireBetUnsaved ==
    /\ Handled([FlushedDag EXCEPT !.retired = TRUE], FALSE)
    /\ UNCHANGED <<axisRegisterCount, pyAxes, federated>>

-----------------------------------------------------------------------------

Tick ==
    \/ TickBatch
    \/ \E flushSaved, saved \in BOOLEAN :
          \/ \E decided \in Decisions(dag) : TickReal(flushSaved, saved, decided)
          \/ TickFails(flushSaved, saved)

Mutate(saved) ==
    \/ Emit(saved)
    \/ \E m \in Raws : Ingest(m, saved)
    \/ \E a \in Axes : RegisterAxis(a, saved)
    \/ \E a \in Axes : EvolveAxis(a, saved)
    \/ \E g \in Migrations : StartMigration(g, saved)
    \/ AbortMigration(saved)
    \/ \E on \in BOOLEAN : Federate(on, saved)

Request ==
    \/ FlushFails
    \/ Query
    \/ \E saved \in BOOLEAN :
          \/ Shutdown(saved)
          \/ Mutate(saved)
          \/ \E decided \in Decisions(dag) : Advance(saved, decided)
          \/ AdvanceFails(saved)
    \/ RetireBet
    \/ RetireBetUnsaved

Next ==
    \/ Boot
    \/ Hello
    \/ Crash
    \/ \E saved \in BOOLEAN : Exit(saved)
    \/ Tick
    \/ Request

Spec == Init /\ [][Next]_vars

\* Fairness of the main loop alone.  A substrate that stays up ticks in the end: its
\* operator now and then leaves a tick interval between two frames (the loop ticks on
\* a timeout of recv_timeout only), and a cycle that is retried forever succeeds.
\* Nothing is owed by the operator: no launch, no handshake, no request.
TickCommits == \E decided \in Decisions(dag) : TickReal(TRUE, TRUE, decided)

FairSpec == Spec /\ WF_vars(TickBatch \/ TickCommits)

-----------------------------------------------------------------------------
(* Properties. *)

Up == phase # "down"

\* Every variable holds a value of its Rust type, and a pending span is shorter
\* than a full batch (autonomous.rs do_autonomous_tick).
TypeOK ==
    /\ phase \in {"down", "booted", "live"}
    /\ dag \in Dag /\ disk \in Dag
    /\ counter \in Cycle
    /\ lastAbsorbed \in Cycle \cup {Never}
    /\ pending \in 0 .. BatchMax - 1
    /\ axisRegisterCount \in Nat
    /\ lastAskAt \in Cycle \cup {Never}
    /\ pyAxes \subseteq Axes
    /\ federated \in BOOLEAN
    /\ faults \in 0 .. MaxFaults

\* The spans of d's cycle_advanced events cover each cycle up to c exactly once.
Tiles(d, c) ==
    /\ \A e \in d.cycles : e.prior < e.new /\ e.new <= c
    /\ \A n \in 1 .. c : \E e \in d.cycles : e.prior < n /\ n <= e.new
    /\ \A e1, e2 \in d.cycles :
          e1 = e2 \/ e1.new <= e2.prior \/ e2.new <= e1.prior

\* C59: the cycle_advanced spans sum to the counter with no gap and no overlap,
\* in memory and in any file a restart may find, whatever flushes, cycles,
\* crashes and failed saves came between.
SpansTileTheCounter ==
    /\ Up => Tiles(dag, counter)
    /\ \E c \in Cycle : Tiles(disk, c)

\* No cycle boundary at which the prune scan is due is ever passed without a
\* real cycle that ran it: not by a batch, a flush, a restart or a retry (H1).
BoundaryScanned ==
    \A d \in {dag, disk} :
        \A n \in 1 .. CounterOf(d) : ShouldRunPruneScan(n) => n \in d.scans

\* However the operator and the scheduler interleave, material ingested before a
\* prune boundary is absorbed by the time the counter passes it.
AbsorbedByBoundary ==
    \A d \in {dag, disk} : \A r \in d.raw :
        (\E n \in 1 .. CounterOf(d) : ShouldRunPruneScan(n) /\ r.at < n)
            => \E e \in d.absorbed : r \in e.of

\* The high-water mark never passes over a material no cycle has absorbed, so
\* nothing ingested is lost to the strict comparison in handle_advance.
NoStrandedMaterial ==
    Up => \A r \in dag.raw : r.at <= lastAbsorbed => \E e \in dag.absorbed : r \in e.of

\* No material is absorbed by two absorption events, across restarts too.
AbsorbedOnce ==
    \A d \in {dag, disk} : \A e1, e2 \in d.absorbed :
        e1 = e2 \/ e1.of \cap e2.of = {}

\* While idle cycles are pending nothing can have happened that needs a real
\* cycle each: no registered axis, no migration window, no federation, and no
\* archive seal that would discard the span at the flush.
PendingIsInert ==
    pending > 0 => /\ dag.axes = {}
                   /\ dag.started = dag.ended
                   /\ ~federated
                   /\ ~dag.retired

\* What the process keeps beside the DAG (the counter, the absorption mark, the
\* inert-gate witness) is what a restart would derive from that DAG (C32).
LiveIsReplay ==
    Up => /\ counter = CounterOf(dag)
          /\ lastAbsorbed = LastAbsorbedOf(dag)
          /\ axisRegisterCount = Cardinality(dag.axes)

\* Metabolism halts for good once the archive seal is in the file: no later
\* boot, tick or ADVANCE adds a cycle or an absorption to it.
ArchiveIsFinal ==
    [][disk.retired => /\ disk'.retired
                       /\ disk'.cycles = disk.cycles
                       /\ disk'.absorbed = disk.absorbed]_vars

\* d1 holds every event of d.
Extends(d1, d) ==
    /\ d.raw \subseteq d1.raw /\ d.absorbed \subseteq d1.absorbed
    /\ d.cycles \subseteq d1.cycles /\ d.axes \subseteq d1.axes
    /\ d.started \subseteq d1.started /\ d.ended \subseteq d1.ended
    /\ d.scans \subseteq d1.scans /\ d.asks \subseteq d1.asks
    /\ d.retired => d1.retired

\* Append-only on disk: no save, after any boot, failure or partial turn, drops
\* an event an earlier save made durable.
DurableAppendOnly == [][Extends(disk', disk)]_vars

\* A substrate that drives itself and is left running from some time on absorbs, on
\* file, everything it ever ingested on file, in this process or an earlier one and
\* however often its operator's frames cut the idle batch short, unless it is archived
\* (durably, or in memory by an unsaved seal).  With the flag off, or a process that
\* always ends first, the code promises no cycle.  The bound leaves a prune interval
\* after the material, so it never stops the cycle that absorbs or its save.
EventuallyAbsorbed ==
    (SelfDriven /\ <>[](phase = "live")) =>
    \A m \in Raws :
        (\E r \in disk.raw : r.id = m /\ r.at < MaxCycle - PruneInterval)
            ~> \/ Archived(disk) \/ Archived(dag)
               \/ \E e \in disk.absorbed : \E r \in e.of : r.id = m

-----------------------------------------------------------------------------
(* Statements of the source's comments that the code does not keep. *)

\* server/autonomous.rs on SELF_DRIVEN_BATCH_MAX: "a real `handle_advance` runs
\* at least every `SELF_DRIVEN_BATCH_MAX` cycles, evaluating hunger within
\* `<= SELF_DRIVEN_BATCH_MAX` of any P02 threshold".  So a substrate that stays
\* hungry for a whole batch beyond the threshold has asked since it last ate.
HungerEvaluatedWithinBatch ==
    Up /\ faults = 0 /\ CyclesSinceIngestion(dag, counter) >= HungerThreshold + BatchMax
       => \E n \in dag.asks : n > counter - CyclesSinceIngestion(dag, counter)

\* server/autonomous.rs on flush_pending_self_driven: "the gate guarantees zero
\* axes for everything counted into `pending`".
PendingHasNoAxes == pending > 0 => pyAxes = {}

\* ingest.rs on HUNGER_REQUEST_DEBOUNCE_CYCLES: "re-emit the request at most once
\* per this interval while hunger persists".
AsksAreDebounced ==
    \A m, n \in dag.asks : m < n => n - m >= HungerThreshold
=============================================================================
