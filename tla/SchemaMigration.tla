-------------------------- MODULE SchemaMigration --------------------------
(***************************************************************************)
(* The gradient and its two-phase schema migration.                        *)
(*                                                                         *)
(* The Python kernel holds the gradient (the axes, their schemas and       *)
(* values) and, during a migration, a candidate: a changed copy advanced   *)
(* beside it.  The Rust substrate holds the migration's record, decides    *)
(* every cycle whether to commit or roll back, and records what happens in *)
(* the DAG, from which a boot rebuilds the record and a handshake rebuilds *)
(* the gradient.  The two talk by calls that may time out; a timed-out     *)
(* connection stays unusable until the process is started again.           *)
(*                                                                         *)
(* An operator turn or a cycle is one action, as in MetabolicClock.  A     *)
(* migration disables batching there, so every cycle here is a real one.   *)
(*                                                                         *)
(* An operator X_Y beside an operator X is X with a plausible bug Y: it is *)
(* used only to see that a property fails when the code is wrong.          *)
(***************************************************************************)
EXTENDS Integers, FiniteSets

CONSTANTS
    Axes,            \* axis names
    Mortal,          \* the is_mortality_signal axes: DECAY class; others: APPETITE
    MigrationDiffs,  \* schema diffs submitted with migration_mode
    EvolutionDiffs,  \* schema diffs applied at once
    Window,          \* DEFAULT_DUAL_VALIDATION_WINDOW_CYCLES (100)
    SelfDriven,      \* MYCO_SELF_DRIVEN_CYCLE_ADVANCE: idle ticks drive cycles
    MaxValue,        \* bound: an axis value saturates here
    MaxCycle,        \* bound: the highest cycle a run reaches
    MaxStarts,       \* bound: migrations submitted and recorded
    MaxFaults        \* bound: crashes, timeouts and failed saves together

\* Schemas: an appetite axis starts below its threshold, a decay axis above it; a
\* modify_axis_threshold diff brings the threshold nearer the initial value.
Thresholds == 1 .. 3
DefaultThreshold(a) == IF a \in Mortal THEN 1 ELSE 3
ModifiedThreshold == 2
InitialValue(a) == IF a \in Mortal THEN MaxValue ELSE 1

Diff == [op : {"modify_axis_threshold", "add_axis_to_gradient"}, axis : Axes]

ASSUME MigrationAssumption ==
    /\ Mortal \subseteq Axes
    /\ MigrationDiffs \subseteq Diff /\ EvolutionDiffs \subseteq Diff
    /\ Window \in Nat \ {0} /\ SelfDriven \in BOOLEAN
    /\ MaxValue \in Nat /\ MaxValue >= 3
    /\ MaxCycle \in Nat /\ MaxStarts \in Nat /\ MaxFaults \in Nat

VARIABLES
    phase,      \* "down", "booted" (no handshake yet) or "live"
    gradient,   \* DispatcherState.gradient, in Python
    candidate,  \* DispatcherState.candidate_*, in Python: {} or one record
    migration,  \* ServerState.migration_candidate, in Rust: {} or one record
    counter,    \* ServerState.cycle_counter
    desynced,   \* the bridge client has given up on its connection
    log,        \* what the in-memory DAG derives to
    file,       \* what the DAG file derives to
    faults      \* faults so far (bounds the run)

vars == <<phase, gradient, candidate, migration, counter, desynced, log, file,
          faults>>

-----------------------------------------------------------------------------
(* The gradient: kernel_tropism. *)

NoAxis == [threshold |-> 0, value |-> 0]
NewAxis(a) == [threshold |-> DefaultThreshold(a), value |-> InitialValue(a)]
Gradient == [Axes -> [threshold : Thresholds, value : 0 .. MaxValue] \cup {NoAxis}]
EmptyGradient == [a \in Axes |-> NoAxis]

Has(g, a) == g[a] # NoAxis

Registered(g, a) == [g EXCEPT ![a] = NewAxis(a)]

Perturbed(g, a) ==
    [g EXCEPT ![a].value = IF @ < MaxValue THEN @ + 1 ELSE @]

\* The update rule (DecayRule at rate 0.5, NoOpRule), then the fruiting test on
\* the updated value: a decay axis is crossed from above, an appetite axis from
\* below, and only an appetite axis is reset by fruiting.
Updated(g, a) == IF a \in Mortal THEN g[a].value \div 2 ELSE g[a].value
Fruits(g, a) ==
    /\ Has(g, a)
    /\ IF a \in Mortal THEN Updated(g, a) <= g[a].threshold
                       ELSE Updated(g, a) >= g[a].threshold
Advanced(g) ==
    [a \in Axes |->
        IF ~Has(g, a) THEN NoAxis
        ELSE [g[a] EXCEPT !.value = IF Fruits(g, a) /\ a \notin Mortal
                                    THEN InitialValue(a) ELSE Updated(g, a)]]

\* schema_evolution.py: a diff applies unless its axis is missing or taken.
Applies(d, g) == Has(g, d.axis) = (d.op = "modify_axis_threshold")
Applied(d, g) ==
    IF d.op = "modify_axis_threshold" THEN [g EXCEPT ![d.axis].threshold = ModifiedThreshold]
    ELSE Registered(g, d.axis)

-----------------------------------------------------------------------------
(* The DAG, as the two readers of it see it.  `gradient' and `replays' are  *)
(* the result of replay_python_events_from_dag, `migration' and `counter'   *)
(* that of DerivedState::from_dag; `evolved' records that some event changed *)
(* a schema (those are not replayed), `started', `committed' and            *)
(* `rolledBack' count the migration events, `unbuilt' the migrations that    *)
(* were submitted with a diff that does not apply.                          *)

EmptyLog == [gradient |-> EmptyGradient, replays |-> TRUE, evolved |-> FALSE,
             migration |-> {}, counter |-> 0,
             started |-> 0, unbuilt |-> 0, committed |-> 0, rolledBack |-> 0]

\* axis_registered:* is replayed as a register_axis call, an error if taken.
LogRegistered(l, a) ==
    IF Has(l.gradient, a) THEN [l EXCEPT !.replays = FALSE]
    ELSE [l EXCEPT !.gradient = Registered(@, a)]

\* axis_perturbed:* is replayed as a perturb call, an error if there is no axis.
LogPerturbed_NotReplayed(l, a) == l
LogPerturbed(l, a) ==
    IF Has(l.gradient, a) THEN [l EXCEPT !.gradient = Perturbed(@, a)]
    ELSE [l EXCEPT !.replays = FALSE]

\* cycle_advanced is replayed as one advance call.
LogCycle(l) == [l EXCEPT !.gradient = Advanced(@), !.counter = @ + 1]

LogStarted(l, m) == [l EXCEPT !.migration = {m}, !.started = @ + 1]

\* A rollback without a start.  Derived state closes any migration it finds open.
LogUnbuilt(l) ==
    [l EXCEPT !.migration = {}, !.unbuilt = @ + 1, !.rolledBack = @ + 1]

LogCommitted(l) ==
    [l EXCEPT !.migration = {}, !.committed = @ + 1, !.evolved = TRUE]

LogRolledBack(l) == [l EXCEPT !.migration = {}, !.rolledBack = @ + 1]

-----------------------------------------------------------------------------
(* The process and its bridge. *)

Init ==
    /\ phase = "down"
    /\ gradient = EmptyGradient /\ candidate = {} /\ migration = {}
    /\ counter = 0 /\ desynced = FALSE
    /\ log = EmptyLog /\ file = EmptyLog
    /\ faults = 0

ProcessEnds ==
    /\ phase' = "down"
    /\ gradient' = EmptyGradient /\ candidate' = {} /\ migration' = {}
    /\ counter' = 0 /\ desynced' = FALSE /\ log' = EmptyLog

Faults(n) == faults + n <= MaxFaults /\ faults' = faults + n

\* The turn leaves the DAG as l, and its save happens or fails.
Saves(l, saved) ==
    /\ log' = l
    /\ file' = IF saved THEN l ELSE file

Failed(saved) == IF saved THEN 0 ELSE 1

\* run_loop: the DAG gives the counter and the migration in flight.
Boot ==
    /\ phase = "down"
    /\ phase' = "booted"
    /\ log' = file
    /\ counter' = file.counter
    /\ migration' = file.migration
    /\ UNCHANGED <<gradient, candidate, desynced, file, faults>>

\* handle_hello: a fresh Python kernel, an empty gradient, and the replay.
Hello ==
    /\ phase = "booted" /\ log.replays
    /\ phase' = "live"
    /\ gradient' = log.gradient
    /\ UNCHANGED <<candidate, migration, counter, desynced, log, file, faults>>

\* The replay fails: the hello is rejected and the process exits.
HelloRejected ==
    /\ phase = "booted" /\ ~log.replays
    /\ ProcessEnds
    /\ UNCHANGED <<file, faults>>

\* SHUTDOWN saves once more.
Shutdown ==
    /\ phase = "live"
    /\ file' = log
    /\ ProcessEnds
    /\ UNCHANGED faults

\* Any other request that ends with a save: nothing of the migration changes.
Save ==
    /\ phase = "live"
    /\ file' = log
    /\ UNCHANGED <<phase, gradient, candidate, migration, counter, desynced, log, faults>>

\* End of input, the operator gone, or the process killed between two turns.
Stop ==
    /\ phase # "down"
    /\ ProcessEnds
    /\ Faults(1)
    /\ UNCHANGED file

\* A call to Python times out: the client stops using its connection, so
\* whatever Python did with the request is never seen again.
CallTimesOut(saved) ==
    /\ phase = "live" /\ ~desynced
    /\ desynced' = TRUE
    /\ Saves(log, saved)
    /\ Faults(1 + Failed(saved))
    /\ UNCHANGED <<phase, gradient, candidate, migration, counter>>

\* Python answers the turn's call.
Answered == phase = "live" /\ ~desynced

-----------------------------------------------------------------------------
(* Operator requests. *)

\* REGISTER_AXIS.
RegisterAxis(a, saved) ==
    /\ Answered /\ ~Has(gradient, a)
    /\ gradient' = Registered(gradient, a)
    /\ Saves(LogRegistered(log, a), saved)
    /\ Faults(Failed(saved))
    /\ UNCHANGED <<phase, candidate, migration, counter, desynced>>

\* PERTURB and PERTURB_AXIS_FROM_RAW_MATERIAL.
PerturbAxis(a, saved) ==
    /\ Answered /\ Has(gradient, a)
    /\ gradient' = Perturbed(gradient, a)
    /\ Saves(LogPerturbed(log, a), saved)
    /\ Faults(Failed(saved))
    /\ UNCHANGED <<phase, candidate, migration, counter, desynced>>

\* SUBMIT_MUTATION, a schema_evolution applied at once to the live gradient.
Evolve(d, saved) ==
    /\ Answered /\ Applies(d, gradient)
    /\ gradient' = Applied(d, gradient)
    /\ Saves([log EXCEPT !.evolved = TRUE], saved)
    /\ Faults(Failed(saved))
    /\ UNCHANGED <<phase, candidate, migration, counter, desynced>>

\* What Python's submit_mutation handler does with a migration_mode diff that
\* applies: it builds the candidate, whether or not there is one already.
BuiltCandidate(d) ==
    {[gradient |-> Applied(d, gradient), diff |-> d]}

\* SUBMIT_MUTATION in migration mode: the candidate is built and the window opens.
StartMigration(d, saved) ==
    /\ Answered /\ migration = {} /\ Applies(d, gradient)
    /\ counter + Window <= MaxCycle /\ log.started + log.unbuilt < MaxStarts
    /\ candidate' = BuiltCandidate(d)
    /\ LET m == [diff |-> d, started_at |-> counter]
       IN  /\ migration' = {m}
           /\ Saves(LogStarted(log, m), saved)
    /\ Faults(Failed(saved))
    /\ UNCHANGED <<phase, gradient, counter, desynced>>

\* The diff does not apply: no candidate, and the rollback is recorded at once.
BuildFails(d, saved) ==
    /\ Answered /\ migration = {} /\ ~Applies(d, gradient)
    /\ log.started + log.unbuilt < MaxStarts
    /\ Saves(LogUnbuilt(log), saved)
    /\ Faults(Failed(saved))
    /\ UNCHANGED <<phase, gradient, candidate, migration, counter, desynced>>

\* A second one is refused, after Python has built its candidate.
RefuseMigration(d, saved) ==
    /\ Answered /\ migration # {} /\ Applies(d, gradient)
    /\ candidate' = BuiltCandidate(d)
    /\ Saves(log, saved)
    /\ Faults(Failed(saved))
    /\ UNCHANGED <<phase, gradient, migration, counter, desynced>>

\* SUBMIT_MUTATION, abort_migration: force_migration_rollback.  The second call
\* to Python may fail; the rollback is recorded regardless.
AbortMigration(acked, saved) ==
    /\ Answered /\ migration # {}
    /\ migration' = {}
    /\ candidate' = IF acked THEN {} ELSE candidate
    /\ desynced' = ~acked
    /\ Saves(LogRolledBack(log), saved)
    /\ Faults(Failed(acked) + Failed(saved))
    /\ UNCHANGED <<phase, gradient, counter>>

-----------------------------------------------------------------------------
(* A cycle, from ADVANCE or a tick: handle_advance, then run_migration_step. *)

NextCandidate == {[c EXCEPT !.gradient = Advanced(@)] : c \in candidate}

\* Option A: the candidate raised or went non-finite (degenerate), or it fruits
\* a mortality axis where the active gradient does not.
Diverged(degenerate) ==
    \/ candidate = {}
    \/ degenerate
    \/ \E c \in candidate, a \in Mortal : Fruits(c.gradient, a) /\ ~Fruits(gradient, a)

WindowComplete_Swapped(m) == m.started_at - (counter + 1) >= Window
WindowComplete_Late(m) == counter + 1 - m.started_at > Window
WindowComplete(m) == counter + 1 - m.started_at >= Window

Commits(degenerate) ==
    \E m \in migration : ~Diverged(degenerate) /\ WindowComplete(m)
RollsBack(degenerate) == migration # {} /\ Diverged(degenerate)

Cycles == Answered /\ counter < MaxCycle /\ counter' = counter + 1

\* No migration, or one that goes on validating.
AdvanceOnly(saved, degenerate) ==
    /\ Cycles
    /\ ~Commits(degenerate) /\ ~RollsBack(degenerate)
    /\ gradient' = Advanced(gradient)
    /\ candidate' = NextCandidate
    /\ Saves(LogCycle(log), saved)
    /\ Faults(Failed(saved))
    /\ UNCHANGED <<phase, migration, desynced>>

\* commit_migration: the advanced candidate becomes the gradient.
Promoted == IF candidate = {} THEN Advanced(gradient)
            ELSE (CHOOSE c \in NextCandidate : TRUE).gradient

AdvanceCommits(acked, saved) ==
    /\ Cycles
    /\ Commits(FALSE)
    /\ gradient' = IF acked THEN Promoted ELSE Advanced(gradient)
    /\ candidate' = IF acked THEN {} ELSE NextCandidate
    /\ migration' = {}
    /\ desynced' = ~acked
    /\ Saves(LogCommitted(LogCycle(log)), saved)
    /\ Faults(Failed(acked) + Failed(saved))
    /\ UNCHANGED phase

\* abort_migration: the gradient in use is the active one, advanced.
Kept_Promotes == Promoted
Kept == Advanced(gradient)

AdvanceRollsBack(acked, saved, degenerate) ==
    /\ Cycles
    /\ RollsBack(degenerate)
    /\ gradient' = Kept
    /\ candidate' = IF acked THEN {} ELSE NextCandidate
    /\ migration' = {}
    /\ desynced' = ~acked
    /\ Saves(LogRolledBack(LogCycle(log)), saved)
    /\ Faults(Failed(acked) + Failed(saved))
    /\ UNCHANGED phase

-----------------------------------------------------------------------------

Request(saved) ==
    \/ \E a \in Axes : RegisterAxis(a, saved) \/ PerturbAxis(a, saved)
    \/ \E d \in EvolutionDiffs : Evolve(d, saved)
    \/ \E d \in MigrationDiffs : StartMigration(d, saved)
    \/ \E d \in MigrationDiffs : BuildFails(d, saved)
    \/ \E d \in MigrationDiffs : RefuseMigration(d, saved)
    \/ \E acked \in BOOLEAN : AbortMigration(acked, saved)

Advance(saved) ==
    \/ \E degenerate \in BOOLEAN : AdvanceOnly(saved, degenerate)
    \/ \E acked \in BOOLEAN : AdvanceCommits(acked, saved)
    \/ \E acked, degenerate \in BOOLEAN : AdvanceRollsBack(acked, saved, degenerate)

Next ==
    \/ Boot
    \/ Hello
    \/ HelloRejected
    \/ Shutdown
    \/ Save
    \/ Stop
    \/ \E saved \in BOOLEAN : CallTimesOut(saved) \/ Request(saved) \/ Advance(saved)

Spec == Init /\ [][Next]_vars

\* Fairness of the main loop alone: with the flag on, the cycles of a substrate whose
\* worker answers go on (a migration in flight forbids batching them).  Nothing is owed
\* by the operator: no launch, no handshake, no ADVANCE.
TickCycles == SelfDriven /\ \E saved \in BOOLEAN : Advance(saved)

FairSpec == Spec /\ WF_vars(TickCycles)

-----------------------------------------------------------------------------
(* Properties. *)

Migration == [diff : MigrationDiffs, started_at : 0 .. MaxCycle]

Log == [gradient : Gradient, replays : BOOLEAN, evolved : BOOLEAN,
        migration : SUBSET Migration, counter : 0 .. MaxCycle,
        started : Nat, unbuilt : Nat, committed : Nat, rolledBack : Nat]

\* Types; both sides hold at most one migration (Option in Rust and in Python).
TypeOK ==
    /\ phase \in {"down", "booted", "live"}
    /\ gradient \in Gradient
    /\ candidate \subseteq [gradient : Gradient, diff : MigrationDiffs]
    /\ Cardinality(candidate) <= 1
    /\ migration \subseteq Migration /\ Cardinality(migration) <= 1
    /\ counter \in 0 .. MaxCycle
    /\ desynced \in BOOLEAN
    /\ log \in Log /\ file \in Log
    /\ faults \in 0 .. MaxFaults

\* A migration is decided within its window, whatever restarts, refusals and
\* timeouts come between: the window-exceeded detector C66 never has cause.
DecidedWithinWindow ==
    /\ \A m \in migration : counter - m.started_at \in 0 .. Window - 1
    /\ \A m \in file.migration : file.counter - m.started_at \in 0 .. Window - 1

\* Every submitted migration has exactly one terminal event, in memory and in any
\* file a restart may find, except the one in flight.
OneTerminalEach ==
    \A l \in {log, file} :
        l.started + l.unbuilt = l.committed + l.rolledBack + Cardinality(l.migration)

\* Rust's record of the migration is what a boot would derive from its DAG.
RecordIsDerived == phase # "down" => migration = log.migration /\ counter = log.counter

\* While no schema has changed and the bridge is usable, the gradient Python
\* holds is the one the next handshake would rebuild by replaying the DAG.
GradientIsReplay ==
    phase = "live" /\ ~desynced /\ ~log.evolved
        => log.replays /\ gradient = log.gradient

Schema(g) == [a \in Axes |-> g[a].threshold]

\* No rollback, abort, refusal or failure changes the schema of the gradient in
\* use: it changes only by a registration, an evolution or a commit.
SchemaChangesOnlyByDecision ==
    [][phase = "live" /\ phase' = "live" /\ Schema(gradient') # Schema(gradient)
         => \/ log'.committed > log.committed
            \/ log'.counter = log.counter /\ migration' = migration
               /\ candidate' = candidate]_vars

\* No migration stays open in the DAG file of a self-driving substrate that is left
\* running, with a bridge it can use, from some time on: run_migration_step decides it,
\* also when a restart lost Python's half or the first save of the decision failed, and
\* the decision reaches the file.  A process end does not close it.  The bound leaves
\* the window and one more cycle, whose save makes the decision durable.
MigrationEnds ==
    LET open == \E m \in file.migration : m.started_at + Window < MaxCycle
    IN  (SelfDriven /\ <>[](phase = "live" /\ ~desynced)) => (open ~> ~open)

-----------------------------------------------------------------------------
(* Statements of the source's comments that the code does not keep. *)

\* server/mod.rs on the hydrated CandidateState: "so the per-cycle
\* dual-validation hook + the C66 window-exceeded detector pick up exactly where
\* they left off across a restart".  Where they left off, Python was advancing
\* the candidate of the migration.
ValidationResumes ==
    phase = "live" /\ ~desynced /\ migration # {} => candidate # {}

\* attestation.rs on the single-in-flight guard: it keeps migration_candidate
\* "an unambiguous single Option and the Python-side candidate_gradient
\* single-valued"; state.py calls candidate_diff_bytes "parity with the
\* substrate's stored copy".  So Python's candidate is the migration's.
CandidateIsTheMigrations ==
    \A c \in candidate, m \in migration : ~desynced => c.diff = m.diff

\* persistence_runtime.rs on a failed replay: "a malformed event in the DAG
\* indicates corruption".  Nothing here corrupts an event, so every DAG file the
\* program writes should replay.
ReplayFailsOnlyOnCorruption == file.replays
=============================================================================
