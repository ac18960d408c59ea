# Myco in TLA+

Specifications of the Myco substrate: the long-lived process that advances a
*metabolic cycle* counter, records every event in an append-only causal DAG,
keeps a Python worker as a child process that holds the *gradient*, federates
with other substrates, gives birth to children, watches itself and buries what
it no longer uses. The modules are translated from the Rust in `src/substrate` and
`src/kernel`, the Python in `src/kernel` and the TypeScript in
`src/operators/claude`; file and line references are to those trees.

| file | what it is |
|---|---|
| `MetabolicClock` | the counter, the batching scheduler, the DAG and its file |
| `SchemaMigration` | the gradient in Python, the two-phase migration in Rust and Python |
| `SubstrateStore` | one state directory: lock, key, `dag.cb`, `snapshot.cb`, backup, the steps of a boot |
| `CallChain` | a request through MCP server, substrate and Python worker: ids, deadlines, deaths |
| `Federation` | listener, connections, pins, pulls, wrapped events |
| `PopulationConsensus` | proposals, votes and certificates on top of `Federation` |
| `QuorumLedger` | what the consensus floor promises, abstractly; `PopulationConsensus` implements it |
| `Lifecycle` | a lineage of substrates: birth, quarantine, succession, archival, death |
| `Observatory` | what a substrate notices at the end of a cycle: saturation, drift, strain, limiter |
| `PruneScan` | internal mortality: the six rules of a scan, hoarding, recall, the boot's checks |
| `MetabolicClockProofs`, `SchemaMigrationProofs`, `SubstrateStoreProofs`, `CallChainProofs`, `LifecycleProofs`, `ObservatoryProofs`, `PruneScanProofs` | theorems of the modules they are named for |
| `FederationProofs` | theorems of `Federation`, `PopulationConsensus` and the refinement of `QuorumLedger` |
| `MC*.tla` | small instances for TLC |
| `*.cfg` | one per run |
| `PROJECT.json` | components, runs, the map to source lines, mutants, hazards, theorems |

`tlc -config clock_core.cfg MCMetabolicClock.tla` runs a model;
`tlapm MetabolicClockProofs.tla` checks proofs.

## 1. The system

### Components

| component | state it keeps | hard behaviour | module |
|---|---|---|---|
| Main loop and scheduler (`server/mod.rs`, `server/autonomous.rs`, `server/dispatch.rs`) | cycle counter, pending idle cycles, inert-gate witness | idle cycles are counted in memory and sealed later into one event; every frame flushes them first | `MetabolicClock` |
| Metabolic cycle (`ingest.rs` `handle_advance`) | absorption mark, debounces | a cycle may fail half way; the next tick retries | `MetabolicClock` |
| DAG, its file, snapshot, key, lock, boot (`persistence/*`, `state_lock.rs`, `server/mod.rs`, `derived_state.rs`) | nodes in insertion order; `dag.cb`, `snapshot.cb`, key file | a failed save leaves the file behind memory; files damaged, replaced or restored between processes; a snapshot must agree with the DAG | `SubstrateStore` |
| Gradient kernel and migration (`kernel/tropism`, `attestation.rs`, `kernel/schema/src/migration.rs`, Python handlers) | axes, schemas, values, candidate on both sides | two halves part at a timeout, refusal or restart | `SchemaMigration` |
| Bridge and worker (`kernel/bridge`) | ids, desynchronised latch, reader channel | a late answer must never serve a later request | `CallChain` |
| Operator client (`operators/claude`) | waiters, deadlines, spawned child | expiry in any order, shutdown of a hung chain, operator death | `CallChain` |
| Federation (`federation/*`) | connections, pins, wrapped events | frames in pieces, reconnects, pulls that time out, sweeps | `Federation` |
| Population consensus (`consensus.rs`, `events/consensus.rs`) | votes and certificates in the DAG | the set of participants moves while votes arrive | `PopulationConsensus` |
| Reproduction, quarantine, succession, archival (`reproduction.rs`, `lifecycle.rs`, `cultivation.rs`) | birth records, successor chain, states derived from the DAG | two files written by one birth; caches beside the DAG; throttles across restarts | `Lifecycle` |
| Cost, saturation, telos, strain, sycophancy, immune limiter (`observatory.rs`, `events/*`, `server/mod.rs` `emit_immune_sporocarp`) | counters, cooldowns, capped history | memory lost at a restart while its events stay | `Observatory` |
| Prune scan, hoarding, recall, integrity checks (`prune.rs`, `dag_query.rs`, `integrity.rs`) | nothing of their own | a scan context shared by rules that write | `PruneScan` |
| Continuity kernel, skin kernel, sealing, canonical bytes, trajectory, hard rules | see section 13 | none the running program reaches | none |

### How they interact

The operator's frames and the tick timer are the only sources of turns in a
substrate, and a turn runs to completion on one thread: there is no lock and no
interleaving *inside* a turn. The concurrency is elsewhere, and it is what the
modules explore:

* between turns: which order, which are cut short (`MetabolicClock`,
  `Observatory`, `PruneScan`);
* between a process and its files: a save fails, the process dies, the next boot
  starts from what was last written (`SubstrateStore`, `MetabolicClock`,
  `Lifecycle`);
* between processes: the worker acts on a call that has timed out, two
  substrates follow one another on one directory (`CallChain`, `SchemaMigration`);
* between substrates: connections, votes, pulled events (`Federation`,
  `PopulationConsensus`), parent and child (`Lifecycle`).

### What correctness means here

* Clock: the `cycle_advanced` spans tile 1..counter; no prune boundary is passed
  without its scan; nothing ingested is lost or absorbed twice; memory is what a
  boot would derive.
* Migration: at most one, decided within its window, only a decision changes
  the schema, the gradient is what the next handshake would rebuild.
* Store: what was acknowledged is in the file; a process serves under the
  identity its DAG names; a boot through the snapshot equals one through the DAG.
* Call chain: the worker holds what the DAG records; success reported means
  recorded in memory, and on file unless the save failed; only a worker that hangs
  on its way out keeps the directory locked behind a dead operator.
* Federation and consensus: every session is pinned, every wrapped event follows a
  pin of its peer, every certificate is backed by a quorum of distinct pinned voters.
* Lineage: births spaced, successions serial, quarantine kept.
* Observatory: what is reported is what happened: no hidden cost, no accusation
  against an act the recorded history can see, no lost detection.
* Prune scan: a part dies once, after its whole grace, and nothing known is lost.

## 2. The runs

Bounds stand in the cfg. The code's own constants (windows of 100 cycles, caps of
90 snapshots) are parameters; an instance keeps their order and makes them small
enough for every phase to occur more than once. Deadlock is checked in the clock,
migration and lineage runs. The other runs switch it off, because there
the system may really stop: its operator is gone, its processes have ended, or
the bounds on starts, requests and events are spent.

| run | module | what it shows |
|---|---|---|
| `clock_core` | `MetabolicClock` | types, tiling, boundaries, single absorption, inert pending, memory = replay |
| `clock_live` | `MetabolicClock` | what was durably ingested is in the end durably absorbed by a substrate that drives itself and is left running |
| `mig_core` | `SchemaMigration` | decided in the window, gradient = replay, schema changes only by decision, migrations end on file in a self-driving substrate left running |
| `store_core` | `SubstrateStore` | acknowledged = durable, identity = genesis, snapshot = DAG |
| `link_core` | `CallChain` | worker = DAG, success = recorded, orphans leave and shutdown returns unless a worker hangs on its way out |
| `fed_core` | `Federation` | sessions pinned, wraps follow pins, sweep exact |
| `pop_core` | `PopulationConsensus` | one vote per voter and round, certificates rest on pins, the ledger is implemented |
| `life_core` | `Lifecycle` | births spaced and recorded, succession serial, growth after quarantine |
| `obs_core` | `Observatory` | saturation, refusal, cost, proposal, drift, strain, limiter |
| `prune_core` | `PruneScan` | one death each, nothing detached, whole graces, nothing known lost, hoarding reported |
| `mig_replay` | `SchemaMigration` | refuted: a comment on replay failures (section 12) |
| `prune_axis` | `PruneScan` | refuted: a comment on stale axes (section 12) |

## 3. MetabolicClock

### State and actions

One action is one turn of `run_loop`. `dag` is the in-memory DAG, `disk` the DAG
file. The DAG is a record with one set per event family (raw materials,
absorptions, cycle spans, axis registrations, migrations started and ended,
prune scans, hunger requests, the archive seal): the cycle number an event
carries orders it within its family, and no reader of these families looks at
the order between families.

| action | code |
|---|---|
| `Boot`, `Hello` | `run_loop` before its loop; `handle_hello` |
| `TickBatch` | `do_autonomous_tick`, idle branch: only `pending` moves; a health signal in the same tick may save the DAG with the span unflushed |
| `TickReal`, `TickFails` | the other branch: flush, then a cycle; both failures are only logged |
| `Query`, `FlushFails` | the flush before every frame; its failed save ends the process |
| `Ingest`, `RegisterAxis`, `EvolveAxis`, `StartMigration`, `AbortMigration`, `Federate`, `Emit` | the dispatch arms that save, by what they change here |
| `Advance`, `AdvanceFails` | the ADVANCE arm |
| `RetireBet`, `RetireBetUnsaved` | ACCEPT_BET_RETIRED_PROPOSAL, and the same with a failed save |
| `Shutdown`, `Exit`, `Crash` | SHUTDOWN; every other clean way out, with the best-effort flush; a kill |

A save (write to a temporary file, sync, rename: `dag_io.rs` 22-42) is atomic.
`flushSaved` and `saved` in an action say whether its two saves succeeded. A
migration's content, and whether a cycle decides it, belong to
`SchemaMigration`; here a cycle may or may not end the open one.

### What is checked

`clock_core` checks six properties with two materials, one axis, one migration,
batches of 3, hunger at 4, prune at 5, six cycles and one fault. The code's
cadences are 9, 10 and 100. What the scheduler depends on is their order,
`BatchMax < HungerThreshold < PruneInterval`, which is the assumption
`CadenceAssumption`, and that a batch does not divide the prune interval; both
hold in the instance. Six cycles pass one prune boundary, fill a batch and reach
the boundary in the middle of a batch; two materials give every order of ingest,
mark and absorption; one fault is a crash, a failed save or a failed cycle at
every point. All six are also proved for all values (section 11).
The module states four more that follow from the same invariants or are weaker in
what they add: `AbsorbedByBoundary`, `NoStrandedMaterial`, `ArchiveIsFinal`,
`DurableAppendOnly` (add the name to the cfg to check one).

`clock_live` checks that a durably ingested material is in the end durably
absorbed unless the substrate is archived. The operator may flush the pending
span for ever, so the batch may never fill: what saves the property is the prune
boundary, and dropping that test is the mutant which breaks it.

Self-driven cycles depend on `MYCO_SELF_DRIVEN_CYCLE_ADVANCE`, the constant
`SelfDriven`. The library's default is off (`autonomous.rs` 26-37, 191-206); the
binary sets the variable to 1 when its environment leaves it unset
(`main.rs` 33-35), and an operator may set it to 0. With the flag off only ADVANCE
runs cycles, nothing forces one, and `EventuallyAbsorbed` promises nothing: its
premise is `SelfDriven /\ <>[](phase = "live")`. The second half says the process is
left running from some time on. No launch and no handshake is assumed.

Fairness (`FairSpec`) is `WF(TickBatch \/ TickCommits)`: a live, self-driving,
unarchived substrate ticks in the end, and a cycle that is tried for ever succeeds
(`do_autonomous_tick` says of a failed cycle that "the next tick retries"). The
tick runs in the timeout branch of `recv_timeout` alone (`server/mod.rs` 1444), so
this does assume that frames now and then leave a pause of a tick interval
(500 ms): an operator that never pauses starves the tick, and its frames'
handlers, other than ADVANCE, run no cycle. Nothing else is assumed
about requests, crashes or saves. Deadlock is checked in both runs: `Boot` or
`Exit` is always possible.

## 4. SchemaMigration

### State and actions

`gradient` and `candidate` are Python's, `migration` and `counter` are Rust's,
`desynced` is the bridge client's latch. `log` and `file` are what the DAG in
memory and on file *derive to*: the gradient a handshake would replay, whether
that replay succeeds, the migration and counter a boot would rebuild, and counts
of migration events. An axis has a threshold and a small integer value. A
mortality axis is of the DECAY class: it halves each cycle, fruits when it is at
or below its threshold and is not reset. Any other is of the APPETITE class: it
grows by perturbation, fruits at or above its threshold and is reset.

| action | code |
|---|---|
| `Boot`, `Hello`, `HelloRejected` | `run_loop` rebuilds the record; `handle_hello` replays into a fresh Python; a failed replay ends the process |
| `RegisterAxis`, `PerturbAxis`, `Evolve` | the requests that change the gradient outside a migration |
| `StartMigration`, `BuildFails`, `RefuseMigration` | SUBMIT_MUTATION in migration mode: accepted, the diff does not apply, or one is in flight (Python has already replaced its candidate) |
| `AbortMigration` | `force_migration_rollback` |
| `AdvanceOnly`, `AdvanceCommits`, `AdvanceRollsBack` | a cycle, then `run_migration_step`; `acked` says whether the terminal call to Python returned |
| `CallTimesOut` | a call times out; the client refuses every later call on that connection |
| `Save`, `Shutdown`, `Stop` | other saving requests; SHUTDOWN; any other end |

The window-exceeded detector C66 is not an action: `DecidedWithinWindow` shows
that its guard (the window passed and the migration still open) is never true.
The "degenerate" input of a cycle stands for a candidate that raises or goes
non-finite. The classifier's verdict is taken as given: only accepted diffs are
submitted. Perturbations are by one; values saturate at `MaxValue`.

### What is checked

`mig_core` runs under `FairSpec`: two axes, one of them a mortality axis, one
threshold change and one added axis, a window of 2 (the code: 100), values up to
3, four cycles, two migrations, one fault. The window must be at least 2 for a
migration to be caught in the middle by a restart, a refusal or an abort; four
cycles give one that completes and a second that starts. A threshold of 2 against
1 makes the candidate fruit the mortality axis where the active gradient does
not, so the divergence test is exercised by data and not only by the degenerate
input.

`MigrationEnds` is about the durable file: the migration a boot would rebuild from it
does not stay open for ever. A process end does not close it, and neither does a
decision whose save failed. Its premise is `SelfDriven` (section 3) and
`<>[](phase = "live" /\ ~desynced)`: the substrate is left running with a bridge it can
use. The fairness is `WF(TickCycles)`: the ticks run cycles (an open migration forbids
batching them). No launch, handshake, shutdown or ADVANCE is owed by an operator. A
substrate that is not left running, whose worker timed out (the latch is for the life
of the connection), or whose replay fails (`mig_replay`) may keep its migration open.

## 5. SubstrateStore

### State and actions

`dag`, `snap`, `key`, `manifest` are the files of one state directory, `backup` the
one the operator exported, `lock` the OS lock, `proc` the processes, `disk` whether
a save can succeed. The log of a DAG is a sequence of nodes; a tip's hash is
represented by the log up to it, which is what the hash of a node covers. `acked`
(the work acknowledged so far) and `aside` (a damaged DAG was set aside) are history
variables. A boot is taken in the steps of `run_loop`, each of which may save and
after each of which the process may be killed:

| action | code |
|---|---|
| `Start` | state lock, `load_dag`; an unreadable file is set aside, a version it does not know counts as none |
| `LoadKey` | `boot_or_genesis_substrate_signing_key`, with its refusal to run on a damaged key |
| `Derive` | identity and counter from the snapshot if its tip is in the DAG and its signature is ours, else from the whole DAG, with a legacy manifest's id as a fallback |
| `Report`, `Birth`, `SelfCheck` | the evidence of the boot, the genesis event or its backfill, genesis uniqueness and cycle tally |
| `Hello`, `Mutate`, `Perturb`, `ImmuneCheck`, `Advance`, `Tick`, `Backup` | serving: each with its own save, and its own answer when that save fails |
| `Shutdown`, `Stop` | a clean end with a last save, and a kill |
| `DiskFills`, `DiskRecovers`, `Damage`, `RemoveKey` | the environment |

### What is checked

`store_core`: two interchangeable processes, three starts, one piece of work, three
cycles with a snapshot every 2, one fault out of ten kinds (a DAG corrupt or of a
newer version; a snapshot corrupt or signed by another key; a key loose,
corrupt or newer; a corrupt manifest; the backup restored as a whole or its DAG
alone). Three starts are a first life, one that takes the snapshot, and one that
boots from what the second wrote after a fault; two snapshots apart by a cycle give
a tip that is behind the DAG, and a restored DAG one that is ahead of it.
`AckedIsDurable` is reset by a damage that destroys the file and follows the backup
when one is restored: what it rules out is a loss the program itself causes.

## 6. CallChain

Three processes in a row: `server`, `client`, `outcome` are the MCP server's and its
`SubstrateClient`'s (TypeScript); `sub` is the substrate with its bridge's ids and
latch (Rust); `worker` is Python with its pipe, `channel` what the bridge's reader
thread has queued. A perturbation stands for every request that changes the worker
and the DAG. Every hop has its actions: `Spawn`, `Call`, `Receive`, `Expire`,
`StdoutClosed`, `Abandon`, `Close`, `EndStdin`, `Closed` (client); `Boot`,
`TakeFrame`, `Replay`, `CallReturns`, `CallTimesOut`, `CallBreaks`, `Reap`,
`WatchParent`, `SeeEnd`, `Killed` (substrate); `Work`, `Quit`, `Hang`, `Die`
(worker); `OperatorDies`. A deadline may strike whenever an answer has not arrived:
the durations are left out, their order (a shutdown's grace against the call it
waits for) with them.

HELLO starts the worker and replays the DAG in the substrate's memory into it. The
worker has no save of its own (`save_python_state` is a no-op,
`persistence_runtime.rs` 47-50). After a perturbation the worker acknowledged, the
substrate records it in memory and saves the DAG with `let _ = save_dag_state`
(`dispatch.rs` 80): the save may fail, and the operator is told of a success all the same.
`sub[c].dag` is the DAG in memory, `dag` the file, `failing` that the last save
failed; SHUTDOWN saves in the same way before its acknowledgement. `SuccessIsRecorded`
says of an acknowledged perturbation what the code keeps: it is in the memory of the
process that answered, and on file unless that process's last save failed.

A worker answers SHUTDOWN (`Work`) and exits (`Quit`) in two steps. Between them the
substrate is in `child.wait()` (`client.rs` 706-712), the one wait in the chain
without a deadline: `Reap` is enabled by the worker's exit alone. A worker that hangs
on its way out therefore holds the substrate, its lock, and the client that waits for
it; `Lingers` names that state, and `OrphansLeave` and `ShutdownReturns` say that it
is the only one in which an orphan stays and a shutdown does not return.

`link_core` runs with two substrate processes and three ids each (HELLO and two
requests): one request can expire while the next is answered, and a second
substrate can boot while the first still leaves. Fairness is weak on each client's
steps, each substrate's steps and each worker's `Work \/ Quit`: timers fire, a process
that is not stuck goes on. Nothing makes a hung worker go on, no operator is owed, no
fault is.

## 7. Federation

The state is one substrate's: `listening`, `backlog`, `peers` (each connection with
the frames waiting on it), `pulling`, `dag`, `saved` (how much of it the file holds).
The environment connects, closes, and sends frames whole, broken or late. `Batches`
are the batches a peer may send: whenever it likes, in answer to the pull that waits,
to one that was given up on, or to none. Nothing compares a batch with the peer's log
or an answer with the request it answers, because the code does not: a frame is held
to the session's key, which anyone who knows both ids can compute
(`federation/protocol.rs` 139-161), and what is in it is the sender's word. That
pulled content is authentic is neither claimed nor checked here. `Revoked` is a
constant: nothing in the running program emits a revocation (`handlers.rs` 207-216),
so the guards on it are modelled and their set does not move.

| action | code |
|---|---|
| `OpenListener`, `CloseListener`, `Connect`, `LinkToParent` | the operator's requests, with the blocking handshake of a dial; a bind that fails has already dropped the old listener |
| `Poll`, `TickPoll` | accept, then one frame of every connection, then the sweep by `swap_remove` |
| `BeginPull`, `FinishPull`, `PullTimesOut` | a pull goes to the first connection of its peer and blocks the substrate; the first frame ends it; the events of a batch are filtered by type and depth and wrapped |
| `Restart` | connections are lost, the DAG is what was saved |
| `Arrive`, `Deliver`, `Hangup` | the others and the network |

`fed_core`: two connections, three peers (the parent; a legacy one without a key; a
revoked one), a forged hello, one batch with an event that came through too many
peers, a private one and one that may enter; one arrival, one lost other end, one frame
on a connection, two events in the DAG, one restart, one failed save. Two
connections are what `swap_remove` needs to go wrong, and what makes a sweep move the
connection that the next pull waits on.

`WrapsFollowPins` says that no peer's events enter a DAG that does not say before them
who the peer is, through late answers, sweeps, failed saves and restarts that keep a
part of the DAG. The exception is the connection a refused link to the parent leaves
(`handlers.rs` 752): it is established, pulled from, and pinned nowhere.

`SweepIsExact` says what the two sweeps of a poll leave: every connection with nothing
to read stays, and those with a broken frame in front go, unless the frame came to
the front in this very pass. That happens to a frame torn by a read that timed out, and
to one behind the frame that was just read (`Spared`). With one frame on a connection
only the first can occur: the run alone does not tell the two apart (it takes
`MaxWire = 2`). The theorem holds for any wire.
The events of a poll are the concatenation of what each connection gives
(`FlattenSeq` of the community modules); the removal from the highest index down
is a recursive function over the indices.

## 8. PopulationConsensus and QuorumLedger

`PopulationConsensus` EXTENDS `Federation` and adds `Propose` (with this substrate's
own vote and the tally that follows), `SubmitVote` (any vote ever signed, handed
over in any order and any number of times, with its own payload or another) and
`PeerVotes`. All of the floor's state is in the DAG; `cast` holds the votes
signed so far. `QuorumLedger` is the abstract specification: votes are never made up, a
certificate appears only with a quorum of distinct signed voters, and may be
forgotten by a crash and made again. The refinement mapping is
`Ledger == INSTANCE QuorumLedger WITH certs <- {Bare(c) : c \in CertsIn(dag)}`, and
`ImplementsLedger` is the run's PROPERTY.

`pop_core`: three peers and this substrate, so a quorum is three of four, and two of
two or three of three as connections go; the first peer comes back with another key,
the other two are interchangeable; one claim, one restart, eight events. Nothing is
pulled and no frame is late here: that is `fed_core`'s part.

## 9. Lifecycle

Per directory: the DAG `file`, the DAG in `mem` of a running process, and the two
caches `cultivation` and `chain`. A DAG is a record of what the handlers look up in
it; a substrate's id is the sequence of genesis timestamps along its lineage, as the
code mints it from the parent's id and the envelope's timestamp.

| action | code |
|---|---|
| `Boot`, `Shutdown`, `Crash` | genesis or load, the closure of a pending birth by the boot check, the caches |
| `Advance`, `RegisterAxis`, `QuarantineBlocks`, `LiftQuarantine` | the birth quarantine of `lifecycle.rs` |
| `SproutRefused`, `SproutFails`, `Sprout`, `SproutCrashes` | a spawn envelope: structure, depth, quota, interval, override; then two files |
| `UpdateSuccessorChain`, `AcceptSuccession`, `SuccessionBypass` | `cultivation.rs` |
| `RetireBet`, `RetireBetUnsaved`, `Euthanize`, `EuthanizeUnsaved` | the two ways to die, with a save or without |

`life_core`: three directories, one elder that may reach succession and death, depth
1, quota 2, interval 2, a quarantine of one cycle, one process at a time, one cycle,
three events (a birth being one), one fault; four envelopes (too soon after the first,
one deeper, sound, and for another parent). Three directories are a parent with two
children or a grandchild, refused or by override; three events reach two births of one parent, a
grandchild, and a child that lifted its quarantine, grew an axis and gave birth.

## 10. Observatory and PruneScan

`Observatory` is one cycle's pipeline in the code's fixed order. Each step is an
operator from one record of the live state to the next: `Record`, `Metabolise`
(budgets, stage machine, silence check), `Align` (drift and strain), `Flatter`.
Actions: `Cycle`, `Idle` (a flushed batch), `Pause` (time passes between two
handlers), `Request`, `Breach`, `Query` (with C37 and C40), `Restart` (memory is lost,
events stay). Costs and cosines are inputs: which axes are over budget, the grade, how
many days passed and whether the limiter's second lapsed. `past`, `heard`, `born` and
`acted` are history variables for the properties. The code visits the axes in a fixed
order; the model reports those of one cycle in any order, on which no detector depends.
Days pass in a cycle and between handlers: an act carries the number of the cycle
before it and may be much later than that cycle's snapshot.

`AccusedOnlyOfNeglect` is stated of the recorded history. C75 looks for acts from
the cycle of the first snapshot within the window on. It cuts by cycle number,
and an act after snapshot p carries the number p. If the window's edge lies between p
and the act, and the next snapshot comes after the act, the act is within the days of the
window and is cut off with cycle p: the cultivator is accused although it acted. That
needs no restart, only snapshots that are days apart; restarts, which lose the history
since the last `snapshot.cb`, and idle batches, which record none, make the gap wider.
The property says that this is the only way: when C75 is raised, the last act is older
than the window, or lies in the gap at its edge (`InTheGap`: the history reaches beyond
the edge and has no snapshot in the window before the act). A stricter property, without
`InTheGap`, is violated in the instance; section 12 has the comment it contradicts.

`obs_core`: thresholds of 2, cooldowns of 2 to 3, a history of 4 saved every 2
cycles, a strain window of 2 days, four kinds of cycle that mix the inputs, five cycles,
two requests, pauses of a day, batches or restarts. Five cycles enter saturation, leave
it and come back. The history is longer than the window's days, so that the edge
falls inside it and not only before its first snapshot.

`PruneScan` has the DAG with parents, and the six rules in order over one
context read before the first of them. Actions: `Ingest`, `RegisterAxis`, `Perturb`,
`Evolve`, `PerturbFromRaw`, `Forge`, `PreserveAll`, `Advance` (with the scan and C54),
`RunImmuneCheck`, `Restart` (with the boot's checks of ancestry and cycle count).
`prune_core`: two contents, one axis, one operation, graces of 1 and 2, a scan every
2 cycles, a hoarding window of 3, six cycles and three requests or restarts. Three
scans are one that condemns, one that must not condemn again and one after a new
word; three requests are two copies and a plate, or two plates that supersede each
other. The walks along the DAG (the ancestors of the tip, the candidates of a rule, the
tombstones of a scan) are recursive functions over the places of the DAG.

C54 goes through the limiter of `emit_immune_sporocarp` (`server/mod.rs` 1664-1676),
which writes one event per detector and second; its result is discarded and the
cooldown is taken whether or not the event was written (`ingest.rs` 1364-1370).
`spoken` is the limiter's memory: the scan that C54 was last written at, until the
second has passed, which it may do at any cycle. `HoardingIsReported` is what
remains of "every hoarding is reported": a cycle leaves C54 only if its scan ended a
hoarding window, and after each scan that did, the DAG has a C54 that is not older than
the limiter's second, this scan's or an earlier one's. The module assumes
`HoardCooldown <= Interval`; in the code both are 100 cycles. A longer cooldown would
suppress C54 at the next boundary and the property would be about the cooldown too.

## 11. What is proved

Under the named assumptions on the constants and nothing else; the bounds of the
runs are parameters, so the theorems hold whatever the bound.

| theorem | statement | inductive invariant |
|---|---|---|
| `Typing` | `Spec => []TypeOK` (clock) | `TypeInv`: the types, counter + pending within the bound, pending only while live, finitely many axes |
| `Tiling` | `Spec => []SpansTileTheCounter` | `TileInv` = `TypeInv` and the tiling |
| `Replay` | `Spec => []LiveIsReplay` | `ReplayInv` = `TileInv`, the property, the DAG's axes are among Python's |
| `Inertness` | `Spec => []PendingIsInert` | `InertInv` = `ReplayInv` and the property |
| `AbsorptionIsOnce` | `Spec => []AbsorbedOnce` | `OnceInv` = `ReplayInv` and the property |
| `NoBoundaryPassed` | `Spec => []BoundaryScanned` | `BoundaryInv` = `TileInv`, the property, no boundary inside the pending span |
| `Decided` | `Spec => []DecidedWithinWindow` | `IInv` of `SchemaMigrationProofs`: `Types`, `Record`, `GoodLog` of log and file |
| `RecordDerived`, `OneTerminal` | `RecordIsDerived`, `OneTerminalEach` | the same |
| `GradientReplayed` | `Spec => []GradientIsReplay` | the same, with the property |
| `SchemaByDecision` | `Spec => SchemaChangesOnlyByDecision` | the same, step by step |
| `AckedDurable` | `Spec => []AckedIsDurable` | `IInv` of `SubstrateStoreProofs` |
| `IdentityKept`, `SnapshotAgreed` | `IdentityIsGenesis`, `SnapshotAgrees` | `IInv` and `DInv`: logs are `Honest`, snapshots `Faithful`, processes `Sound` |
| `GradientInStep`, `SuccessRecorded` | `GradientIsTheDag`, `SuccessIsRecorded` | `IInv` of `CallChainProofs`: `Shapes`, `Told`, `OneLocked`, and `Sound` of every process: `Held` (memory against file), `InStep` (worker against memory) |
| `SessionsPinned`, `WrapsFollow`, `SweepsExact` | `SessionsArePinned`, `WrapsFollowPins`, `SweepIsExact` | `FedInv`: connections are `Tame` and `Bound`, every wrapped event is `Introduced` by an earlier pin |
| `VotesAreOnce`, `CertsRest` | `VoteOncePerRound`, `CertsRestOnPins` | `PopInv` = `FedInv`, `Signed`, `Sound` |
| `FloorRefinesLedger` | `PopSpec => ImplementsLedger` | `PopInv`; every step is one of the ledger or a stutter |
| `BirthsSpaced`, `SuccessionSerial`, `QuarantineHolds` | `BirthsAreSpaced`, `SuccessionIsSerial`, `GrownAfterQuarantine` | `IInv` of `LifecycleProofs`: every DAG is none or `Good`, and the caches are the DAG's |
| `ChildrenRecorded` | `Spec => []ChildrenAreRecorded` | `IInv` and `Kin` |
| `MachineIsTheRun`, `CostsAreShown`, `ProposalsAreRare`, `DriftIsRaised`, `NothingIsSuppressed`, `RefusalsAreVerifiable` | `StageIsTheRun`, `NoHiddenCost`, `OneProposalPerEpisode`, `LastingDriftIsRaised`, `DetectionsAreAccounted`, `RefusalIsVerifiable` | `OInv`: `LInv` of the live record, and what counters and caches hold of the cycles of this boot |
| `AccusedRightly` | `Spec => AccusedOnlyOfNeglect` | `OInv` and `HInv`, step by step |
| `DiesOnce`, `Connected`, `GraceFromTheLastWord`, `HoardingReported`, `KnowledgeKept`, `PruneTyping` | `TombstonedOnce`, `NothingFallsOff`, `GraceRunsFromTheLastWord`, `HoardingIsReported`, `NothingKnownIsLost`, `PruneTypeOK` | `PruneInv`: `Rooted`, `Mourned`, `Counted`, `Alarmed`, `Spoken`; `HoardingReported` step by step |

Why the strengthenings are needed.

*Clock.* A flush appends the span (counter, counter + pending], so the tiling is kept
only if `pending` and the counter are in range. A boot sets the counter to the largest
`new` of the file, which ends the tiling only because the file tiles
(`TilesCounter`): `LiveIsReplay` needs `TileInv`. The inert gate reads a count,
not the DAG; that it counts the axis events is `LiveIsReplay`, so `PendingIsInert`
needs that. A cycle absorbs what is newer than the mark; that this excludes everything
absorbed before is the mark's equality with the newest absorbed material, again
`LiveIsReplay`. `BoundaryScanned` alone is not inductive: a flush moves the counter
over the whole pending span, so the span must be known to contain no boundary.
`Shapes` reduces every disjunct of `Next` to six shapes of step.

*Migration.* The window cannot be proved of the live record alone: a restart takes
the record from the file, and the file may be several failed saves behind. So the
window, the balance of events and the bound of one migration are proved of log and
file alike (`GoodLog`), and that the record is the log's (`Record`).

*Store.* A save replaces the file by what the process holds, so the process must hold
what was acknowledged as well; it does because it loaded all of the file it found and
because no other process is up, which is the lock's doing. Identity and age are derived
from a snapshot by one boot and from the whole DAG by the next. `DInv` says of every log the
program writes that it has one genesis, before its cycles, and counts them in order
(`Honest`), of every snapshot that can be decoded that it says what its tip says
(`Faithful`), the backup's included, and of a process past its derivation that it knows
what its log says (`Sound`).

*Call chain.* Between two requests is not inductive: `InStep` says what is under way
during one. A substrate which still trusts its worker has either one job in the
pipe or its one answer in the channel, and what of the job was applied. It needs
`OneLocked` (two substrates would record past each other) and the latch (after a
deadline nothing is known of the worker). Worker and memory are compared, not worker
and file: `Held` says that the file is never ahead of the memory of the process that
holds the lock, and behind it only while that process's last save failed. `Told` carries
what was answered through the process's end.

*Lineage.* What is promised of a DAG is kept DAG by DAG, through file and memory. The
successor chain is checked against the cache and appended to the DAG, so the caches'
equality with the DAG is part of the invariant; and to append in order the starts
must be known to be in order too (`Serial`). That a child is lost only to a fault is a
count of directories against a counter: `Kin` carries the finite set of unrecorded
children, and a birth adds to it only with a fault of its own.

*Federation.* A connection is established in one turn and its pin recorded in the DAG,
which a restart cuts at `saved`, and with it all connections. `FedInv` says of every
connection that no batch is read from it before its hello (`Tame`) and that its pin is
in the DAG (`Bound`), and of every wrapped event that a pin of its peer stands before it
(`Introduced`): a prefix of the DAG keeps that, wherever a restart cuts it. That the
sweep removes what it means to is a statement about `swap_remove` over a descending
list: what was not yet visited has not moved (`SweepIs`).

*Consensus.* One vote per round is checked against the DAG and violated in the DAG, so it
is nearly inductive; a certificate needs what its votes were and that its voters were
pinned before it. The steps of the floor are then steps of the ledger: a tally adds
one certificate, a restart forgets some, anything else stutters.

*Observatory.* A cycle is a composition of a dozen steps. `LInv` is kept by each of them,
in any order, and relates the detectors' memory to the log; `Quiet` and `Calm` say what
a step leaves alone, so what one step established is there when the cycle ends. `RunOf`,
`Told`, `Spaced` and `Haunted` relate memory to the cycles since the boot: the counters
are the length of the run that ends now, each report is as old as its cooldown allows.
For the accusation, `Recorded` says that the snapshots of the history and of the cached
one, which a restart puts in its place, are in order of the days and none later than now;
`Witnessed` that the last act is durable and dated by the snapshots around it: those up
to its cycle were taken before it, those after its cycle later. C75's window by number
then differs from its window by days only in the gap at the edge.

*Prune scan.* A rule sees the context read before the first rule, and the DAG that
the rules before it have grown: `Mourned` says of every tombstone what its rule saw in
the nodes before it, which is what graces and survivors are stated of. Of several copies only the
first is ever buried, which keeps one whatever the scans do; a plate is buried for an
heir, and the last plate of a line of heirs cannot have been: `NothingKnownIsLost` takes
the greatest place among a buried plate's heirs.
`HoardingIsReported` needs the cooldown's memory to be a boundary of the past, every C54
to be older than the cycle that adds the next (`Alarmed`), and the limiter's memory to
be a scan whose C54 is in the DAG (`Spoken`).

Each of these invariants was also checked by TLC, as an invariant of the run of its
module (`IsLog`, which quantifies over all sets, read as a function on `1 .. Len`).

*Inductions.* The library's induction theorems take an operator as a parameter, and no
installed prover instantiates one. The proofs use the fact that `<` on the naturals is
well founded instead (`NatLessThanWellFounded` with `WFMin`): if a claim about every place
of a sequence fails, it fails at a least place (`Least`, `Greatest`, `Climb` in
`PruneScanProofs`, `Oldest` in `ObservatoryProofs`). A function defined by recursion on the
places is the one that `CHOOSE` picks; that there is one comes from the same
argument. That is why the modules with theorems use recursive functions and sets,
and no `RECURSIVE` operator.

### Only model-checked

* Liveness (`EventuallyAbsorbed`, `MigrationEnds`, `OrphansLeave`,
  `ShutdownReturns`): out of the prover's reach. Every other property of a passing run
  is stated by a theorem.
* `AbsorbedByBoundary`, `NoStrandedMaterial`, `ArchiveIsFinal`, `DurableAppendOnly`, and
  the type invariants of the modules other than `MetabolicClock` and `PruneScan`:
  stated, listed by no run, and not proved yet.
* The two statements that runs refute (section 12) are false, and stay with TLC.

## 12. Disagreements between code and comments

Two are runs that TLC refutes; `PROJECT.json` quotes the lines.

| run | what it shows |
|---|---|
| `mig_replay` | An axis added by evolution and then perturbed makes a DAG whose replay fails, so no later handshake succeeds; `persistence_runtime.rs` 264 says such a failure indicates corruption. |
| `prune_axis` | The rule for stale axes does not count perturbations from raw material, so an axis in use is buried; `prune.rs` 446-448 says it has not participated in metabolism for a full window. |

These are stated in the modules, each under "statements the code does not keep" or
beside its property, without a run of their own (add the name to a cfg):

| property | what it would show |
|---|---|
| `HungerEvaluatedWithinBatch` | Frames that flush the idle span put the hunger evaluation off beyond a batch (`autonomous.rs` 43-46). |
| `PendingHasNoAxes` | A schema evolution that adds an axis emits no `axis_registered`, so the inert gate does not count it (`autonomous.rs` 78). |
| `AsksAreDebounced` | The hunger debounce is forgotten by a restart (`ingest.rs` 166). |
| `ValidationResumes` | After a restart Rust has the migration and Python no candidate (`server/mod.rs` 971-974). |
| `CandidateIsTheMigrations` | A second migration is refused only after Python has replaced its candidate (`attestation.rs` 269-271). |
| `DeadWorkerIsRespawned` | A worker that died is never started again (`client.rs` 553 says it is). |
| `QuorumOfThePinned` | After a restart the quorum is that of the live connections (`consensus.rs` 95), not of the pinned peers. |
| `NoSilentRebuild` | A kill after a damaged DAG was set aside leaves a directory the next boot rebuilds without C7 (`server/mod.rs` 713). |
| `EnvelopeMintsOneChild` | A crash or failed save before the parent's file records the birth lets the same envelope mint the same child into a second directory. |
| `DeadStaysDead` | A substrate whose whole-death was accepted can be booted again and its cycles go on. |

Met while modelling, and part of the models' behaviour:

* Operator client: the promise of a rejected spawn is cached for good
  (`mcp_server.ts` 1038-1044); a failed client is killed without waiting for its exit;
  a late answer to an expired request fails the client; a HELLO that expires leaves a
  child that holds the lock. An error answer does not mean the request had no effect.
* Bridge: a worker that acknowledges SHUTDOWN and does not exit is waited for without a
  deadline (`client.rs` 706-712), with the lock held.
* Federation: a repeated pull wraps the same events again: the comment that calls it
  idempotent (`handlers.rs` 1392-1394) overlooks that a wrapper's parent is the local
  tip, so that its hash is a new one; a bind that fails leaves the listener closed
  (`handlers.rs` 77); a floor crossing is not recorded by the tick's poll or by
  a link to the parent; a revoked peer's events still arrive inside a third peer's
  wrapper (`handlers.rs` 1118-1120); a stale batch answers a later pull; a refused link
  leaves an unpinned established connection that counts towards the quorum; pulled
  votes are never counted.
* Store: a DAG of a version the program does not know counts as none and is
  overwritten by the first save (`dag_io.rs` 47); so is a signing key.
  REGISTER_AXIS and PERTURB are acknowledged when the save failed (`dispatch.rs` 58-84);
  what was acknowledged is then lost if the process ends before another save.
* Lifecycle: the quarantine gates REGISTER_AXIS and PERTURB alone; C34 and C46 are left
  unsaved; nobody emits `bet_retired_proposal` or `cultivation_orphaned`.
* Observatory: an act after the last snapshot before C75's window, but within its
  days, does not count (section 10), although `observatory.rs` 1124-1125 says that the
  presence of any act in the window means there is no strain; the history is capped at
  90 snapshots, so the windows of C37 and C75, given in days, may reach beyond it; it
  is saved every ten cycles; three grades of drift share one cooldown; an episode's
  proposal is forgotten by a restart.
* Prune scan: the limiter may swallow a C54 whose cooldown is taken all the same
  (`ingest.rs` 1364-1370); that cooldown is as long as the scan's interval and never
  suppresses by itself; a plate superseded in its own
  cycle is never retired; repeated failures postpone a retirement; the orphan and
  unreachable rules and C55 can never fire (`NothingFallsOff`);
  `axis_reset_after_fruiting` is never emitted; a tombstoned axis keeps running.

## 13. What is left out, and why

* Content addressing is taken as given: hashes, parents (except in `PruneScan`),
  encodings, signatures' mathematics.
* A crash in the middle of a turn where only the turn's own save is durable: the
  prefix of the turn is what a crash before it gives. Where a turn writes two files
  (`Sprout`) or a boot saves in steps (`SubstrateStore`), the crash is modelled.
* The wall clock's skew compensation, except that time does not go back.
* Floating point: `repr` round trips, NaN, cosines and scores; they are graded inputs.
* The amendment classifier (a pure decision table) and the verification of an
  operator's envelope (an input: accepted or not).
* Continuity kernel: the substrate uses its cycle engine alone, whose one step is
  inside every `Advance`. Write-ahead log, dormancy, quarantine and cold resume
  are constructed by nothing outside the crate's tests.
* Skin kernel: no crate of the running program depends on it.
* Cryptography, canonical bytes, trajectory and hard rules: functions without
  state. Encryption at rest is a file that opens or does not.
* Tools of the operator client that only format an answer.

## 14. Mutants

An operator `X_Y` beside `X` (or a name that says the fault, such as
`FalsifiedByFirst`) is `X` with a plausible bug: a dropped test, an off-by-one, a
missing hydration, swapped operands. Each checked property has one that breaks it,
listed in `PROJECT.json`. They are not part of the specification.

## 15. What comes next

`NoStrandedMaterial`, `AbsorbedByBoundary` (from it and `BoundaryInv`), `ArchiveIsFinal`
and `DurableAppendOnly` of the clock (memory extends the file). The type invariants that
the `IInv`s almost contain. An abstract ledger of cycles, each counted once in order, that
`MetabolicClock` implements with counter + pending as the mapping, would give
`Tiling` a second reading. The governance classifier can be written as an operator and
checked against its table.
