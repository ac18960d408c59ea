------------------------------ MODULE Lifecycle ------------------------------
(***************************************************************************)
(* The life of a lineage of substrates: birth from a parent's spore,       *)
(* quarantine at birth, succession of the cultivator, archival and death.  *)
(*                                                                         *)
(* A substrate is a DAG file in a state directory, and at most one process *)
(* that holds the DAG in memory.  A parent writes the DAG file of its child*)
(* (reproduction.rs) before it records the birth in its own DAG, and its   *)
(* own file is saved last: a crash can fall between the two files.         *)
(*                                                                         *)
(* The DAG is a record of what the handlers look up in it.  A substrate id *)
(* is minted from the parent's id and the genesis timestamp the envelope   *)
(* carries, so it is the sequence of the timestamps along the lineage.     *)
(***************************************************************************)
EXTENDS Integers, Sequences, FiniteSets, FiniteSetsExt, SequencesExt

CONSTANTS
    Dirs, Root,        \* state directories, and the one of the first ancestor
    Elders,            \* bound: the substrates that reach succession and death
    Axes,              \* gradient axes the operator may register
    Envelopes,         \* spawn envelopes: ts, anchor, override, sound
    Intervals,         \* successor intervals the operator may append
    DepthMax,          \* REPRODUCTION_LINEAGE_DEPTH_MAX (10)
    Quota,             \* REPRODUCTION_LIFETIME_QUOTA (100)
    MinInterval,       \* REPRODUCTION_RATE_MIN_INTERVAL_NS (24 h)
    QuarantineCycles,  \* quarantine_duration_cycles (10)
    MaxRunning,        \* bound: processes running at once
    MaxCycle,          \* bound: metabolic cycles of one substrate
    MaxEvents,         \* bound: events of the lineage, a birth being one
    MaxFaults          \* bound: crashes, failed saves and failed boot checks

Open  == -1  \* valid_until of an open interval
Alive == -1  \* the cycle of a death that has not happened

ASSUME LifecycleAssumption ==
    /\ Root \in Dirs /\ Elders \subseteq Dirs
    /\ Envelopes \subseteq [ts : Nat, anchor : Nat, override : BOOLEAN, sound : BOOLEAN]
    /\ Intervals \subseteq [from : Nat, until : Nat \cup {Open}]
    /\ {DepthMax, Quota, MinInterval, QuarantineCycles, MaxRunning, MaxCycle,
        MaxEvents, MaxFaults} \subseteq Nat

VARIABLES
    file,         \* per directory: the DAG file, or NoDag
    mem,          \* per directory: the DAG its process holds, or NoDag
    cultivation,  \* per directory: ServerState.cultivation_state
    chain,        \* per directory: ServerState.successor_chain
    faults

vars == <<file, mem, cultivation, chain, faults>>

-----------------------------------------------------------------------------
(* A substrate's DAG. *)

NoDag == [born |-> FALSE]

\* A genesis event and nothing else: what a first boot writes.
Genesis(id, depth) ==
    [born        |-> TRUE,
     id          |-> id,
     depth       |-> depth,
     cycle       |-> 0,       \* the last cycle_advanced
     births      |-> {},      \* spore_emission with its genesis_attested
     overrides   |-> {},      \* depth_override_exercised
     alarm       |-> FALSE,   \* some immune:* node exists
     quarantine  |-> "none",  \* birth_period_quarantine_entered, _lifted
     closure     |-> "none",  \* birth_closure_pending, _complete
     axes        |-> {},      \* axis_registered after birth
     successors  |-> <<>>,    \* successor_chain_updated, in order
     family      |-> <<>>,    \* the cultivation family, in order
     retirable   |-> FALSE,   \* a bet_retired_proposal
     mortal      |-> FALSE,   \* a self_euthanasia_proposal
     died        |-> Alive]   \* the cycle of self_euthanasia_executed

Mint(parent, e) == Append(parent, e.ts)

Ancestor == Genesis(<<>>, 0)

\* An ancestor written by a version that still emitted cultivation_orphaned and
\* bet_retired_proposal.
Orphan == [Ancestor EXCEPT !.family = <<"orphaned">>, !.retirable = TRUE]

\* The DAG a parent builds for its child: genesis one generation deeper, closure
\* pending, quarantined when the parent holds any immune signal.
ChildOf(p, e) ==
    [Genesis(Mint(p.id, e), p.depth + 1) EXCEPT
        !.closure = "pending", !.quarantine = IF p.alarm THEN "entered" ELSE "none"]

\* current_cultivation_state: the latest event wins, and a seal is final.
Transition(state, event) ==
    CASE state = "archived" -> "archived"
      [] event = "retired"   -> "archived"
      [] event = "recovered" -> "recovered"
      [] event = "orphaned"  -> "orphaned"
      [] OTHER               -> "normal"

CultivationState(d) == FoldLeft(Transition, "normal", d.family)

\* is_in_birth_period_quarantine; a child enters quarantine at cycle 0.
Quarantined_OneShort(d) == d.quarantine = "entered" /\ d.cycle + 1 < QuarantineCycles
Quarantined(d) == d.quarantine = "entered" /\ d.cycle < QuarantineCycles

-----------------------------------------------------------------------------
(* Processes, saves and faults. *)

Running(s) == mem[s].born
Archived(s) == cultivation[s] = "archived"

Fault(n) == faults + n <= MaxFaults /\ faults' = faults + n

\* The handler leaves d in memory; the dispatch arm then saves, which may fail.
Save(s, d, saved) ==
    /\ mem' = [mem EXCEPT ![s] = d]
    /\ file' = IF saved THEN [file EXCEPT ![s] = d] ELSE file
    /\ Fault(IF saved THEN 0 ELSE 1)

\* The handler ends with an error: nothing is saved.
Keep(s, d) == mem' = [mem EXCEPT ![s] = d] /\ UNCHANGED <<file, faults>>

\* emit_substrate_event refreshes the memoized state after a family event.
Refreshed(s, d) == [cultivation EXCEPT ![s] = CultivationState(d)]

\* emit_immune_sporocarp, without its rate limit: a node of the class exists.
Alarmed(d) == [d EXCEPT !.alarm = TRUE]

EndProcess(s) ==
    /\ mem' = [mem EXCEPT ![s] = NoDag]
    /\ cultivation' = [cultivation EXCEPT ![s] = "normal"]
    /\ chain' = [chain EXCEPT ![s] = <<>>]

-----------------------------------------------------------------------------
(* Boot. *)

LifeInit ==
    /\ \E first \in {NoDag, Orphan} :
          file = [s \in Dirs |-> IF s = Root THEN first ELSE NoDag]
    /\ mem = [s \in Dirs |-> NoDag]
    /\ cultivation = [s \in Dirs |-> "normal"]
    /\ chain = [s \in Dirs |-> <<>>]
    /\ faults = 0

\* The boot self-check closes a pending birth; a failed check is an alarm.
Closed(d, healthy) ==
    LET checked == IF healthy THEN d ELSE Alarmed(d)
    IN  IF d.closure = "pending" THEN [checked EXCEPT !.closure = "complete"] ELSE checked

\* The DAG file is loaded, or the genesis of a fresh directory written, and the
\* caches are derived from it.
Loaded(s) == IF file[s].born THEN file[s] ELSE Ancestor

Boot(s, healthy, saved) ==
    /\ ~Running(s) /\ Cardinality({t \in Dirs : Running(t)}) < MaxRunning
    /\ s = Root \/ file[s].born
    /\ mem' = [mem EXCEPT ![s] = Closed(Loaded(s), healthy)]
    /\ file' = IF saved THEN [file EXCEPT ![s] = mem'[s]] ELSE file
    /\ Fault((IF saved THEN 0 ELSE 1) + IF healthy THEN 0 ELSE 1)
    /\ cultivation' = [cultivation EXCEPT ![s] = CultivationState(Loaded(s))]
    /\ chain' = [chain EXCEPT ![s] = Loaded(s).successors]

\* SHUTDOWN or the end of input: the DAG is saved once more, best-effort.
Shutdown(s, saved) ==
    /\ Running(s)
    /\ EndProcess(s)
    /\ file' = IF saved THEN [file EXCEPT ![s] = mem[s]] ELSE file
    /\ Fault(IF saved THEN 0 ELSE 1)

Crash(s) ==
    /\ Running(s)
    /\ EndProcess(s)
    /\ Fault(1)
    /\ UNCHANGED file

-----------------------------------------------------------------------------
(* Metabolism: a cycle and what it may fruit. *)

\* ADVANCE or a tick; a mortality axis that crosses its threshold proposes death.
Advance(s, fruits, saved) ==
    /\ Running(s) /\ ~Archived(s) /\ mem[s].cycle < MaxCycle
    /\ Save(s, [mem[s] EXCEPT !.cycle = @ + 1, !.mortal = @ \/ fruits], saved)
    /\ UNCHANGED <<cultivation, chain>>

\* REGISTER_AXIS.  quarantine_block raises C34 and leaves it unsaved.
RegisterAxis(s, a, saved) ==
    /\ Running(s) /\ a \notin mem[s].axes
    /\ ~Quarantined(mem[s])
    /\ Save(s, [mem[s] EXCEPT !.axes = @ \cup {a}], saved)
    /\ UNCHANGED <<cultivation, chain>>

QuarantineBlocks(s) ==
    /\ Running(s) /\ Quarantined(mem[s])
    /\ Keep(s, Alarmed(mem[s]))
    /\ UNCHANGED <<cultivation, chain>>

\* LIFT_BIRTH_PERIOD_QUARANTINE, also of a quarantine that has expired.
LiftQuarantine(s, saved) ==
    /\ Running(s) /\ mem[s].quarantine = "entered"
    /\ Save(s, [mem[s] EXCEPT !.quarantine = "lifted"], saved)
    /\ UNCHANGED <<cultivation, chain>>

-----------------------------------------------------------------------------
(* SPROUT_CHILD. *)

Anchors(d) == {b.anchor : b \in d.births}

\* verify_spawn_co_attestation: the structure of the envelope (its decoding, its
\* parent id, its spore schema), then the rate throttle of section 16.B.
Attested_AnyAnchor(d, e) == e.sound /\ \A t \in Anchors(d) : e.anchor > t
Attested(d, e) ==
    /\ e.sound
    /\ \A t \in Anchors(d) : e.anchor > t /\ e.anchor - t >= MinInterval

TooDeep(d) == d.depth + 1 > DepthMax

WithinQuota(d) == Cardinality(d.births) + 1 <= Quota

\* An override is recorded as soon as the depth gate lets it pass.
Overridden(d, e) ==
    IF TooDeep(d) THEN [d EXCEPT !.overrides = @ \cup {Mint(d.id, e)}] ELSE d

PassesDepth(d, e) == TooDeep(d) => e.override

Admitted(d, e) == Attested(d, e) /\ PassesDepth(d, e) /\ WithinQuota(d)

\* A gate refuses: C68, C47 or C48, which the handler saves itself.
SproutRefused(s, e, saved) ==
    LET d == mem[s]
        seen == IF Attested(d, e) /\ PassesDepth(d, e) THEN Overridden(d, e) ELSE d
    IN  /\ Running(s) /\ ~Admitted(d, e)
        /\ Save(s, Alarmed(seen), saved)
        /\ UNCHANGED <<cultivation, chain>>

\* Past the gates: the directory already holds a substrate, or Python does not
\* answer, or the child's file cannot be written.
SproutFails(s, e) ==
    /\ Running(s) /\ Admitted(mem[s], e)
    /\ Keep(s, Overridden(mem[s], e))
    /\ UNCHANGED <<cultivation, chain>>

\* spore_emission and genesis_attested.
Recorded_NoAttestation(d, e) == Overridden(d, e)
Recorded(d, e) ==
    [Overridden(d, e) EXCEPT
        !.births = @ \cup {[child |-> Mint(d.id, e), anchor |-> e.anchor]}]

\* The child's file is written; then the birth is recorded and the parent saved.
Sprout(s, e, c, saved) ==
    /\ Running(s) /\ Admitted(mem[s], e)
    /\ c # s /\ ~file[c].born
    /\ mem' = [mem EXCEPT ![s] = Recorded(mem[s], e)]
    /\ file' = [file EXCEPT ![c] = ChildOf(Overridden(mem[s], e), e),
                            ![s] = IF saved THEN Recorded(mem[s], e) ELSE @]
    /\ Fault(IF saved THEN 0 ELSE 1)
    /\ UNCHANGED <<cultivation, chain>>

\* The parent is killed between the two files.
SproutCrashes(s, e, c) ==
    /\ Running(s) /\ Admitted(mem[s], e)
    /\ c # s /\ ~file[c].born
    /\ file' = [file EXCEPT ![c] = ChildOf(Overridden(mem[s], e), e)]
    /\ EndProcess(s)
    /\ Fault(1)

-----------------------------------------------------------------------------
(* Succession, archival and death. *)

\* handle_update_successor_chain reads the cached chain.
Follows_AnyStart(entries, i) ==
    entries # <<>> => Last(entries).until # Open /\ i.from > Last(entries).from
Follows(entries, i) ==
    /\ entries # <<>> =>
          /\ i.from > Last(entries).from
          /\ Last(entries).until # Open
          /\ Last(entries).until <= i.from
    /\ i.until # Open => i.until > i.from

UpdateSuccessorChain(s, i, saved) ==
    /\ Running(s) /\ Follows(chain[s], i)
    /\ Save(s, [mem[s] EXCEPT !.successors = Append(@, i)], saved)
    /\ chain' = [chain EXCEPT ![s] = Append(@, i)]
    /\ UNCHANGED cultivation

\* ACCEPT_SUCCESSION with enough catechumenate sessions.  Only the effect on the
\* derived state is kept: a second completion would change nothing.
AcceptSuccession(s, saved) ==
    /\ Running(s) /\ ~Contains(mem[s].family, "completed")
    /\ LET d == [mem[s] EXCEPT !.family = Append(@, "completed")]
       IN  Save(s, d, saved) /\ cultivation' = Refreshed(s, d)
    /\ UNCHANGED chain

\* catechumenate_below_min: C46, left unsaved.
SuccessionBypass(s) ==
    /\ Running(s)
    /\ Keep(s, Alarmed(mem[s]))
    /\ UNCHANGED <<cultivation, chain>>

\* ACCEPT_BET_RETIRED_PROPOSAL names a proposal of the DAG; once the seal is saved
\* the main loop ends.  A failed save leaves the process running, archived.
RetireBet(s) ==
    /\ Running(s) /\ mem[s].retirable /\ ~Archived(s)
    /\ file' = [file EXCEPT ![s] = [mem[s] EXCEPT !.family = Append(@, "retired")]]
    /\ EndProcess(s)
    /\ UNCHANGED faults

RetireBetUnsaved(s) ==
    /\ Running(s) /\ mem[s].retirable /\ ~Archived(s)
    /\ LET d == [mem[s] EXCEPT !.family = Append(@, "retired")]
       IN  Save(s, d, FALSE) /\ cultivation' = Refreshed(s, d)
    /\ UNCHANGED chain

\* ACCEPT_SELF_EUTHANASIA_PROPOSAL, the same way; the first acceptance counts.
Died(d) == IF d.died = Alive THEN [d EXCEPT !.died = d.cycle] ELSE d

Euthanize(s) ==
    /\ Running(s) /\ mem[s].mortal
    /\ file' = [file EXCEPT ![s] = Died(mem[s])]
    /\ EndProcess(s)
    /\ UNCHANGED faults

EuthanizeUnsaved(s) ==
    /\ Running(s) /\ mem[s].mortal /\ mem[s].died = Alive
    /\ Save(s, Died(mem[s]), FALSE)
    /\ UNCHANGED <<cultivation, chain>>

-----------------------------------------------------------------------------

Spawns(s, saved) ==
    \E e \in Envelopes :
        \/ SproutRefused(s, e, saved)
        \/ SproutFails(s, e)
        \/ \E c \in Dirs : Sprout(s, e, c, saved) \/ SproutCrashes(s, e, c)

EndsOfLife(s, saved) ==
    \/ \E i \in Intervals : UpdateSuccessorChain(s, i, saved)
    \/ AcceptSuccession(s, saved)
    \/ SuccessionBypass(s)
    \/ RetireBet(s) \/ RetireBetUnsaved(s)
    \/ Euthanize(s) \/ EuthanizeUnsaved(s)

\* The bound on the run.
EventsIn(d) ==
    IF ~d.born THEN 0
    ELSE d.cycle + Cardinality(d.births) + Cardinality(d.axes) + Len(d.successors)
         + Len(d.family) + Cardinality({f \in {"alarm", "mortal"} : d[f]})
         + IF d.died = Alive THEN 0 ELSE 1

WithinBound ==
    MapThenSumSet(LAMBDA s : EventsIn(IF Running(s) THEN mem[s] ELSE file[s]), Dirs)
        <= MaxEvents

LifeNext ==
    \E s \in Dirs, saved \in BOOLEAN :
        \/ \E fruits \in {FALSE, (s \in Elders)} : Advance(s, fruits, saved)
        \/ \E a \in Axes : RegisterAxis(s, a, saved)
        \/ QuarantineBlocks(s)
        \/ LiftQuarantine(s, saved)
        \/ Spawns(s, saved)
        \/ s \in Elders /\ EndsOfLife(s, saved)

StartsAndEnds ==
    \E s \in Dirs, saved \in BOOLEAN :
        \/ \E healthy \in BOOLEAN : Boot(s, healthy, saved)
        \/ Shutdown(s, saved)
        \/ Crash(s)

LifeStep == StartsAndEnds \/ (LifeNext /\ WithinBound')

LifeSpec == LifeInit /\ [][LifeStep]_vars

-----------------------------------------------------------------------------
(* What the lineage promises. *)

Dags == {d \in {file[s] : s \in Dirs} \cup {mem[s] : s \in Dirs} : d.born}

DagType ==
    [born : {TRUE}, id : Seq(Nat), depth : Nat, cycle : 0 .. MaxCycle,
     births : SUBSET [child : Seq(Nat), anchor : Nat],
     overrides : SUBSET Seq(Nat), alarm : BOOLEAN,
     quarantine : {"none", "entered", "lifted"},
     closure : {"none", "pending", "complete"},
     axes : SUBSET Axes, successors : Seq(Intervals),
     family : Seq({"orphaned", "recovered", "completed", "retired"}),
     retirable : BOOLEAN, mortal : BOOLEAN,
     died : {Alive} \cup (0 .. MaxCycle)]

\* Every DAG, cache and bound has its type.
LifeTypeOK ==
    /\ DOMAIN file = Dirs /\ DOMAIN mem = Dirs
    /\ \A d \in Dags : d \in DagType
    /\ cultivation \in [Dirs -> {"normal", "orphaned", "recovered", "archived"}]
    /\ chain \in [Dirs -> Seq(Intervals)]
    /\ faults \in 0 .. MaxFaults

\* In every DAG, over all the restarts behind it, the births are at least the
\* minimal interval apart and no more than the quota (reproduction.rs, C48).
BirthsAreSpaced ==
    \A d \in Dags :
        /\ Cardinality(d.births) <= Quota
        /\ \A b, c \in d.births :
              b = c \/ b.anchor - c.anchor >= MinInterval \/ c.anchor - b.anchor >= MinInterval

\* A substrate on disk whose parent's file does not know it.
Unrecorded ==
    {c \in Dirs : /\ file[c].born /\ Len(file[c].id) > 0
                  /\ \A p \in Dirs : file[p].born =>
                        file[c].id \notin {b.child : b \in file[p].births}}

\* Each child the parent's file has lost cost a crash or a failed save of its own:
\* the two files drift apart by no other way (reproduction.rs writes the child first).
ChildrenAreRecorded == Cardinality(Unrecorded) <= faults

\* The intervals of the successors are in order and disjoint in every DAG, and the
\* chain in memory is the one the process's DAG holds (cultivation.rs).
SuccessionIsSerial ==
    /\ \A d \in Dags : \A i, j \in DOMAIN d.successors :
          i < j => /\ d.successors[i].until # Open
                   /\ d.successors[i].until <= d.successors[j].from
    /\ \A s \in Dirs : Running(s) =>
          /\ chain[s] = mem[s].successors
          /\ cultivation[s] = CultivationState(mem[s])

\* A substrate quarantined at birth has registered no axis before the quarantine
\* ran out or was lifted, through every restart (lifecycle.rs, C34).
GrownAfterQuarantine ==
    \A d \in Dags :
        d.quarantine = "entered" /\ d.axes # {} => d.cycle >= QuarantineCycles

\* The doc of the spawn envelope: a replayed one cannot mint a second child.
EnvelopeMintsOneChild ==
    \A s, t \in Dirs :
        file[s].born /\ file[t].born /\ file[s].id = file[t].id => s = t

\* P07 section 5.10: no cycle after whole-death has been accepted.
DeadStaysDead == \A d \in Dags : d.died # Alive => d.cycle = d.died
=============================================================================
