---------------------------- MODULE Observatory ----------------------------
(***************************************************************************)
(* What the substrate notices about itself at the end of every metabolic   *)
(* cycle (src/substrate/src/observatory.rs) and how it says so.            *)
(*                                                                         *)
(* append_observatory_snapshot_to_state runs after each cycle_advanced, in *)
(* one fixed order: record a snapshot, compare the cycle's costs with the  *)
(* budgets and step the saturation machine (P11.c), grade the alignment    *)
(* with the owner's objective (P14.c), look for a neglectful cultivator    *)
(* (C75) and for sycophancy (C71).  The operator's observatory query adds  *)
(* the doctrine burst (C37) and the weakening bet (C40).  Every detector   *)
(* has a memory of its own: counters, cooldowns and the one-second immune  *)
(* limiter live in the process and are gone after a restart, while the     *)
(* events they have emitted stay in the DAG.                               *)
(*                                                                         *)
(* A pipeline step is an operator from one "live" record to the next, so   *)
(* that a cycle is the composition of its steps in the order of the code.  *)
(* Costs and cosines are data: what matters of a cycle is which axes are   *)
(* over budget, the grade of the cosine, and how much time it took.        *)
(***************************************************************************)
EXTENDS Integers, Sequences, FiniteSets, SequencesExt

CONSTANTS
    Axes,              \* cost axes: compute, network, storage
    Floor,             \* pre_eligibility_cycle_floor
    Sustained,         \* sustained_saturation_cycle_threshold
    Mortality,         \* sustained_saturation_mortality_cycle_threshold
    RefusalAfter,      \* P02_REFUSAL_SUSTAINED_CYCLES
    ExhaustedCooldown, \* BUDGET_EXHAUSTED_COOLDOWN_CYCLES
    SilentWindow,      \* C53_CHECK_WINDOW_CYCLES
    Cooldown,          \* M25_DETECTOR_COOLDOWN_CYCLES
    StrainDebounce,    \* C75_FIDUCIARY_STRAIN_DEBOUNCE_CYCLES
    StrainWindow,      \* C75_FIDUCIARY_STRAIN_WINDOW_UNIX_NS, in days
    BurstWindow,       \* M25_1_DOCTRINE_BURST_WINDOW_UNIX_NS, in days
    BurstThreshold,    \* M25_1_DOCTRINE_BURST_THRESHOLD
    HistoryCap,        \* OBSERVATORY_HISTORY_CAP
    MinHistory,        \* M25_2_MIN_HISTORY_LEN_FOR_TRENDS
    DissentWindow,     \* CHAR07_DISAGREEMENT_WINDOW_CYCLES
    InteractionFloor,  \* C71_SYCOPHANCY_INTERACTION_FLOOR
    PendingEvery,      \* cycles between two telos_alignment_pending
    BirthExpires,      \* the cycle at which the birth quarantine expires
    SnapshotEvery,     \* SNAPSHOT_EVERY_K_CYCLES
    IdleSpan,          \* the length of a batch of idle self-driven cycles
    Weather,           \* the cycles considered: [over, grade, days, lapse]
    Pauses,            \* the days that may pass between two requests or cycles
    MaxCycle,          \* bound on the cycle counter
    MaxOps             \* bound on the operator's requests, pauses, idle batches and restarts

\* CostAccumulator and MetabolicBudgets: which axes a cycle's costs put over budget.
Costs == SUBSET Axes

\* telos_grade_for_cosine.
Grades == {"none", "aligned", "low", "drift_elevated", "critical"}
Stages == {"normal", "pre_eligibility", "post_eligibility", "saturated"}
Detectors == {"C53", "C24", "C75", "C37", "C40", "C14"}

(* `lapse`: at least a second of the limiter's monotonic clock has passed. *)
ASSUME ObservatoryAssumption ==
    /\ IsFiniteSet(Axes)
    /\ {Floor, Sustained, Mortality, RefusalAfter, ExhaustedCooldown} \subseteq Nat \ {0}
    /\ Cooldown \in Nat \ {0} /\ {MaxCycle, IdleSpan} \subseteq Nat
    /\ {SilentWindow, StrainWindow} \subseteq Nat /\ ExhaustedCooldown <= SilentWindow
    /\ Weather \subseteq [over : Costs, grade : Grades, days : Nat, lapse : BOOLEAN]
    /\ Pauses \subseteq Nat

VARIABLES
    cycle,    \* manifest cycle counter; saved with every cycle
    now,      \* wall clock, in days
    mute,     \* MYCO_TEST_SUPPRESS_BUDGET_EXHAUSTED_EMIT: the emission path is broken
    dag,      \* the events the detectors read, in insertion order
    durable,  \* how many of them are in dag.cb
    body,     \* the detectors' memory in ServerState
    history,  \* observatory_history: [at_cycle, at]
    cached,   \* observatory_history in the last snapshot.cb
    past,     \* for the properties: the weather of this boot's cycles
    heard,    \* for the properties: detections of this boot, per detector
    born,     \* for the properties: the length of the DAG when this boot began
    acted,    \* for the properties: when the cultivator last acted
    ops       \* requests, pauses, idle batches and restarts so far

vars == <<cycle, now, mute, dag, durable, body, history, cached, past, heard, born, acted, ops>>

-----------------------------------------------------------------------------
(* The live state that the steps transform. *)

Never == -1

\* What ServerState::new gives the detectors: nothing is remembered.
FreshBody ==
    [stage |-> "normal",          \* saturation_stage
     exhausted |-> 0,             \* consecutive_budget_exhausted_cycles
     post |-> 0,                  \* post_eligibility_consecutive_cycles
     saturated |-> 0,             \* saturated_consecutive_cycles
     proposed |-> FALSE,          \* last_saturation_mortality_proposal_at_cycle is set
     axisAt |-> [a \in Axes |-> Never],  \* last_budget_exhausted_per_axis
     telosAt |-> Never, strainAt |-> Never, sycoAt |-> Never,
     burstAt |-> Never, quorumAt |-> Never,
     open |-> {},                 \* detectors whose limiter window is open
     hidden |-> [d \in Detectors |-> 0]] \* suppressed since the last emission

Live == [dag |-> dag, body |-> body, heard |-> heard,
         cycle |-> cycle, now |-> now]

Due(last, c, gap) == last = Never \/ c - last >= gap

Event(s, kind, of) ==
    [kind |-> kind, of |-> of, cycle |-> s.cycle, hidden |-> 0]

Emit(s, kind, of) == [s EXCEPT !.dag = Append(@, Event(s, kind, of))]
EmitIf(cond, s, kind, of) == IF cond THEN Emit(s, kind, of) ELSE s

\* Detections while the limiter's window is open are counted only.
Suppress(s, d, n) == [s EXCEPT !.heard[d] = @ + n, !.body.hidden[d] = @ + n]

\* The detection that opens it is an event, which carries the count.
Raise(s, d) ==
    LET e == [Event(s, "immune", d) EXCEPT !.hidden = s.body.hidden[d]]
    IN  [s EXCEPT !.heard[d] = @ + 1, !.dag = Append(@, e),
                  !.body.open = @ \cup {d}, !.body.hidden[d] = 0]

\* A limiter that forgets what it hid.
DetectForgetful(s, d) ==
    IF d \in s.body.open THEN [s EXCEPT !.heard[d] = @ + 1] ELSE Raise(s, d)

\* One immune event per detector and second.
Detect(s, d) == IF d \in s.body.open THEN Suppress(s, d, 1) ELSE Raise(s, d)

Since(d, kinds, first) == {i \in DOMAIN d : d[i].kind \in kinds /\ d[i].cycle >= first}

-----------------------------------------------------------------------------
(* P11.c: costs, saturation, refusal. *)

\* The stage after a cycle: p11c_advance_stage.
Stage(b, c, over) ==
    CASE over = {} -> "normal"
      [] over # {} /\ c < Floor -> "pre_eligibility"
      [] over # {} /\ c >= Floor /\ b.post + 1 < Sustained -> "post_eligibility"
      [] over # {} /\ c >= Floor /\ b.post + 1 >= Sustained -> "saturated"

\* The counters that stay when a single cycle is within budget.
CountSticky(b, stage, over) ==
    [b EXCEPT !.stage = stage,
              !.exhausted = IF over = {} THEN @ ELSE @ + 1,
              !.post = IF stage \in {"post_eligibility", "saturated"} THEN @ + 1 ELSE @,
              !.saturated = IF stage = "saturated" THEN @ + 1 ELSE 0,
              !.proposed = @ /\ stage # "normal"]

Count(b, stage, over) ==
    [b EXCEPT !.stage = stage,
              !.exhausted = IF over = {} THEN 0 ELSE @ + 1,
              !.post = IF stage \in {"post_eligibility", "saturated"} THEN @ + 1 ELSE 0,
              !.saturated = IF stage = "saturated" THEN @ + 1 ELSE 0,
              !.proposed = @ /\ stage # "normal"]

\* The transition events, and the death proposal of a long saturation.
Transition(s, over) ==
    LET old == s.body.stage
        new == Stage(s.body, s.cycle, over)
        s1 == [s EXCEPT !.body = Count(@, new, over)]
        s2 == EmitIf(new = "saturated" /\ old # new, s1, "substrate_saturated", "none")
    IN  EmitIf(new = "normal" /\ old # new, s2, "substrate_normal_restored", "none")

\* Proposing in every saturated cycle.
EscalateAlways(s) ==
    IF s.body.stage = "saturated" /\ s.body.saturated >= Mortality
    THEN [Emit(s, "self_euthanasia_proposal", "metabolic_saturation") EXCEPT !.body.proposed = TRUE]
    ELSE s

Escalate(s) ==
    IF s.body.stage = "saturated" /\ s.body.saturated >= Mortality /\ ~s.body.proposed
    THEN [Emit(s, "self_euthanasia_proposal", "metabolic_saturation") EXCEPT !.body.proposed = TRUE]
    ELSE s

\* The axes over budget that have not been reported for a cooldown.
Overdue(s, over) == {a \in over : Due(s.body.axisAt[a], s.cycle, ExhaustedCooldown)}

Reports(s, axes) ==
    LET q == SetToSeq(axes) IN [i \in DOMAIN q |-> Event(s, "budget_exhausted", q[i])]

ReportedAt(s, axes) == [a \in Axes |-> IF a \in axes THEN s.cycle ELSE s.body.axisAt[a]]

\* The cooldown is taken although nothing has been emitted.
ExhaustQuietly(s, over) == [s EXCEPT !.body.axisAt = ReportedAt(s, Overdue(s, over))]

\* budget_exhausted per axis; a broken path neither emits nor remembers.
Exhaust(s, over) ==
    IF mute THEN s
    ELSE [s EXCEPT !.dag = @ \o Reports(s, Overdue(s, over)),
                   !.body.axisAt = ReportedAt(s, Overdue(s, over))]

Silent(s, a) ==
    ~\E i \in DOMAIN s.dag : /\ s.dag[i].kind = "budget_exhausted" /\ s.dag[i].of = a
                             /\ s.dag[i].cycle >= s.cycle - SilentWindow

\* One C53 per silent axis; only the first can find the limiter's window closed.
Accuse(s, silent) ==
    IF silent = {} THEN s ELSE Suppress(Detect(s, "C53"), "C53", Cardinality(silent) - 1)

\* C53 trusting the cache that the emission fills, as it once did.
SilenceCheckOfCache(s, over) ==
    Accuse(s, {a \in over : s.body.axisAt[a] # Never /\ Due(s.body.axisAt[a], s.cycle, SilentWindow)})

\* C53 asks the DAG whether the axes over budget have been reported.
SilenceCheck(s, over) == Accuse(s, {a \in over : Silent(s, a)})

\* apply_p11c_and_emit
Metabolise(s, over) ==
    LET s1 == Escalate(Transition(s, over))
        s2 == SilenceCheck(Exhaust(s1, over), over)
    IN  EmitIf(s2.body.stage = "post_eligibility" /\ s.body.stage # "post_eligibility",
               s2, "compression_proposed", "seed_rules")

\* When handle_ingest_raw_material refuses, and the axes it may name.
Refusing == body.stage # "normal" /\ body.exhausted >= RefusalAfter
RefusedAxis == {a \in Axes : /\ body.axisAt[a] # Never
                             /\ \A b \in Axes : body.axisAt[b] <= body.axisAt[a]}

-----------------------------------------------------------------------------
(* P14.c, C75 and C71. *)

Birth(s) == s.cycle < BirthExpires

Named == [low |-> "telos_alignment_low", drift_elevated |-> "telos_drift",
          critical |-> "telos_drift_critical"]

Drifts == {"telos_drift", "telos_drift_critical"}

\* The cycle from which a window of the last `width` days is counted.
WindowStart(s, h, width) ==
    LET inside == {i \in DOMAIN h : h[i].at >= s.now - width}
        first == CHOOSE i \in inside : \A j \in inside : i <= j
    IN  IF h = <<>> \/ 1 \in inside THEN 0
        ELSE IF inside = {} THEN s.cycle + 1 ELSE h[first].cycle

\* C75 without looking for the cultivator's acts.
StrainDespiteActs(s, h) ==
    LET start == WindowStart(s, h, StrainWindow)
        drift == Since(s.dag, Drifts, start)
        span == CHOOSE n \in 0 .. s.cycle :
                   /\ \E i, j \in drift : s.dag[j].cycle - s.dag[i].cycle = n
                   /\ \A i, j \in drift : s.dag[j].cycle - s.dag[i].cycle <= n
    IN  ~Birth(s) /\ Cardinality(drift) >= 2 /\ span >= (s.cycle - start) \div 2

\* C75: persistent drift, and no fiduciary act of the cultivator, in the window.
Strain(s, h) ==
    LET start == WindowStart(s, h, StrainWindow)
        drift == Since(s.dag, Drifts, start)
        span == CHOOSE n \in 0 .. s.cycle :
                   /\ \E i, j \in drift : s.dag[j].cycle - s.dag[i].cycle = n
                   /\ \A i, j \in drift : s.dag[j].cycle - s.dag[i].cycle <= n
    IN  /\ ~Birth(s) /\ Since(s.dag, {"act"}, start) = {}
        /\ Cardinality(drift) >= 2 /\ span >= (s.cycle - start) \div 2

\* apply_c75_cultivator_fiduciary_strain
Witness(s, h) ==
    IF Strain(s, h) /\ Due(s.body.strainAt, s.cycle, StrainDebounce)
    THEN [Detect(s, "C75") EXCEPT !.body.strainAt = s.cycle]
    ELSE s

\* A cooldown that starts again at every drifting cycle.
GradeRearmed(s, g) ==
    IF g = "aligned" THEN s
    ELSE IF ~Due(s.body.telosAt, s.cycle, Cooldown) THEN [s EXCEPT !.body.telosAt = s.cycle]
    ELSE LET s1 == Emit(s, Named[g], "none")
             s2 == IF g = "critical" THEN Detect(s1, "C24") ELSE s1
         IN  [s2 EXCEPT !.body.telosAt = s.cycle]

\* The event of a grade; the grades share one cooldown.
Grade(s, g) ==
    IF g = "aligned" \/ ~Due(s.body.telosAt, s.cycle, Cooldown) THEN s
    ELSE LET s1 == Emit(s, Named[g], "none")
             s2 == IF g = "critical" THEN Detect(s1, "C24") ELSE s1
         IN  [s2 EXCEPT !.body.telosAt = s.cycle]

\* apply_p14c_telos_drift: without a cosine there is no grade and no C75.
Align(s, g, h) ==
    IF g = "none" THEN EmitIf(s.cycle % PendingEvery = 0, s, "telos_alignment_pending", "none")
    ELSE Witness(Grade(s, g), h)

\* What counts as not just complying (CHAR07 8.4).
IsDissent(e) == \/ e.kind \in Drifts \cup {"telos_alignment_low", "self_euthanasia_proposal"}
                \/ e.kind = "immune" /\ e.of = "C14"

Dissent(s) == {i \in DOMAIN s.dag : IsDissent(s.dag[i]) /\ s.dag[i].cycle >= s.cycle - DissentWindow}

\* apply_char07_sycophancy_and_emit, given the disagreement counted before the
\* other steps ran.
Flatter(s, dissent) ==
    IF /\ s.cycle >= DissentWindow /\ dissent = {} /\ Due(s.body.sycoAt, s.cycle, Cooldown)
       /\ Cardinality(Since(s.dag, {"raw_material"}, s.cycle - DissentWindow)) >= InteractionFloor
    THEN [Emit(s, "sycophancy_indicator_elevated", "none") EXCEPT !.body.sycoAt = s.cycle]
    ELSE s

\* The rolling history, its oldest entry dropped at the cap.
Record(s) ==
    LET h == Append(history, [cycle |-> s.cycle, at |-> s.now])
    IN  IF Len(h) > HistoryCap THEN Tail(h) ELSE h

\* append_observatory_snapshot_to_state, after the counter has moved.
Observe(s, w) == Flatter(Align(Metabolise(s, w.over), w.grade, Record(s)), Dissent(s))

-----------------------------------------------------------------------------
Init ==
    /\ cycle = 0 /\ now = 0 /\ mute \in BOOLEAN
    /\ dag = <<>> /\ durable = 0 /\ body = FreshBody
    /\ history = <<>> /\ cached = <<>>
    /\ past = <<>> /\ heard = [d \in Detectors |-> 0]
    /\ born = 0 /\ acted = Never /\ ops = 0

\* The live record after `days` have gone by.
Later(w) == [Live EXCEPT !.now = @ + w.days, !.body.open = IF w.lapse THEN {} ELSE @]

Become(s) == dag' = s.dag /\ body' = s.body /\ heard' = s.heard

\* A real cycle: counter, snapshot, detectors, then the saves.
Cycle ==
    \E w \in Weather :
        /\ cycle < MaxCycle
        /\ cycle' = cycle + 1
        /\ now' = now + w.days
        /\ LET s == [Later(w) EXCEPT !.cycle = @ + 1]
           IN  /\ Become(Observe(s, w))
               /\ history' = Record(s)
               /\ durable' = Len(dag')
        /\ cached' = IF cycle' % SnapshotEvery = 0 THEN history' ELSE cached
        /\ past' = Append(past, [over |-> w.over, grade |-> w.grade, cycle |-> cycle'])
        /\ UNCHANGED <<mute, born, acted, ops>>

\* Time passes between two handlers, a second at least: the windows of the
\* limiter have lapsed, and what comes next is dated later than the cycle
\* before it although it carries that cycle's number.
Pause ==
    \E days \in Pauses :
        /\ ops < MaxOps
        /\ now' = now + days
        /\ body' = [body EXCEPT !.open = {}]
        /\ ops' = ops + 1
        /\ UNCHANGED <<cycle, mute, dag, durable, history, cached, past, heard, born, acted>>

\* A batch of idle self-driven cycles moves the counter and nothing else: no
\* snapshot is recorded and no detector runs.
Idle ==
    /\ cycle + IdleSpan <= MaxCycle /\ ops < MaxOps
    /\ Since(dag, {"ci"}, 0) = {}  \* no axis has ever been registered
    /\ cycle' = cycle + IdleSpan
    /\ durable' = Len(dag)
    /\ ops' = ops + 1
    /\ UNCHANGED <<now, mute, dag, body, history, cached, past, heard, born, acted>>

\* Requests that leave an event the detectors read: an ingestion unless it is
\* refused, an axis registration or evolution (CI), an act of the cultivator.
Request ==
    \E kind \in {"raw_material", "ci", "act"} :
        /\ ops < MaxOps /\ (kind = "raw_material" => ~Refusing)
        /\ Become(Emit(Live, kind, "none"))
        /\ durable' = Len(dag')
        /\ acted' = IF kind = "act" THEN now ELSE acted
        /\ ops' = ops + 1
        /\ UNCHANGED <<cycle, now, mute, history, cached, past, born>>

\* An operator mutation that is refused and reported (C14).
Breach ==
    /\ ops < MaxOps
    /\ Become(Detect(Live, "C14"))
    /\ durable' = Len(dag')
    /\ ops' = ops + 1
    /\ UNCHANGED <<cycle, now, mute, history, cached, past, born, acted>>

\* The doctrine burst of a query (C37).
Burst(s) ==
    IF /\ Cardinality(Since(s.dag, {"ci"}, WindowStart(s, history, BurstWindow))) > BurstThreshold
       /\ Due(s.body.burstAt, s.cycle, Cooldown)
    THEN [Detect(s, "C37") EXCEPT !.body.burstAt = s.cycle]
    ELSE s

\* The weakening bet of a query (C40): suspended in the birth period, when a
\* marker takes the same cooldown.  `weak` is the verdict.
Weaken(s, weak) ==
    IF Len(history) < MinHistory \/ ~Due(s.body.quorumAt, s.cycle, Cooldown) THEN s
    ELSE IF Birth(s)
    THEN [Emit(s, "bet_weakening_evaluation_suspended", "none") EXCEPT !.body.quorumAt = s.cycle]
    ELSE IF weak
    THEN [Emit(Detect(s, "C40"), "bet_weakening_quorum", "none") EXCEPT !.body.quorumAt = s.cycle]
    ELSE s

\* Whether the trends weaken: three signals fall and the ratio is below one for
\* half the window.
Verdicts == BOOLEAN

\* The observatory query: what it emits is in the DAG but not yet on disk.
Query ==
    \E weak \in Verdicts :
        /\ ops < MaxOps
        /\ Become(Burst(Weaken(Live, weak)))
        /\ ops' = ops + 1
        /\ UNCHANGED <<cycle, now, mute, durable, history, cached, past, born, acted>>

\* The process ends and starts again: the DAG from disk, the history from the
\* last snapshot, the detectors' memory from nothing.
Restart ==
    /\ ops < MaxOps
    /\ dag' = SubSeq(dag, 1, durable)
    /\ body' = FreshBody
    /\ history' = cached
    /\ past' = <<>> /\ heard' = [d \in Detectors |-> 0] /\ born' = durable
    /\ ops' = ops + 1
    /\ UNCHANGED <<cycle, now, mute, durable, cached, acted>>

Next == Cycle \/ Pause \/ Idle \/ Request \/ Breach \/ Query \/ Restart

Spec == Init /\ [][Next]_vars

-----------------------------------------------------------------------------
(* Properties. *)

\* Every variable has its type, and what is on disk is a part of the DAG.
TypeOK ==
    /\ cycle \in 0 .. MaxCycle /\ now \in Nat /\ mute \in BOOLEAN
    /\ dag \in Seq([kind : STRING, of : STRING, cycle : Nat, hidden : Nat])
    /\ born <= durable /\ durable <= Len(dag)
    /\ body.stage \in Stages /\ body.open \subseteq Detectors
    /\ {body.exhausted, body.post, body.saturated} \subseteq Nat
    /\ Len(history) <= HistoryCap /\ Len(cached) <= HistoryCap
    /\ Len(past) <= cycle

\* The last n cycles of this boot were over budget at or past the cycle
\* `from`, and the one before them, if any, was not.
Trailing(n, from) ==
    /\ n <= Len(past)
    /\ \A i \in Len(past) - n + 1 .. Len(past) : past[i].over # {} /\ past[i].cycle >= from
    /\ n < Len(past) => past[Len(past) - n].over = {} \/ past[Len(past) - n].cycle < from

\* The saturation machine counts runs, not totals: its stage and counters are
\* determined by the unbroken run of over-budget cycles that ends now, so a
\* single cycle within budget takes it back to normal and a saturated
\* substrate has been over budget for the whole threshold since it started.
\* p11c_advance_stage and the counters of apply_p11c_and_emit.
StageIsTheRun ==
    /\ Trailing(body.exhausted, 0)
    /\ Trailing(body.post, Floor)
    /\ body.stage = "normal" <=> body.exhausted = 0
    /\ body.stage = "saturated" <=> body.post >= Sustained
    /\ body.saturated = IF body.post >= Sustained THEN body.post - Sustained + 1 ELSE 0

\* An ingestion is refused only with evidence: the axis the refusal names has
\* a budget_exhausted event in the DAG no older than its cooldown at the last
\* real cycle, whatever restarts, idle batches and other axes did in between.
\* handle_ingest_raw_material: "the refusal is verifiable".
RefusalIsVerifiable ==
    Refusing /\ ~mute =>
        /\ RefusedAxis # {}
        /\ \A a \in RefusedAxis : \E i \in DOMAIN dag :
              /\ dag[i].kind = "budget_exhausted" /\ dag[i].of = a
              /\ dag[i].cycle > past[Len(past)].cycle - ExhaustedCooldown

\* No cost is hidden: when an axis was over budget in the last real cycle, the
\* DAG shows it within the check window or this process has raised C53; and a
\* process whose emission works never raises C53, although the cache that
\* spaces the emissions is lost at every restart.
NoHiddenCost ==
    LET c53 == {i \in DOMAIN dag : i > born /\ dag[i].kind = "immune" /\ dag[i].of = "C53"}
        last == past[Len(past)]
    IN  /\ ~mute => c53 = {}
        /\ past # <<>> => \A a \in last.over :
              \/ c53 # {}
              \/ \E i \in DOMAIN dag : /\ dag[i].kind = "budget_exhausted" /\ dag[i].of = a
                                       /\ dag[i].cycle >= last.cycle - SilentWindow

\* While a process lives, a saturation episode makes at most one proposal of
\* the substrate's own death: between two of them it was back to normal.
\* apply_p11c_and_emit and escalate_saturation_to_p7.  (A restart within the
\* episode forgets the proposal and the run, and proposes again.)
OneProposalPerEpisode ==
    LET Proposals == {i \in DOMAIN dag : i > born /\ dag[i].kind = "self_euthanasia_proposal"}
    IN  \A i, j \in Proposals :
            i < j => \E k \in i .. j : dag[k].kind = "substrate_normal_restored"

\* Critical drift that lasts is raised: when every cycle over a cooldown was
\* graded critical, one of them left telos_drift_critical.  The three grades
\* share one cooldown, so a milder grade just before may delay it, but not
\* past the end of the cooldown.  apply_p14c_telos_drift.
LastingDriftIsRaised ==
    \A i \in DOMAIN past :
        (/\ \A j \in i .. Len(past) : past[j].grade = "critical"
         /\ past[Len(past)].cycle - past[i].cycle >= Cooldown)
        => \E k \in DOMAIN dag : dag[k].kind = "telos_drift_critical" /\ dag[k].cycle >= past[i].cycle

\* How wrongly the cultivator can be accused: an act within the window is
\* overlooked when C75 is raised only if no snapshot that the history still
\* has was taken in the window before the act.  The window is cut at a
\* recorded snapshot, by cycle number, and an act carries the number of the
\* cycle before it: an act after the window's edge but before the first
\* snapshot past the edge is cut off with that cycle.  Restarts and idle
\* batches thin the history and pauses stretch it, so the gap at the edge can
\* be long; an act on the near side of it always counts.
\* apply_c75_cultivator_fiduciary_strain and c75_window_start_cycle.
Accusations(d) == {i \in DOMAIN d : d[i].kind = "immune" /\ d[i].of = "C75"}

\* The history reaches beyond `edge`, and has nothing from there up to t.
InTheGap(h, edge, t) ==
    /\ \E i \in DOMAIN h : h[i].at < edge
    /\ \A i \in DOMAIN h : h[i].at < edge \/ t <= h[i].at

AccusedOnlyOfNeglect ==
    [][Cardinality(Accusations(dag')) > Cardinality(Accusations(dag)) =>
         \/ acted = Never \/ acted < now' - StrainWindow
         \/ InTheGap(history', now' - StrainWindow, acted)]_vars

\* The immune limiter loses nothing while the process lives: the detections of
\* a detector are its events, the suppressed ones those events carry, and the
\* ones it still holds back.  emit_immune_sporocarp.
DetectionsAreAccounted ==
    \A d \in Detectors :
        LET own == {i \in DOMAIN dag : i > born /\ dag[i].kind = "immune" /\ dag[i].of = d}
            carried == UNION {{i} \X (0 .. dag[i].hidden) : i \in own}
        IN  heard[d] = body.hidden[d] + Cardinality(carried)
=============================================================================
