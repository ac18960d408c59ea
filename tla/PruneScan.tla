----------------------------- MODULE PruneScan -----------------------------
(***************************************************************************)
(* Internal mortality (src/substrate/src/prune.rs): every Interval cycles  *)
(* the substrate looks through its own DAG for parts that have outlived    *)
(* their use and buries them.  Nothing is removed; a part is dead when a   *)
(* tombstone names it, and a tombstone may name an heir.  Six rules run in *)
(* a fixed order over one scan context (the parts already dead and the     *)
(* tip, both read when the scan begins).  After the scan C54 is raised if  *)
(* the substrate has been taking in without letting go.                    *)
(*                                                                         *)
(* A node's hash is its place in insertion order.  What the handlers of    *)
(* requests and of the cycle insert is modelled as far as the rules and    *)
(* the recall of plates (src/substrate/src/dag_query.rs) read it.  A rule  *)
(* that looks for parts cut off from the DAG is judged on the parents the  *)
(* handlers choose.                                                        *)
(***************************************************************************)
EXTENDS Integers, Sequences, FiniteSets, SequencesExt

CONSTANTS
    Contents,        \* byte strings to ingest, with their kind
    Axes,            \* names of axes
    Ops,             \* names of schema evolutions
    OrphanGrace,     \* ORPHAN_GRACE_CYCLES
    StaleGrace,      \* STALE_AXIS_GRACE_CYCLES
    ErroneousGrace,  \* ERRONEOUS_GRACE_CYCLES
    RedundantGrace,  \* REDUNDANT_GRACE_CYCLES
    PlateGrace,      \* PLATE_SUPERSEDED_GRACE_CYCLES
    Interval,        \* PRUNE_SCAN_DEEP_CYCLE_INTERVAL
    HoardWindow,     \* HOARDING_INDICATOR_WINDOW_CYCLES
    IngestionFloor,  \* HOARDING_INDICATOR_INGESTION_FLOOR
    HoardCooldown,   \* HOARDING_COOLDOWN_CYCLES
    MaxCycle,        \* bound on the cycle counter
    MaxOps,          \* bound on requests and restarts
    MaxCited         \* bound on what one plate cites or supersedes

ASSUME PruneAssumption ==
    /\ {OrphanGrace, StaleGrace, ErroneousGrace, RedundantGrace, PlateGrace} \subseteq Nat
    /\ Interval \in Nat \ {0} /\ {HoardWindow, IngestionFloor} \subseteq Nat \ {0}
    /\ HoardCooldown \in 0 .. Interval /\ {MaxCycle, MaxOps} \subseteq Nat

VARIABLES
    dag,      \* nodes in insertion order
    cycle,    \* manifest cycle counter
    alarmAt,  \* last_hoarding_indicator_emitted_at_cycle
    spoken,   \* immune_emission_state of C54: the scan it was raised at, while
              \* the limiter's second has not passed
    ops       \* requests and restarts so far

vars == <<dag, cycle, alarmAt, spoken, ops>>

Never == -1
None == 0  \* no part, no heir, no name: places start at 1

-----------------------------------------------------------------------------
(* The DAG. *)

Kind(d, kinds) == {i \in DOMAIN d : d[i].kind \in kinds}

\* Insert a node: its parents are the tip and the parts it speaks of.
Insert(d, kind, name, c, parts) ==
    Append(d, [kind |-> kind, name |-> name, cycle |-> c, supersedes |-> {},
               parents |-> parts \cup (IF d = <<>> THEN {} ELSE {Len(d)}),
               part |-> None, heir |-> None, rule |-> "none"])

Referenced(d) == UNION {d[i].parents : i \in DOMAIN d}

\* The later of two nodes: by cycle, then by insertion.
Latest(d, S) ==
    CHOOSE i \in S : \A j \in S : d[j].cycle < d[i].cycle \/ (d[j].cycle = d[i].cycle /\ j <= i)

Dead(d) == {d[i].part : i \in Kind(d, {"tombstone"})}

\* PROTECTED_PREFIXES: roots of causality and identity, and the tombstones.
Protected == {"genesis", "tombstone"}

Scan(d) == [dead |-> Dead(d), tip |-> Len(d)]

\* Eligible although it is dead already.
EligibleAgain(d, ctx, i) == d[i].kind \notin Protected /\ i # ctx.tip

Eligible(d, ctx, i) == d[i].kind \notin Protected /\ i # ctx.tip /\ i \notin ctx.dead

-----------------------------------------------------------------------------
(* The rules: each gives the parts to bury and their heirs. *)

Doomed(part, heir) == [part |-> part, heir |-> heir]

\* No node names it as a parent and it is past the grace.
Orphans(d, c) ==
    {i \in DOMAIN d : /\ c > OrphanGrace /\ d[i].cycle <= c - OrphanGrace
                      /\ d[i].kind \notin Protected /\ i \notin Referenced(d)}

Orphan(d, ctx, c) == {Doomed(i, None) : i \in Orphans(d, c) \ {ctx.tip}}

Touches(d, name) ==
    {i \in Kind(d, {"axis_registered", "axis_perturbed", "axis_reset"}) : d[i].name = name}

Stale(d, ctx, c) ==
    {Doomed(i, None) : i \in
        {i \in Kind(d, {"axis_registered"}) :
            /\ c > StaleGrace /\ Eligible(d, ctx, i)
            /\ \A j \in Touches(d, d[i].name) : d[j].cycle <= c - StaleGrace}}

Failures(d, op) == {i \in Kind(d, {"evolution_failed"}) : d[i].name = op}

\* Judged by the first failure of the operation instead of the last.
FalsifiedByFirst(d, ctx, c) ==
    {Doomed(i, CHOOSE f \in Failures(d, d[i].name) : TRUE) : i \in
        {i \in Kind(d, {"evolution_succeeded"}) :
            /\ c > ErroneousGrace /\ Eligible(d, ctx, i)
            /\ \E f \in Failures(d, d[i].name) :
                  d[f].cycle > d[i].cycle /\ c - d[f].cycle > ErroneousGrace}}

Falsified(d, ctx, c) ==
    {Doomed(i, Latest(d, Failures(d, d[i].name))) : i \in
        {i \in Kind(d, {"evolution_succeeded"}) :
            /\ c > ErroneousGrace /\ Failures(d, d[i].name) # {} /\ Eligible(d, ctx, i)
            /\ LET f == Latest(d, Failures(d, d[i].name))
               IN  d[f].cycle > d[i].cycle /\ c - d[f].cycle > ErroneousGrace}}

Copies(d, i) ==
    {j \in Kind(d, {"raw_material", "sporocarp"}) : d[j].kind = d[i].kind /\ d[j].name = d[i].name}

\* Every copy with another copy is redundant.
DuplicateOfAny(d, ctx, c) ==
    {Doomed(i, CHOOSE j \in Copies(d, i) : j # i) : i \in
        {i \in Kind(d, {"raw_material", "sporocarp"}) :
            /\ c > RedundantGrace /\ d[i].cycle <= c - RedundantGrace
            /\ Copies(d, i) # {i} /\ Eligible(d, ctx, i)}}

\* The earliest of the copies, in favour of the second.
Duplicate(d, ctx, c) ==
    {Doomed(i, CHOOSE j \in Copies(d, i) \ {i} : \A k \in Copies(d, i) \ {i} : j <= k) : i \in
        {i \in Kind(d, {"raw_material", "sporocarp"}) :
            /\ c > RedundantGrace /\ d[i].cycle <= c - RedundantGrace
            /\ Copies(d, i) # {i} /\ (\A j \in Copies(d, i) : i <= j) /\ Eligible(d, ctx, i)}}

\* Parents are older: one pass from the newest node to the oldest.
Ancestry(d, roots) ==
    LET pass[k \in 0 .. Len(d)] ==
            IF k = 0 THEN roots
            ELSE LET R == pass[k - 1]
                     i == Len(d) + 1 - k
                 IN  IF i \in R THEN R \cup d[i].parents ELSE R
    IN  pass[Len(d)]

\* Referenced, past the grace, and not an ancestor of the live frontier.
Cut(d, c) ==
    LET recent == {i \in DOMAIN d : d[i].cycle > c - OrphanGrace}
        roots == {Len(d)} \cup UNION {d[i].parents : i \in recent}
    IN  (Referenced(d) \ recent) \ Ancestry(d, roots)

Unreachable(d, ctx, c) ==
    {Doomed(i, None) : i \in {i \in Cut(d, c) : c > OrphanGrace /\ Eligible(d, ctx, i)}}

Superseders(d, i) == {j \in Kind(d, {"plate"}) : i \in d[j].supersedes}

Superseded(d, ctx, c) ==
    {Doomed(i, Latest(d, Superseders(d, i))) : i \in
        {i \in Kind(d, {"plate"}) :
            /\ c > PlateGrace /\ Superseders(d, i) # {} /\ Eligible(d, ctx, i)
            /\ LET j == Latest(d, Superseders(d, i))
               IN  d[j].cycle > d[i].cycle /\ c - d[j].cycle > PlateGrace}}

\* PruneRuleRegistry::seed, in the order of registration.
Rules == <<"orphan", "stale", "falsified", "duplicate", "unreachable", "superseded">>

Candidates(rule, d, ctx, c) ==
    CASE rule = "orphan" -> Orphan(d, ctx, c)
      [] rule = "stale" -> Stale(d, ctx, c)
      [] rule = "falsified" -> Falsified(d, ctx, c)
      [] rule = "duplicate" -> Duplicate(d, ctx, c)
      [] rule = "unreachable" -> Unreachable(d, ctx, c)
      [] rule = "superseded" -> Superseded(d, ctx, c)

\* emit_internal_mortality_event: the tombstone names the part as a parent.
Bury(d, rule, doomed, c) ==
    LET t == Insert(d, "tombstone", None, c, {doomed.part})
    IN  [t EXCEPT ![Len(t)].part = doomed.part, ![Len(t)].heir = doomed.heir, ![Len(t)].rule = rule]

\* The candidates of a rule are buried in DAG order.
RunRule(d, rule, doomed, c) ==
    LET upTo[k \in 0 .. Len(d)] ==
            IF k = 0 THEN d
            ELSE LET e == upTo[k - 1]
                     here == {x \in doomed : x.part = k}
                 IN  IF here = {} THEN e ELSE Bury(e, rule, CHOOSE x \in here : TRUE, c)
    IN  upTo[Len(d)]

\* run_prune_scan: one context, every rule.
RunPruneScan(d, c) ==
    LET ctx == Scan(d)
        after[k \in 0 .. Len(Rules)] ==
            IF k = 0 THEN d
            ELSE LET e == after[k - 1]
                 IN  RunRule(e, Rules[k], Candidates(Rules[k], e, ctx, c), c)
    IN  after[Len(Rules)]

-----------------------------------------------------------------------------
(* Hoarding (C54), silent mortality (C55), and the recall of plates. *)

CountSince(d, kind, first) == Cardinality({i \in Kind(d, {kind}) : d[i].cycle >= first})

Hoarding(d, c) ==
    /\ c >= HoardWindow /\ CountSince(d, "raw_material", c - HoardWindow) >= IngestionFloor
    /\ CountSince(d, "tombstone", c - HoardWindow) < 1

\* The cooldown of an interval outlasts the interval.
DueAfter(c) == alarmAt = Never \/ c - alarmAt > HoardCooldown

Due(c) == alarmAt = Never \/ c - alarmAt >= HoardCooldown

\* check_silent_internal_mortality: a part fell off without a tombstone.
Silent(d, c) == (Orphans(d, c) \ {Len(d)}) \ Dead(d)

SoleGenesis(d) == Cardinality(Kind(d, {"genesis"})) <= 1
CyclesMatch(d, c) == Cardinality(Kind(d, {"cycle_advanced"})) \in c - 1 .. c + 1
Derived(d) == Max({0} \cup {d[i].cycle : i \in Kind(d, {"cycle_advanced"})})

\* run_integrity_checks, those that fail.  What a hash or an encoding can get
\* wrong is left out.
Failing(d, c) ==
    {k \in {"cycle_counter_monotonic", "substrate_state_orphan_detected", "silent_internal_mortality",
            "genesis_event_uniqueness", "manifest_cycle_vs_dag_advance_count"} :
        CASE k = "cycle_counter_monotonic" -> \E i \in DOMAIN d : d[i].cycle > c
          [] k = "substrate_state_orphan_detected" -> c # Derived(d)
          [] k = "silent_internal_mortality" -> Silent(d, c) # {}
          [] k = "genesis_event_uniqueness" -> ~SoleGenesis(d)
          [] k = "manifest_cycle_vs_dag_advance_count" -> ~CyclesMatch(d, c)}

\* The results are witnessed once per cycle.
Witnessed(d, c) ==
    IF \E i \in Kind(d, {"invariant_witness"}) : d[i].cycle = c THEN d
    ELSE Insert(d, "invariant_witness", None, c, {})

\* Each failure is raised as an immune event of its own.
Examined(d, c) ==
    Witnessed(FoldSet(LAMBDA k, e : Insert(e, "accusation", k, c, {}), d, Failing(d, c)), c)

\* handle_list_plates: the plates that no plate supersedes.
Recall(d) == {i \in Kind(d, {"plate"}) : Superseders(d, i) = {}}

-----------------------------------------------------------------------------
Init ==
    /\ dag = Insert(<<>>, "genesis", None, 0, {}) /\ cycle = 0
    /\ alarmAt = Never /\ spoken = Never /\ ops = 0

Request(d) ==
    /\ ops < MaxOps /\ ops' = ops + 1 /\ dag' = d
    /\ UNCHANGED <<cycle, alarmAt, spoken>>

\* Events that speak of nothing older: an ingestion, an axis registered once or
\* perturbed after that, the outcome of an evolution.
Ingest == \E m \in Contents : Request(Insert(dag, "raw_material", m, cycle, {}))

Known(a) == Touches(dag, a) # {}
RegisterAxis == \E a \in Axes : ~Known(a) /\ Request(Insert(dag, "axis_registered", a, cycle, {}))
Perturb == \E a \in Axes : Known(a) /\ Request(Insert(dag, "axis_perturbed", a, cycle, {}))

Evolve ==
    \E op \in Ops, outcome \in {"evolution_succeeded", "evolution_failed"} :
        Request(Insert(dag, outcome, op, cycle, {}))

\* handle_perturb_axis_from_raw_material: an event of a kind of its own.
PerturbFromRaw ==
    \E a \in Axes : Known(a) /\ \E i \in Kind(dag, {"raw_material"}) :
        Request(Insert(dag, "perturb_from_raw", a, cycle, {i}))

\* A plate whose parents are its sources only.
ForgedOfSources(d, sources, sups, c) ==
    Append(d, [Insert(d, "plate", None, c, sources)[Len(d) + 1] EXCEPT
                  !.supersedes = sups, !.parents = IF sources = {} THEN {Len(d)} ELSE sources])

Forged(d, sources, sups, c) ==
    Append(d, [Insert(d, "plate", None, c, sources)[Len(d) + 1] EXCEPT !.supersedes = sups])

\* handle_deposit_forged_understanding: sources and superseded plates exist.
Forge ==
    \E sources \in SUBSET Kind(dag, {"raw_material"}), sups \in SUBSET Kind(dag, {"plate"}) :
        /\ Cardinality(sources) + Cardinality(sups) <= MaxCited
        /\ Request(Forged(dag, sources, sups, cycle))

\* A mutation that would stop the dying is refused and reported (C56).
PreserveAll == Request(Insert(dag, "immune", "C56", cycle, {}))

\* The limiter of emit_immune_sporocarp writes C54 if none was in this second.
Written(alarm, last) == alarm /\ last = Never

\* handle_advance up to the counter: what fruits, the scan at a boundary, C54
\* (still at the old cycle), and the new cycle_advanced.  The cooldown of C54 is
\* taken whether or not the limiter lets it through.
Advance ==
    /\ cycle < MaxCycle
    /\ \E fruit \in {{}} \cup {{a} : a \in {a \in Axes : Known(a)}}, last \in {spoken, Never} :
          LET c == cycle + 1
              d1 == IF fruit = {} THEN dag ELSE Insert(dag, "sporocarp", <<fruit, c>>, c, {})
              scan == c % Interval = 0
              d2 == IF scan THEN RunPruneScan(d1, c) ELSE d1
              alarm == scan /\ Hoarding(d2, c) /\ Due(c)
              written == Written(alarm, last)
              d3 == IF written THEN Insert(d2, "immune", "C54", cycle, {}) ELSE d2
          IN  /\ dag' = Insert(d3, "cycle_advanced", None, c, {})
              /\ alarmAt' = IF alarm THEN c ELSE alarmAt
              /\ spoken' = IF written THEN c ELSE last
    /\ cycle' = cycle + 1
    /\ UNCHANGED ops

\* The checks on request, and at a start, where the cooldown is forgotten.
RunImmuneCheck == Request(Examined(dag, cycle))

Restart ==
    /\ ops < MaxOps /\ ops' = ops + 1
    /\ alarmAt' = Never /\ spoken' = Never /\ dag' = Examined(dag, cycle)
    /\ UNCHANGED cycle

Next ==
    \/ Ingest \/ RegisterAxis \/ Perturb \/ Evolve \/ PerturbFromRaw \/ Forge \/ PreserveAll
    \/ Advance \/ RunImmuneCheck \/ Restart

Spec == Init /\ [][Next]_vars

-----------------------------------------------------------------------------
(* Properties. *)

Tombstones == Kind(dag, {"tombstone"})

\* Every variable has its type: parents, parts and heirs are older nodes, and
\* every node but the first has a parent.
PruneTypeOK ==
    /\ cycle \in 0 .. MaxCycle /\ ops \in 0 .. MaxOps
    /\ {alarmAt, spoken} \subseteq {Never} \cup 0 .. MaxCycle
    /\ \A i \in DOMAIN dag :
          /\ dag[i].parents \subseteq 1 .. i - 1 /\ (i > 1 => dag[i].parents # {})
          /\ dag[i].supersedes \subseteq 1 .. i - 1
          /\ dag[i].part < i /\ dag[i].heir < i /\ dag[i].cycle <= cycle

\* A part dies once: no two tombstones name the same part, neither from two
\* scans nor from two rules of one scan, which share a context that is not
\* refreshed between them; and what dies is never protected.
\* collect_already_tombstoned and is_prune_eligible.
TombstonedOnce ==
    \A t \in Tombstones :
        /\ dag[dag[t].part].kind \notin Protected
        /\ \A u \in Tombstones : dag[u].part = dag[t].part => u = t

\* Nothing falls off the DAG: whatever handlers insert, and in whatever order,
\* every node stays an ancestor of the tip.  So the two rules against detached
\* parts never fire, and the checks of integrity.rs, at whatever moment they
\* run, accuse a substrate that made only legal steps of nothing.
\* detect_orphan_past_grace, detect_unreachable_from_live_roots,
\* check_silent_internal_mortality, check_manifest_cycle_vs_dag_advance_count.
NothingFallsOff ==
    /\ Ancestry(dag, {Len(dag)}) = DOMAIN dag
    /\ \A t \in Tombstones : dag[t].rule \notin {"orphan", "unreachable"}
    /\ Kind(dag, {"accusation"}) = {}

\* The grace runs from the last word: a part is buried only if the newest
\* evidence about it (touch of its axis, failure of its operation, plate that
\* supersedes it) was already older than the grace.  The rules of prune.rs.
GraceRunsFromTheLastWord ==
    \A t \in Tombstones :
        LET p == dag[t].part
            before == SubSeq(dag, 1, t)
            Older(S, grace) == \A i \in S : dag[t].cycle - dag[i].cycle >= grace
        IN  CASE dag[t].rule = "stale" -> Older(Touches(before, dag[p].name), StaleGrace)
              [] dag[t].rule = "falsified" -> Older(Failures(before, dag[p].name), ErroneousGrace + 1)
              [] dag[t].rule = "superseded" -> Older(Superseders(before, p), PlateGrace + 1)
              [] dag[t].rule = "duplicate" -> Older({p}, RedundantGrace)
              [] OTHER -> TRUE

\* What supersedes p, what supersedes that, and so on.
Heirs(p) ==
    LET pass[k \in 0 .. Len(dag)] ==
            IF k = 0 THEN {p}
            ELSE LET H == pass[k - 1] IN IF dag[k].supersedes \cap H # {} THEN H \cup {k} ELSE H
    IN  pass[Len(dag)]

\* Nothing known is lost: of every content that was ingested a copy is not
\* buried; recall lists no buried plate, and from a buried plate the plates
\* that supersede one another lead to a listed one.
\* detect_duplicate_content_subsumed, detect_forged_understanding_superseded
\* and handle_list_plates.
NothingKnownIsLost ==
    LET Plates == Kind(dag, {"plate"})
    IN  /\ \A i \in Kind(dag, {"raw_material"}) : Copies(dag, i) \ Dead(dag) # {}
        /\ Recall(dag) \cap Dead(dag) = {}
        /\ \A p \in Dead(dag) \cap Plates : Heirs(p) \cap Recall(dag) # {}

In(d, kinds, first, last) == {i \in Kind(d, kinds) : d[i].cycle >= first /\ d[i].cycle <= last}

\* A window of intake without a death ends with cycle b.
Hoarded(d, b) ==
    /\ b >= HoardWindow
    /\ Cardinality(In(d, {"raw_material"}, b - HoardWindow, b - 1)) >= IngestionFloor
    /\ In(d, {"tombstone"}, b - HoardWindow, b) = {}

Reported(d, b) == \E i \in In(d, {"immune"}, b - 1, b - 1) : d[i].name = "C54"

\* Hoarding is reported, and nothing else is: a cycle leaves C54 only if its
\* scan ended a window of intake without a death; and after every scan that
\* did, the DAG has a C54 not older than the limiter's second, this scan's or
\* that of an earlier scan of the same process.  Neither the cooldown, which a
\* suppressed report takes too, nor a restart that forgets both memories
\* swallows or repeats one.  is_hoarding, the C54 step of handle_advance and
\* emit_immune_sporocarp.
HoardingIsReported ==
    [][cycle' # cycle =>
          /\ Reported(dag', cycle') => cycle' % Interval = 0 /\ Hoarded(dag', cycle')
          /\ cycle' % Interval = 0 /\ Hoarded(dag', cycle')
                => spoken' # Never /\ Reported(dag', spoken')]_vars

\* prune.rs: "the axis has not participated in metabolism for a full
\* stale-window" when it is declared stale.
StaleMeansIdle ==
    \A t \in Tombstones : dag[t].rule = "stale" =>
        \A i \in 1 .. t : (dag[i].kind = "perturb_from_raw" /\ dag[i].name = dag[dag[t].part].name)
                             => dag[t].cycle - dag[i].cycle >= StaleGrace
=============================================================================
