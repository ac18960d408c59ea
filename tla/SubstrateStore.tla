--------------------------- MODULE SubstrateStore ---------------------------
(***************************************************************************)
(* A state directory and the processes that boot from it: dag.cb, the      *)
(* signed snapshot.cb that shortens a boot, the signing key, a manifest.cb *)
(* left by an older version, the lock, and the backup the operator takes.  *)
(*                                                                         *)
(* A process takes the lock, boots in the steps of run_loop, each of which *)
(* may save, and serves.  Files are replaced by a rename, so a save either *)
(* happens or leaves the file as it was; a process may be killed between   *)
(* any two steps, and the disk may be full for a while.  Between two       *)
(* processes a file may be found damaged, written by another version, or   *)
(* restored from the backup.                                               *)
(*                                                                         *)
(* The log of a DAG is its chain of nodes.  A node's hash covers its       *)
(* parents, so the hash of a tip is represented by the log up to it.       *)
(***************************************************************************)
EXTENDS Integers, Sequences, FiniteSets, SequencesExt

CONSTANTS
    Procs,       \* processes that may run on the directory
    None,        \* no process
    SnapEvery,   \* SNAPSHOT_EVERY_K_CYCLES (10)
    DamageKinds, \* what may happen to the files between two processes
    MaxStarts,   \* bound: processes started
    MaxWork,     \* bound: mutations and perturbations
    MaxCycle,    \* bound: metabolic cycles
    MaxFaults    \* bound: damages, and times the disk fills up

ASSUME StoreAssumption ==
    /\ None \notin Procs
    /\ SnapEvery \in Nat \ {0}
    /\ {MaxStarts, MaxWork, MaxCycle, MaxFaults} \subseteq Nat

VARIABLES
    dag,     \* dag.cb: [st, log]
    snap,    \* snapshot.cb
    key,     \* substrate_signing_key.cb: [st, seed]
    manifest,\* manifest.cb
    backup,  \* the exported copy, with the mutations acknowledged before it
    lock,    \* the process that holds substrate.lock
    proc,    \* what each process holds in memory
    disk,    \* "ok" | "full"
    used,    \* how often each bounded thing has happened
    acked,   \* mutations acknowledged since the DAG file was last damaged
    aside    \* a DAG that could not be read was set aside

vars == <<dag, snap, key, manifest, backup, lock, proc, disk, used, acked, aside>>
files == <<dag, snap, key, manifest>>
world == <<manifest, backup, lock, disk>>

----------------------------------------------------------------------------
(* Nodes and what is derived from them. *)

\* A node of the log: its type, its value, and for a node whose content holds
\* the time, the process that wrote it.
Node(k, v, by) == [k |-> k, v |-> v, by |-> by]
Plain(k, v) == Node(k, v, 0)

\* Where a log holds nodes of a type.
At(log, k) == {i \in DOMAIN log : log[i].k = k}
Holds(log, k) == At(log, k) # {}

\* The value of the last of them.
Latest(log, k) == log[CHOOSE i \in At(log, k) : \A j \in At(log, k) : j <= i].v

Absent == [st |-> "absent", log |-> <<>>]

\* Dag::to_canonical_bytes in its at-rest envelope.
Intact(log) == [st |-> "ok", log |-> log]

\* Dag::from_canonical_bytes: an error unless the envelope opens and every hash
\* is the one of its node; no DAG for a format version it does not know.
LoadDag(file) ==
    [error |-> file.st = "corrupt", log |-> IF file.st = "ok" THEN file.log ELSE <<>>]

\* No snapshot, one that cannot be decoded, or one taken at a tip.
NoSnapshot == [st |-> "absent", tip |-> <<>>, id |-> 0, cycle |-> 0, signer |-> 0]

\* apply_genesis and apply_cycle_advanced: what the nodes of a log say of who the
\* substrate is and how old, and else what was known before.
IdIn(log, id) == IF Holds(log, "genesis") THEN Latest(log, "genesis") ELSE id
CycleIn(log, cycle) == IF Holds(log, "cycle") THEN Latest(log, "cycle") ELSE cycle

\* apply_event, node after node.
Replayed(d, log) == [id |-> IdIn(log, d.id), cycle |-> CycleIn(log, d.cycle)]

FromDag(log) == Replayed([id |-> 0, cycle |-> 0], log)

AfterTip_Late(s, log) == SubSeq(log, Len(s.tip) + 2, Len(log))

\* The snapshot's values brought forward by the nodes after its tip.
AfterTip(s, log) == SubSeq(log, Len(s.tip) + 1, Len(log))

FromSnapshot(s, log) ==
    Replayed([id |-> s.id, cycle |-> s.cycle], AfterTip(s, log))

TipInDag(s, log) == IF s.tip = <<>> THEN log = <<>> ELSE IsPrefix(s.tip, log)

\* Sum of the cycle_advanced spans, which the boot check compares to the counter.
Advances(log) == Cardinality(At(log, "cycle"))

----------------------------------------------------------------------------
(* A process. *)

Down ==
    [pc |-> "down", n |-> 0, log |-> <<>>, id |-> 0, cycle |-> 0, seed |-> 0,
     fresh |-> FALSE, evidence |-> {}, failing |-> FALSE, told |-> FALSE]

IsUp(p) == proc[p].pc # "down"
Serving(p) == proc[p].pc = "serve"
Ready(p) == proc[p].pc \in {"serve", "open"}

Saved_Torn(file, log) ==
    IF disk = "full" THEN [st |-> "corrupt", log |-> <<>>] ELSE Intact(log)

\* save_dag: a temporary file, then a rename.
Saved(file, log) == IF disk = "full" THEN file ELSE Intact(log)

\* record_save_failure, or record_save_success_and_clear_emission.
Health(m) ==
    IF disk = "full" THEN [m EXCEPT !.failing = TRUE]
    ELSE [m EXCEPT !.failing = FALSE, !.told = FALSE]

Append1(m, n) == [m EXCEPT !.log = Append(@, n)]

\* emit, then save_dag_state.
Keep(p, m) ==
    /\ proc' = [proc EXCEPT ![p] = Health(m)]
    /\ dag' = Saved(dag, m.log)

\* emit_immune_sporocarp, for detectors that fire once in a process.
Alarm(m, k) == Append1(m, Node(k, 0, m.n))

----------------------------------------------------------------------------
(* Booting. *)

Init ==
    /\ dag = Absent
    /\ snap = NoSnapshot
    /\ key = [st |-> "absent", seed |-> 0]
    /\ manifest \in {"absent", "legacy"}
    /\ backup = [some |-> FALSE, dag |-> Absent, snap |-> NoSnapshot, key |-> key, acked |-> {}]
    /\ lock = None
    /\ proc = [p \in Procs |-> Down]
    /\ disk = "ok"
    /\ used = [starts |-> 0, work |-> 0, faults |-> 0]
    /\ acked = {}
    /\ aside = FALSE

\* flock without blocking: a second process gives up.
MayAcquire(p) == lock = None

\* The lock, then load_dag.  What cannot be read is set aside; a version it
\* does not know counts as no DAG, and stays in place until the first save.
Start(p) ==
    /\ ~IsUp(p)
    /\ MayAcquire(p)
    /\ used.starts < MaxStarts
    /\ used' = [used EXCEPT !.starts = @ + 1]
    /\ lock' = p
    /\ LET bad == LoadDag(dag).error
       IN /\ proc' = [proc EXCEPT ![p] =
                [Down EXCEPT !.pc = "key", !.n = used.starts + 1, !.log = LoadDag(dag).log,
                             !.evidence = IF bad THEN {"C7"} ELSE {}]]
          /\ dag' = IF bad THEN Absent ELSE dag
          /\ aside' = (aside \/ bad)
    /\ UNCHANGED <<snap, key, manifest, backup, disk, acked>>

\* The process ends: the OS frees the lock.
Ended(p) ==
    /\ proc' = [proc EXCEPT ![p] = Down]
    /\ lock' = IF lock = p THEN None ELSE lock

\* load_substrate_signing_key: an error when the seed is not the one its hash was
\* taken of, nothing when there is no file or its version is not known.
LoadedKey ==
    CASE key.st \in {"ok", "loose"} -> "some"
      [] key.st \in {"absent", "newer"} -> "none"
      [] OTHER -> "error"

\* Permissions that let others read the seed.
Exposed == key.st = "loose"

\* save_substrate_signing_key, readable for its owner only.
KeySaved(seed) == [st |-> "ok", seed |-> seed]

\* boot_or_genesis_substrate_signing_key: loose permissions are tightened and
\* reported; no key, or a version it does not know, makes a new one, which
\* must be saved; a damaged key ends the boot.
LoadKey(p) ==
    LET m == proc[p]
        held(seed, evidence) ==
            [proc EXCEPT ![p] = [m EXCEPT !.pc = "derive", !.seed = seed,
                                          !.evidence = @ \cup evidence]]
    IN /\ m.pc = "key"
       /\ \/ /\ LoadedKey = "error" \/ (LoadedKey = "none" /\ disk = "full")
             /\ Ended(p)
             /\ UNCHANGED key
          \/ /\ LoadedKey = "none" /\ disk = "ok"
             /\ key' = KeySaved(m.n)
             /\ proc' = held(m.n, {})
             /\ UNCHANGED lock
          \/ /\ LoadedKey = "some"
             /\ key' = KeySaved(key.seed)
             /\ proc' = held(key.seed, IF Exposed THEN {"C4"} ELSE {})
             /\ UNCHANGED lock
       /\ UNCHANGED <<dag, snap, manifest, backup, disk, used, acked, aside>>

\* The id of a substrate that an older version left in manifest.cb.
LegacyId == MaxStarts + 1

\* The id the manifest holds, and else Manifest::genesis.
IdOf(m) == IF manifest = "legacy" THEN LegacyId ELSE m.n

\* There is a snapshot, of a format version that is known and with no field amiss.
Decodes == snap.st = "ok"

\* The snapshot was signed with the key of another substrate.
Foreign(m) == Decodes /\ snap.signer # m.seed

\* The snapshot when it decodes, is signed with this key and its tip is in the
\* DAG, with the rest of the DAG; else the whole DAG.
Derived(m) ==
    IF Decodes /\ ~Foreign(m) /\ TipInDag(snap, m.log)
    THEN FromSnapshot(snap, m.log)
    ELSE FromDag(m.log)

\* When neither names a substrate, the manifest does, or it is a new one; a
\* manifest that cannot be read is set aside.
Derive(p) ==
    LET m == proc[p]
        d == Derived(m)
        known == d.id # 0
        broken == ~known /\ manifest = "corrupt"
    IN /\ m.pc = "derive"
       /\ proc' = [proc EXCEPT ![p] =
             [m EXCEPT !.pc = "report",
                       !.id = IF known THEN d.id ELSE IdOf(m),
                       !.cycle = IF known THEN d.cycle ELSE 0,
                       !.fresh = ~known /\ manifest # "legacy",
                       !.evidence = @ \cup (IF Foreign(m) THEN {"C38"} ELSE {})
                                      \cup (IF broken THEN {"C42"} ELSE {})]]
       /\ manifest' = IF broken THEN "absent" ELSE manifest
       /\ UNCHANGED <<dag, snap, key, backup, lock, disk, used, acked, aside>>

\* One sporocarp, and one save whose failure is ignored, for each thing found:
\* the snapshot first, then the key, the DAG and the manifest.
Report(p) ==
    LET m == proc[p]
        next == CHOOSE k \in m.evidence :
                   \A j \in m.evidence :
                      LET rank == [C38 |-> 1, C4 |-> 2, C7 |-> 3, C42 |-> 4]
                      IN rank[k] =< rank[j]
    IN /\ m.pc = "report"
       /\ IF m.evidence = {}
          THEN /\ proc' = [proc EXCEPT ![p].pc = "birth"]
               /\ UNCHANGED dag
          ELSE Keep(p, [Alarm(m, next) EXCEPT !.evidence = @ \ {next}])
       /\ UNCHANGED <<snap, key, world, used, acked, aside>>

\* A fresh substrate whose DAG is still empty writes its genesis_event.
Birth(p) ==
    LET m == [proc[p] EXCEPT !.pc = "check"]
    IN /\ proc[p].pc = "birth"
       /\ IF m.fresh /\ m.log = <<>>
          THEN Keep(p, Append1(m, Plain("genesis", m.id)))
          ELSE /\ proc' = [proc EXCEPT ![p] = m]
               /\ UNCHANGED dag
       /\ UNCHANGED <<snap, key, world, used, acked, aside>>

\* C57: at most one genesis.
GenesisUnique(m) == \A i, j \in At(m.log, "genesis") : i = j

\* C59: the counter is the sum of the spans the DAG records.
CyclesTally(m) == m.cycle = Advances(m.log)

\* run_integrity_checks, of which the others hold of every DAG that loads.
ChecksPass(m) == GenesisUnique(m) /\ CyclesTally(m)

\* emit_invariant_witnesses: whatever the verdict.
Witnessed(m) == Append1(m, Node("witness", 0, m.n))

Checked(m) == Witnessed(IF ChecksPass(m) THEN m ELSE Alarm(m, "C9"))

\* The checks of every boot, the last step before the loop.
SelfCheck(p) ==
    /\ proc[p].pc = "check"
    /\ Keep(p, Checked([proc[p] EXCEPT !.pc = "serve"]))
    /\ UNCHANGED <<snap, key, world, used, acked, aside>>

----------------------------------------------------------------------------
(* Serving. *)

Hello_WhenFresh(p) ==
    LET m == [proc[p] EXCEPT !.pc = "open"]
    IN /\ proc[p].pc = "serve"
       /\ IF m.fresh
          THEN Keep(p, Append1(m, Plain("genesis", m.id)))
          ELSE /\ proc' = [proc EXCEPT ![p] = m]
               /\ UNCHANGED dag
       /\ UNCHANGED <<snap, key, world, used, acked, aside>>

\* backfill_dag_from_python_state, for the genesis.
Backfilled(m) == Append1(m, Plain("genesis", m.id))

\* handle_hello: a DAG without a genesis gets one, with the id of the process.
Hello(p) ==
    LET m == [proc[p] EXCEPT !.pc = "open"]
    IN /\ proc[p].pc = "serve"
       /\ IF FromDag(m.log).id = 0
          THEN Keep(p, Backfilled(m))
          ELSE /\ proc' = [proc EXCEPT ![p] = m]
               /\ UNCHANGED dag
       /\ UNCHANGED <<snap, key, world, used, acked, aside>>

Open(p) == proc[p].pc = "open"

Worked == used.work < MaxWork /\ used' = [used EXCEPT !.work = @ + 1]

\* SUBMIT_MUTATION and its kin: acknowledged when the save succeeds.
Mutate(p) ==
    /\ Open(p) /\ Worked
    /\ Keep(p, Append1(proc[p], Plain("work", used.work)))
    /\ acked' = IF disk = "ok" THEN acked \cup {used.work} ELSE acked
    /\ UNCHANGED <<snap, key, world, aside>>

\* REGISTER_AXIS and PERTURB: acknowledged whatever the save says.
Perturb(p) ==
    /\ Open(p) /\ Worked
    /\ Keep(p, Append1(proc[p], Plain("work", used.work)))
    /\ UNCHANGED <<snap, key, world, acked, aside>>

SnapshotOf(m) ==
    [st |-> "ok", tip |-> m.log, id |-> m.id, cycle |-> m.cycle, signer |-> m.seed]

\* save_snapshot_for_state, when one is due.
SnapSaved(m) == IF m.cycle % SnapEvery = 0 THEN SnapshotOf(m) ELSE snap

\* RUN_IMMUNE_CHECK: the same checks when the operator asks.
ImmuneCheck(p) ==
    /\ Open(p) /\ Worked
    /\ Keep(p, Checked(proc[p]))
    /\ UNCHANGED <<snap, key, world, acked, aside>>

\* ADVANCE: the event, the save, and every SnapEvery cycles the snapshot, which
\* is not reached when the save of the DAG failed.
Advance(p) ==
    LET m == Append1([proc[p] EXCEPT !.cycle = @ + 1], Plain("cycle", proc[p].cycle + 1))
    IN /\ Open(p)
       /\ m.cycle =< MaxCycle
       /\ Keep(p, m)
       /\ snap' = IF disk = "ok" THEN SnapSaved(m) ELSE snap
       /\ UNCHANGED <<key, world, used, acked, aside>>

\* The tick reports a burst of failed saves once, in memory only.
Tick(p) ==
    /\ Open(p)
    /\ proc[p].failing /\ ~proc[p].told
    /\ proc' = [proc EXCEPT ![p] = Alarm([@ EXCEPT !.told = TRUE], "C64")]
    /\ UNCHANGED <<files, backup, lock, disk, used, acked, aside>>

\* EXPORT_BACKUP_TO_DIR copies the files, then records that it did.
Backup(p) ==
    LET m == Append1(proc[p], Node("backup", 0, proc[p].n))
    IN /\ Open(p)
       /\ ~backup.some
       /\ backup' = [some |-> TRUE, dag |-> dag, snap |-> snap, key |-> key, acked |-> acked]
       /\ Keep(p, m)
       /\ UNCHANGED <<snap, key, manifest, lock, disk, used, acked, aside>>

\* SHUTDOWN saves once more, whatever comes of it.
Shutdown(p) ==
    /\ Open(p)
    /\ dag' = Saved(dag, proc[p].log)
    /\ Ended(p)
    /\ UNCHANGED <<snap, key, manifest, backup, disk, used, acked, aside>>

\* The operator is gone, stdin is closed, or the process is killed: nothing of
\* what was not saved is kept.
Stop(p) ==
    /\ IsUp(p)
    /\ Ended(p)
    /\ UNCHANGED <<files, backup, disk, used, acked, aside>>

----------------------------------------------------------------------------
(* The host. *)

Faulted == used.faults < MaxFaults /\ used' = [used EXCEPT !.faults = @ + 1]

DiskFills ==
    /\ disk = "ok" /\ Faulted
    /\ disk' = "full"
    /\ UNCHANGED <<files, backup, lock, proc, acked, aside>>

DiskRecovers ==
    /\ disk = "full"
    /\ disk' = "ok"
    /\ UNCHANGED <<files, backup, lock, proc, used, acked, aside>>

\* Between two processes: files are damaged, rewritten by another version,
\* copied from another substrate, exposed, or restored from the backup.
Damage(kind) ==
    /\ \A p \in Procs : ~IsUp(p)
    /\ kind \in DamageKinds
    /\ Faulted
    /\ dag' = CASE kind = "corruptDag" /\ dag.st = "ok" -> [st |-> "corrupt", log |-> <<>>]
                [] kind = "newerDag" /\ dag.st = "ok" -> [st |-> "newer", log |-> <<>>]
                [] kind \in {"restore", "restoreDag"} /\ backup.some -> backup.dag
                [] OTHER -> dag
    /\ snap' = CASE kind = "corruptSnap" /\ snap.st = "ok" -> NoSnapshot
                 [] kind = "foreignSnap" /\ snap.st = "ok" -> [snap EXCEPT !.signer = 0]
                 [] kind = "restore" /\ backup.some -> backup.snap
                 [] OTHER -> snap
    /\ key' = CASE kind = "looseKey" /\ key.st = "ok" -> [key EXCEPT !.st = "loose"]
                [] kind = "corruptKey" /\ key.st # "absent" -> [key EXCEPT !.st = "corrupt"]
                [] kind = "newerKey" /\ key.st = "ok" -> [key EXCEPT !.st = "newer"]
                [] kind = "restore" /\ backup.some -> backup.key
                [] OTHER -> key
    /\ manifest' = IF kind = "corruptManifest" THEN "corrupt" ELSE manifest
    /\ acked' = CASE kind \in {"corruptDag", "newerDag"} -> {}
                  [] kind \in {"restore", "restoreDag"} /\ backup.some -> backup.acked
                  [] OTHER -> acked
    /\ <<dag', snap', key', manifest'>> # files
    /\ aside' = (aside /\ dag' = dag)
    /\ UNCHANGED <<backup, lock, proc, disk>>

\* The operator removes a key that keeps the substrate from starting.
RemoveKey ==
    /\ key.st = "corrupt"
    /\ \A p \in Procs : ~IsUp(p)
    /\ key' = [st |-> "absent", seed |-> 0]
    /\ UNCHANGED <<dag, snap, manifest, backup, lock, proc, disk, used, acked, aside>>

Next ==
    \/ \E p \in Procs :
         \/ Start(p) \/ LoadKey(p) \/ Derive(p) \/ Report(p) \/ Birth(p) \/ SelfCheck(p)
         \/ Hello(p) \/ Mutate(p) \/ Perturb(p) \/ ImmuneCheck(p) \/ Advance(p)
         \/ Tick(p) \/ Backup(p) \/ Shutdown(p) \/ Stop(p)
    \/ DiskFills \/ DiskRecovers \/ RemoveKey
    \/ \E kind \in DamageKinds : Damage(kind)

Spec == Init /\ [][Next]_vars

----------------------------------------------------------------------------
(* Properties. *)

Kinds ==
    {"genesis", "cycle", "work", "witness", "backup", "C4", "C7", "C9", "C38", "C42", "C64"}

Logs(m) == \A i \in DOMAIN m : m[i].k \in Kinds /\ m[i].v \in Nat

\* The type of the state: the lock is held by the process that runs, and only a
\* readable file holds a log.
TypeOK ==
    /\ dag.st \in {"absent", "ok", "corrupt", "newer"} /\ Logs(dag.log)
    /\ dag.log # <<>> => dag.st = "ok"
    /\ snap.st \in {"absent", "ok"} /\ Logs(snap.tip)
    /\ key.st \in {"absent", "ok", "loose", "corrupt", "newer"} /\ key.seed \in 0 .. MaxStarts
    /\ manifest \in {"absent", "legacy", "corrupt"}
    /\ lock \in Procs \cup {None}
    /\ \A p \in Procs :
         /\ proc[p].pc \in {"down", "key", "derive", "report", "birth", "check", "serve", "open"}
         /\ proc[p].cycle \in 0 .. MaxCycle
         /\ proc[p].id \in 0 .. MaxStarts + 1
         /\ Logs(proc[p].log)
         /\ IsUp(p) <=> lock = p
    /\ disk \in {"ok", "full"}
    /\ acked \subseteq 0 .. MaxWork - 1

WorkIn(log) == {log[i].v : i \in {j \in DOMAIN log : log[j].k = "work"}}

\* A mutation whose save was acknowledged is in dag.cb, whatever saves fail and
\* processes die later, and in every backup taken after it.
AckedIsDurable ==
    /\ acked \subseteq WorkIn(dag.log)
    /\ backup.acked \subseteq WorkIn(backup.dag.log)

\* A process that serves has the identity its DAG names, and a DAG names one
\* identity: over crashes, snapshots, restored backups and the backfill of a DAG
\* that lost its genesis.
IdentityIsGenesis ==
    \A p \in Procs : Ready(p) =>
       LET named == At(proc[p].log, "genesis")
       IN /\ \A i, j \in named : i = j
          /\ \A i \in named : proc[p].log[i].v = proc[p].id
          /\ Open(p) => named # {}

\* However a process came to its cycle counter, through a snapshot or through
\* the whole DAG, it agrees with the DAG, so the boot check never blames the
\* program for what the program wrote (no C9).
SnapshotAgrees ==
    \A p \in Procs : Ready(p) =>
       /\ proc[p].cycle = Advances(proc[p].log)
       /\ ~Holds(proc[p].log, "C9")

\* A DAG set aside as unreadable is not silently replaced: the process that
\* serves on the directory afterwards holds the C7 that says so.
NoSilentRebuild == \A p \in Procs : Open(p) /\ aside => Holds(proc[p].log, "C7")
=============================================================================
