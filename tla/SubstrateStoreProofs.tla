------------------------ MODULE SubstrateStoreProofs ------------------------
(***************************************************************************)
(* Proofs about SubstrateStore, for every set of processes, every kind of  *)
(* damage and every bound: what was acknowledged is in the DAG file, who   *)
(* the substrate is and how old agree with its DAG.                        *)
(*                                                                         *)
(* The file alone is not inductive.  A save replaces the file by what the  *)
(* process holds, so the process must hold what was acknowledged as well;  *)
(* and it does because only one process is up, which is the lock's doing,  *)
(* and because it loaded all of the file it found (IInv).  The identity    *)
(* and the age rest on what logs and snapshots say of each other (DInv).   *)
(***************************************************************************)
EXTENDS SubstrateStore, FiniteSetTheorems, TLAPS

\* A log: a sequence of nodes, whatever they are.
IsLog(log) == \E S : log \in Seq(S)

\* A DAG file that cannot be read has no log.
IsFile(f) ==
    /\ f = [st |-> f.st, log |-> f.log]
    /\ IsLog(f.log)
    /\ f.st # "ok" => f.log = <<>>

IsProc(m) ==
    /\ m = [pc |-> m.pc, n |-> m.n, log |-> m.log, id |-> m.id, cycle |-> m.cycle,
            seed |-> m.seed, fresh |-> m.fresh, evidence |-> m.evidence,
            failing |-> m.failing, told |-> m.told]
    /\ IsLog(m.log)

IInv ==
    /\ proc = [p \in Procs |-> proc[p]]
    /\ \A p \in Procs : IsProc(proc[p])
    /\ \A p \in Procs : IsUp(p) => lock = p /\ acked \subseteq WorkIn(proc[p].log)
    /\ IsFile(dag) /\ acked \subseteq WorkIn(dag.log)
    /\ IsFile(backup.dag) /\ backup.acked \subseteq WorkIn(backup.dag.log)

-----------------------------------------------------------------------------
(* Logs. *)

\* The empty log.
LEMMA EmptyLog == IsLog(<<>>) /\ WorkIn(<<>>) = {}
<1>1. <<>> \in Seq({})
  OBVIOUS
<1> QED BY <1>1 DEF IsLog, WorkIn

\* A node more.
LEMMA AppendLog ==
    ASSUME NEW log, IsLog(log), NEW node
    PROVE  /\ IsLog(Append(log, node))
           /\ WorkIn(log) \subseteq WorkIn(Append(log, node))
           /\ node.k = "work" => node.v \in WorkIn(Append(log, node))
<1>1. PICK S : log \in Seq(S)
  BY DEF IsLog
<1> DEFINE T == S \cup {node}
           new == Append(log, node)
<1>2. log \in Seq(T)
  BY <1>1
<1>3. new \in Seq(T) /\ Len(new) = Len(log) + 1 /\ Len(log) \in Nat
  BY <1>2
<1>4. DOMAIN log = 1 .. Len(log) /\ DOMAIN new = 1 .. Len(log) + 1
  BY <1>2, <1>3
<1>5. \A i \in 1 .. Len(log) : new[i] = log[i]
  BY <1>2
<1>6. new[Len(log) + 1] = node
  BY <1>2
<1>7. IsLog(new)
  BY <1>3 DEF IsLog
<1> HIDE DEF new
<1>8. WorkIn(log) \subseteq WorkIn(new)
  <2> SUFFICES ASSUME NEW i \in DOMAIN log, log[i].k = "work"
               PROVE  log[i].v \in WorkIn(new)
    BY DEF WorkIn
  <2>1. i \in DOMAIN new /\ new[i] = log[i]
    BY <1>3, <1>4, <1>5
  <2> QED BY <2>1 DEF WorkIn
<1>9. ASSUME node.k = "work"
      PROVE  node.v \in WorkIn(new)
  <2>1. Len(log) + 1 \in DOMAIN new
    BY <1>3, <1>4
  <2> QED BY <1>6, <1>9, <2>1 DEF WorkIn
<1> QED BY <1>7, <1>8, <1>9 DEF new

-----------------------------------------------------------------------------
(* Processes. *)

\* k has the log and the step of m.
SameLog(m, k) == IsProc(k) /\ k.log = m.log /\ k.pc = m.pc

\* What an update of one field of a process leaves of the others.
LEMMA ProcFields ==
    ASSUME NEW m, IsProc(m), NEW x
    PROVE  /\ SameLog(m, [m EXCEPT !.n = x]) /\ SameLog(m, [m EXCEPT !.id = x])
           /\ SameLog(m, [m EXCEPT !.cycle = x]) /\ SameLog(m, [m EXCEPT !.seed = x])
           /\ SameLog(m, [m EXCEPT !.fresh = x]) /\ SameLog(m, [m EXCEPT !.evidence = x])
           /\ SameLog(m, [m EXCEPT !.failing = x]) /\ SameLog(m, [m EXCEPT !.told = x])
BY DEF IsProc, SameLog

\* The step.
LEMMA PcField ==
    ASSUME NEW m, IsProc(m), NEW x
    PROVE  /\ IsProc([m EXCEPT !.pc = x]) /\ [m EXCEPT !.pc = x].log = m.log
           /\ [m EXCEPT !.pc = x].pc = x
BY DEF IsProc

\* The log.
LEMMA LogField ==
    ASSUME NEW m, IsProc(m), NEW x, IsLog(x)
    PROVE  /\ IsProc([m EXCEPT !.log = x]) /\ [m EXCEPT !.log = x].log = x
           /\ [m EXCEPT !.log = x].pc = m.pc
BY DEF IsProc

\* A process that is down.
LEMMA DownIsProc == IsProc(Down) /\ Down.pc = "down" /\ Down.log = <<>>
BY EmptyLog DEF IsProc, Down

\* k is m after some events, of the same step of its life or a later one.
Grown(m, k) == IsProc(k) /\ WorkIn(m.log) \subseteq WorkIn(k.log)

\* An event.
LEMMA EventGrows ==
    ASSUME NEW m, IsProc(m), NEW node
    PROVE  /\ Grown(m, Append1(m, node)) /\ Append1(m, node).pc = m.pc
           /\ node.k = "work" => node.v \in WorkIn(Append1(m, node).log)
<1>1. IsLog(m.log)
  BY DEF IsProc
<1> DEFINE l == Append(m.log, node)
<1>2. /\ IsLog(l) /\ WorkIn(m.log) \subseteq WorkIn(l)
      /\ node.k = "work" => node.v \in WorkIn(l)
  BY <1>1, AppendLog
<1>3. Append1(m, node) = [m EXCEPT !.log = l]
  BY DEF Append1
<1> HIDE DEF l
<1>4. /\ IsProc(Append1(m, node)) /\ Append1(m, node).log = l
      /\ Append1(m, node).pc = m.pc
  BY <1>2, <1>3, LogField
<1> QED BY <1>2, <1>4 DEF Grown

\* The checks of RUN_IMMUNE_CHECK and of the boot.
LEMMA CheckGrows ==
    ASSUME NEW m, IsProc(m)
    PROVE  Grown(m, Checked(m)) /\ Checked(m).pc = m.pc
<1> DEFINE a == IF ChecksPass(m) THEN m ELSE Alarm(m, "C9")
<1>1. Grown(m, a) /\ a.pc = m.pc
  BY EventGrows DEF Alarm, Grown
<1>2. Checked(m) = Append1(a, Node("witness", 0, a.n))
  BY DEF Checked, Witnessed
<1> HIDE DEF a
<1> QED BY <1>1, <1>2, EventGrows DEF Grown

\* The account of failed saves.
LEMMA HealthGrows ==
    ASSUME NEW m, IsProc(m)
    PROVE  IsProc(Health(m)) /\ Health(m).log = m.log /\ Health(m).pc = m.pc
<1>1. CASE disk = "full"
  BY <1>1, ProcFields DEF Health, SameLog
<1>2. CASE disk # "full"
  <2> DEFINE k == [m EXCEPT !.failing = FALSE]
  <2>1. IsProc(k) /\ k.log = m.log /\ k.pc = m.pc
    BY ProcFields DEF SameLog
  <2>2. Health(m) = [k EXCEPT !.told = FALSE]
    BY <1>2 DEF Health
  <2> HIDE DEF k
  <2>3. SameLog(k, [k EXCEPT !.told = FALSE])
    BY <2>1, ProcFields
  <2> QED BY <2>1, <2>2, <2>3 DEF SameLog
<1> QED BY <1>1, <1>2

\* A file written or not.
LEMMA SavedFile ==
    ASSUME IsFile(dag), NEW log, IsLog(log), NEW W,
           W \subseteq WorkIn(dag.log), W \subseteq WorkIn(log)
    PROVE  IsFile(Saved(dag, log)) /\ W \subseteq WorkIn(Saved(dag, log).log)
BY DEF Saved, Intact, IsFile

-----------------------------------------------------------------------------
(* Steps. *)

\* The lock lets one process in.
LEMMA Alone ==
    ASSUME IInv, NEW p \in Procs, IsUp(p) \/ lock = None
    PROVE  \A q \in Procs : q # p => ~IsUp(q)
BY StoreAssumption DEF IInv

\* A step of the one process that is up, or comes up.
LEMMA StepKeeps ==
    ASSUME IInv, NEW p \in Procs, \A q \in Procs : q # p => ~IsUp(q),
           NEW m, IsProc(m), proc' = [proc EXCEPT ![p] = m],
           m.pc # "down" => lock' = p /\ acked' \subseteq WorkIn(m.log),
           IsFile(dag'), acked' \subseteq WorkIn(dag'.log),
           IsFile(backup'.dag), backup'.acked \subseteq WorkIn(backup'.dag.log)
    PROVE  IInv'
<1>1. \A q \in Procs : proc'[q] = IF q = p THEN m ELSE proc[q]
  BY DEF IInv
<1>2. proc' = [q \in Procs |-> proc'[q]]
  BY DEF IInv
<1>3. \A q \in Procs : IsProc(proc'[q])
  BY <1>1 DEF IInv
<1>4. ASSUME NEW q \in Procs, proc'[q].pc # "down"
      PROVE  lock' = q /\ acked' \subseteq WorkIn(proc'[q].log)
  <2>1. q = p
    BY <1>1, <1>4 DEF IsUp
  <2> QED BY <1>1, <1>4, <2>1
<1> QED BY <1>2, <1>3, <1>4 DEF IInv, IsUp, IsProc, IsFile, IsLog, WorkIn

\* A step that lengthens the log of the process and saves it, or need not.
LEMMA KeepKeeps ==
    ASSUME IInv, NEW p \in Procs, IsUp(p), NEW m, Grown(proc[p], m), m.pc # "down",
           Keep(p, m) \/ (proc' = [proc EXCEPT ![p] = m] /\ dag' = dag),
           lock' = lock, backup' = backup, acked' = acked
    PROVE  IInv'
<1>1. /\ lock = p /\ IsProc(m)
      /\ acked \subseteq WorkIn(m.log) /\ acked \subseteq WorkIn(dag.log)
      /\ IsFile(dag)
  BY DEF IInv, Grown
<1>2. /\ IsProc(Health(m)) /\ Health(m).log = m.log /\ Health(m).pc = m.pc
      /\ IsLog(m.log)
  BY <1>1, HealthGrows DEF IsProc
<1>3. IsFile(dag') /\ acked \subseteq WorkIn(dag'.log)
  BY <1>1, <1>2, SavedFile DEF Keep
<1>4. IsFile(backup'.dag) /\ backup'.acked \subseteq WorkIn(backup'.dag.log)
  BY DEF IInv
<1>5. CASE Keep(p, m)
  BY <1>1, <1>2, <1>3, <1>4, <1>5, Alone, StepKeeps DEF Keep
<1>6. CASE proc' = [proc EXCEPT ![p] = m] /\ dag' = dag
  BY <1>1, <1>3, <1>4, <1>6, Alone, StepKeeps
<1> QED BY <1>5, <1>6

\* A process that ends: the files stay as they are, or get its log once more.
LEMMA EndKeeps ==
    ASSUME IInv, NEW p \in Procs, IsUp(p), Ended(p),
           dag' = dag \/ dag' = Saved(dag, proc[p].log),
           backup' = backup, acked' = acked
    PROVE  IInv'
<1>1. IsFile(dag) /\ acked \subseteq WorkIn(dag.log)
      /\ IsProc(proc[p]) /\ acked \subseteq WorkIn(proc[p].log)
  BY DEF IInv
<1>2. IsFile(dag') /\ acked' \subseteq WorkIn(dag'.log)
  BY <1>1, SavedFile DEF IsProc
<1>3. IsFile(backup'.dag) /\ backup'.acked \subseteq WorkIn(backup'.dag.log)
  BY DEF IInv
<1>4. proc' = [proc EXCEPT ![p] = Down]
  BY DEF Ended
<1> QED BY <1>2, <1>3, <1>4, DownIsProc, Alone, StepKeeps

-----------------------------------------------------------------------------
(* Booting. *)

\* Start: what was acknowledged is loaded, and nothing was if the file is unreadable.
LEMMA StartKeeps ==
    ASSUME IInv, NEW p \in Procs, Start(p)
    PROVE  IInv'
<1> DEFINE bad == LoadDag(dag).error
           l == LoadDag(dag).log
           a == [Down EXCEPT !.pc = "key"]
           b == [a EXCEPT !.n = used.starts + 1]
           c == [b EXCEPT !.log = l]
           e == IF bad THEN {"C7"} ELSE {}
           m == [c EXCEPT !.evidence = e]
<1>1. /\ proc' = [proc EXCEPT ![p] = m] /\ lock' = p /\ lock = None
      /\ dag' = IF bad THEN Absent ELSE dag
      /\ backup' = backup /\ acked' = acked
  BY DEF Start, MayAcquire
<1>2. /\ IsFile(dag) /\ acked \subseteq WorkIn(dag.log)
      /\ IsFile(backup.dag) /\ backup.acked \subseteq WorkIn(backup.dag.log)
  BY DEF IInv
<1>3. l = dag.log /\ IsLog(l) /\ (bad => dag.log = <<>>)
  BY <1>2, EmptyLog DEF LoadDag, IsFile
<1>4. IsProc(m) /\ m.log = l
  <2>1. IsProc(a)
    BY DownIsProc, PcField
  <2> HIDE DEF a
  <2>2. IsProc(b)
    BY <2>1, ProcFields DEF SameLog
  <2> HIDE DEF b, l, e
  <2>3. IsProc(c) /\ c.log = l
    BY <1>3, <2>2, LogField
  <2> HIDE DEF c
  <2> QED BY <2>3, ProcFields DEF SameLog
<1>5. IsFile(dag') /\ acked' \subseteq WorkIn(dag'.log)
  BY <1>1, <1>2, <1>3, EmptyLog DEF Absent, IsFile
<1> HIDE DEF m, l, bad
<1> QED BY <1>1, <1>2, <1>3, <1>4, <1>5, Alone, StepKeeps

\* LoadKey and Derive add no event.
LEMMA IdentifyKeeps ==
    ASSUME IInv, NEW p \in Procs, LoadKey(p) \/ Derive(p)
    PROVE  IInv'
<1>1. IsUp(p) /\ IsProc(proc[p]) /\ dag' = dag /\ backup' = backup /\ acked' = acked
  BY DEF LoadKey, Derive, IsUp, IInv
<1>2. ASSUME NEW seed, NEW evidence,
             proc' = [proc EXCEPT ![p] = [proc[p] EXCEPT !.pc = "derive", !.seed = seed,
                                            !.evidence = @ \cup evidence]],
             lock' = lock
      PROVE  IInv'
  <2> DEFINE a == [proc[p] EXCEPT !.pc = "derive"]
             b == [a EXCEPT !.seed = seed]
             e == proc[p].evidence \cup evidence
             k == [b EXCEPT !.evidence = e]
  <2>1. Grown(proc[p], k) /\ k.pc # "down"
    <3>1. IsProc(a) /\ a.log = proc[p].log /\ a.pc = "derive"
      BY <1>1, PcField
    <3> HIDE DEF a, e
    <3>2. IsProc(b) /\ b.log = a.log /\ b.pc = a.pc
      BY <3>1, ProcFields DEF SameLog
    <3> HIDE DEF b
    <3>3. IsProc(k) /\ k.log = b.log /\ k.pc = b.pc
      BY <3>2, ProcFields DEF SameLog
    <3> QED BY <3>1, <3>2, <3>3 DEF Grown
  <2>2. proc' = [proc EXCEPT ![p] = k]
    BY <1>2
  <2> HIDE DEF k
  <2> QED BY <1>1, <1>2, <2>1, <2>2, KeepKeeps
<1>3. ASSUME NEW id, NEW cycle, NEW fresh, NEW evidence,
             proc' = [proc EXCEPT ![p] =
                        [proc[p] EXCEPT !.pc = "report", !.id = id, !.cycle = cycle,
                                        !.fresh = fresh, !.evidence = evidence]],
             lock' = lock
      PROVE  IInv'
  <2> DEFINE a == [proc[p] EXCEPT !.pc = "report"]
             b == [a EXCEPT !.id = id]
             c == [b EXCEPT !.cycle = cycle]
             d == [c EXCEPT !.fresh = fresh]
             k == [d EXCEPT !.evidence = evidence]
  <2>1. Grown(proc[p], k) /\ k.pc # "down"
    <3>1. IsProc(a) /\ a.log = proc[p].log /\ a.pc = "report"
      BY <1>1, PcField
    <3> HIDE DEF a
    <3>2. IsProc(b) /\ b.log = a.log /\ b.pc = a.pc
      BY <3>1, ProcFields DEF SameLog
    <3> HIDE DEF b
    <3>3. IsProc(c) /\ c.log = b.log /\ c.pc = b.pc
      BY <3>2, ProcFields DEF SameLog
    <3> HIDE DEF c
    <3>4. IsProc(d) /\ d.log = c.log /\ d.pc = c.pc
      BY <3>3, ProcFields DEF SameLog
    <3> HIDE DEF d
    <3>5. IsProc(k) /\ k.log = d.log /\ k.pc = d.pc
      BY <3>4, ProcFields DEF SameLog
    <3> QED BY <3>1, <3>2, <3>3, <3>4, <3>5 DEF Grown
  <2>2. proc' = [proc EXCEPT ![p] = k]
    BY <1>3
  <2> HIDE DEF k
  <2> QED BY <1>1, <1>3, <2>1, <2>2, KeepKeeps
<1>4. CASE LoadKey(p)
  <2>1. CASE Ended(p)
    BY <1>1, <2>1, EndKeeps
  <2>2. CASE ~Ended(p)
    BY <1>2, <1>4, <2>2 DEF LoadKey
  <2> QED BY <2>1, <2>2
<1>5. CASE Derive(p)
  <2>1. lock' = lock
    BY <1>5 DEF Derive
  <2> QED BY <1>3, <1>5, <2>1, ZenonT(60) DEF Derive
<1> QED BY <1>4, <1>5

\* Report, Birth and SelfCheck add events, and save them when they can.
LEMMA BirthKeeps ==
    ASSUME IInv, NEW p \in Procs, Report(p) \/ Birth(p) \/ SelfCheck(p)
    PROVE  IInv'
<1>1. /\ IsUp(p) /\ IsProc(proc[p])
      /\ lock' = lock /\ backup' = backup /\ acked' = acked
  BY DEF Report, Birth, SelfCheck, IsUp, IInv, world
<1>2. ASSUME NEW x
      PROVE  LET k == [proc[p] EXCEPT !.pc = x]
             IN  Grown(proc[p], k) /\ k.pc = x
  BY <1>1, PcField DEF Grown
<1>3. CASE Report(p)
  <2>1. CASE proc[p].evidence = {}
    <3> DEFINE k == [proc[p] EXCEPT !.pc = "birth"]
    <3>1. proc' = [proc EXCEPT ![p] = k] /\ dag' = dag
      BY <1>3, <2>1 DEF Report, IInv
    <3>2. Grown(proc[p], k) /\ k.pc # "down"
      BY <1>2
    <3> HIDE DEF k
    <3> QED BY <1>1, <3>1, <3>2, KeepKeeps
  <2>2. CASE proc[p].evidence # {}
    <3>1. PICK next, e :
            Keep(p, [Alarm(proc[p], next) EXCEPT !.evidence = e])
      BY <1>3, <2>2 DEF Report
    <3> DEFINE a == Alarm(proc[p], next)
               k == [a EXCEPT !.evidence = e]
    <3>2. Grown(proc[p], a) /\ a.pc = proc[p].pc
      BY <1>1, EventGrows DEF Alarm
    <3> HIDE DEF a
    <3>3. SameLog(a, k)
      BY <3>2, ProcFields DEF Grown
    <3>4. Grown(proc[p], k) /\ k.pc # "down" /\ Keep(p, k)
      BY <1>1, <3>1, <3>2, <3>3 DEF Grown, SameLog, IsUp, a
    <3> HIDE DEF k
    <3> QED BY <1>1, <3>4, KeepKeeps
  <2> QED BY <2>1, <2>2
<1>4. CASE Birth(p)
  <2> DEFINE m == [proc[p] EXCEPT !.pc = "check"]
             k == Append1(m, Plain("genesis", m.id))
  <2>1. Grown(proc[p], m) /\ m.pc # "down"
    BY <1>2
  <2>2. Keep(p, k) \/ (proc' = [proc EXCEPT ![p] = m] /\ dag' = dag)
    BY <1>4 DEF Birth
  <2> HIDE DEF m
  <2>3. Grown(proc[p], k) /\ k.pc # "down"
    BY <2>1, EventGrows DEF Grown
  <2> HIDE DEF k
  <2> QED BY <1>1, <2>1, <2>2, <2>3, KeepKeeps
<1>5. CASE SelfCheck(p)
  <2> DEFINE m == [proc[p] EXCEPT !.pc = "serve"]
  <2>1. Grown(proc[p], m) /\ m.pc # "down"
    BY <1>2
  <2>2. Keep(p, Checked(m))
    BY <1>5 DEF SelfCheck
  <2> HIDE DEF m
  <2>3. Grown(proc[p], Checked(m)) /\ Checked(m).pc # "down"
    BY <2>1, CheckGrows DEF Grown
  <2> QED BY <1>1, <2>2, <2>3, KeepKeeps
<1> QED BY <1>3, <1>4, <1>5

-----------------------------------------------------------------------------
(* Serving. *)

\* A mutation is acknowledged with the file that holds it.
LEMMA MutateKeeps ==
    ASSUME IInv, NEW p \in Procs, Mutate(p)
    PROVE  IInv'
<1> DEFINE w == used.work
           k == Append1(proc[p], Plain("work", w))
<1>1. /\ IsUp(p) /\ IsProc(proc[p]) /\ lock = p /\ lock' = lock /\ backup' = backup
      /\ IsFile(dag) /\ acked \subseteq WorkIn(dag.log)
      /\ acked \subseteq WorkIn(proc[p].log)
  BY DEF Mutate, Open, IsUp, IInv, world
<1>2. /\ Keep(p, k)
      /\ acked' = IF disk = "ok" THEN acked \cup {w} ELSE acked
  BY DEF Mutate
<1>3. /\ Grown(proc[p], k) /\ k.pc = proc[p].pc /\ w \in WorkIn(k.log)
  BY <1>1, EventGrows DEF Plain, Node
<1> HIDE DEF k, w
<1>4. IsProc(Health(k)) /\ Health(k).log = k.log /\ Health(k).pc # "down"
  BY <1>1, <1>3, HealthGrows DEF Grown, IsUp
<1>5. acked' \subseteq WorkIn(k.log)
  BY <1>1, <1>2, <1>3 DEF Grown
<1>6. IsFile(dag') /\ acked' \subseteq WorkIn(dag'.log)
  <2>1. CASE disk = "full"
    BY <1>1, <1>2, <2>1 DEF Keep, Saved
  <2>2. CASE disk # "full"
    BY <1>2, <1>3, <1>5, <2>2 DEF Keep, Saved, Intact, Grown, IsProc, IsFile
  <2> QED BY <2>1, <2>2
<1>7. IsFile(backup'.dag) /\ backup'.acked \subseteq WorkIn(backup'.dag.log)
  BY <1>1 DEF IInv
<1>8. proc' = [proc EXCEPT ![p] = Health(k)]
  BY <1>2 DEF Keep
<1> QED BY <1>1, <1>4, <1>5, <1>6, <1>7, <1>8, Alone, StepKeeps

\* A backup takes the file and what was acknowledged before it.
LEMMA BackupKeeps ==
    ASSUME IInv, NEW p \in Procs, Backup(p)
    PROVE  IInv'
<1> DEFINE k == Append1(proc[p], Node("backup", 0, proc[p].n))
<1>1. /\ IsUp(p) /\ IsProc(proc[p]) /\ lock = p /\ lock' = lock /\ acked' = acked
      /\ IsFile(dag) /\ acked \subseteq WorkIn(dag.log)
      /\ acked \subseteq WorkIn(proc[p].log)
  BY DEF Backup, Open, IsUp, IInv
<1>2. /\ Keep(p, k) /\ backup'.dag = dag /\ backup'.acked = acked
  BY DEF Backup
<1>3. Grown(proc[p], k) /\ k.pc = proc[p].pc
  BY <1>1, EventGrows
<1> HIDE DEF k
<1>4. IsProc(Health(k)) /\ Health(k).log = k.log /\ Health(k).pc # "down"
  BY <1>1, <1>3, HealthGrows DEF Grown, IsUp
<1>5. IsFile(dag') /\ acked \subseteq WorkIn(dag'.log)
  BY <1>1, <1>2, <1>3, <1>4, SavedFile DEF Keep, Grown, IsProc
<1>6. proc' = [proc EXCEPT ![p] = Health(k)]
  BY <1>2 DEF Keep
<1> QED BY <1>1, <1>2, <1>3, <1>4, <1>5, <1>6, Alone, StepKeeps DEF Grown

\* The other requests, and the tick, add an event or two.
LEMMA ServeKeeps ==
    ASSUME IInv, NEW p \in Procs,
           Hello(p) \/ Perturb(p) \/ ImmuneCheck(p) \/ Advance(p) \/ Tick(p)
    PROVE  IInv'
<1>1. /\ IsUp(p) /\ IsProc(proc[p]) /\ proc[p].pc # "down"
      /\ lock' = lock /\ backup' = backup /\ acked' = acked
  BY DEF Hello, Perturb, ImmuneCheck, Advance, Tick, Open, IsUp, IInv, world
<1>2. CASE Hello(p)
  <2> DEFINE m == [proc[p] EXCEPT !.pc = "open"]
             k == Append1(m, Plain("genesis", m.id))
  <2>1. Grown(proc[p], m) /\ m.pc # "down"
    BY <1>1, PcField DEF Grown
  <2>2. Keep(p, k) \/ (proc' = [proc EXCEPT ![p] = m] /\ dag' = dag)
    BY <1>2 DEF Hello, Backfilled
  <2> HIDE DEF m
  <2>3. Grown(proc[p], k) /\ k.pc # "down"
    BY <2>1, EventGrows DEF Grown
  <2> HIDE DEF k
  <2> QED BY <1>1, <2>1, <2>2, <2>3, KeepKeeps
<1>3. CASE Perturb(p)
  <2> DEFINE k == Append1(proc[p], Plain("work", used.work))
  <2>1. Grown(proc[p], k) /\ k.pc # "down" /\ Keep(p, k)
    BY <1>1, <1>3, EventGrows DEF Perturb
  <2> HIDE DEF k
  <2> QED BY <1>1, <2>1, KeepKeeps
<1>4. CASE ImmuneCheck(p)
  <2>1. Grown(proc[p], Checked(proc[p])) /\ Checked(proc[p]).pc # "down"
        /\ Keep(p, Checked(proc[p]))
    BY <1>1, <1>4, CheckGrows DEF ImmuneCheck
  <2> QED BY <1>1, <2>1, KeepKeeps
<1>5. CASE Advance(p)
  <2> DEFINE x == proc[p].cycle + 1
             c == [proc[p] EXCEPT !.cycle = x]
             k == Append1(c, Plain("cycle", x))
  <2>1. Keep(p, k)
    BY <1>5 DEF Advance
  <2> HIDE DEF x
  <2>2. SameLog(proc[p], c)
    BY <1>1, ProcFields
  <2> HIDE DEF c
  <2>3. Grown(proc[p], k) /\ k.pc # "down"
    BY <1>1, <2>2, EventGrows DEF Grown, SameLog
  <2> HIDE DEF k
  <2> QED BY <1>1, <2>1, <2>3, KeepKeeps
<1>6. CASE Tick(p)
  <2> DEFINE c == [proc[p] EXCEPT !.told = TRUE]
             k == Alarm(c, "C64")
  <2>1. proc' = [proc EXCEPT ![p] = k] /\ dag' = dag
    BY <1>6 DEF Tick, IInv, files
  <2>2. SameLog(proc[p], c)
    BY <1>1, ProcFields
  <2> HIDE DEF c
  <2>3. Grown(proc[p], k) /\ k.pc # "down"
    BY <1>1, <2>2, EventGrows DEF Grown, SameLog, Alarm
  <2> HIDE DEF k
  <2> QED BY <1>1, <2>1, <2>3, KeepKeeps
<1> QED BY <1>2, <1>3, <1>4, <1>5, <1>6

\* SHUTDOWN, and any other end.
LEMMA StopKeeps ==
    ASSUME IInv, NEW p \in Procs, Shutdown(p) \/ Stop(p)
    PROVE  IInv'
BY EndKeeps DEF Shutdown, Stop, Open, IsUp, files

-----------------------------------------------------------------------------
(* The host. *)

\* Between two processes a damaged file loses what was acknowledged, and a restored
\* one is as good as the backup was.
LEMMA DamageKeeps ==
    ASSUME IInv, NEW kind, Damage(kind)
    PROVE  IInv'
<1>1. /\ \A p \in Procs : ~IsUp(p)
      /\ proc' = proc /\ backup' = backup
      /\ dag' = CASE kind = "corruptDag" /\ dag.st = "ok" -> [st |-> "corrupt", log |-> <<>>]
                  [] kind = "newerDag" /\ dag.st = "ok" -> [st |-> "newer", log |-> <<>>]
                  [] kind \in {"restore", "restoreDag"} /\ backup.some -> backup.dag
                  [] OTHER -> dag
      /\ acked' = CASE kind \in {"corruptDag", "newerDag"} -> {}
                    [] kind \in {"restore", "restoreDag"} /\ backup.some -> backup.acked
                    [] OTHER -> acked
  BY DEF Damage
<1>2. /\ IsFile(dag) /\ acked \subseteq WorkIn(dag.log)
      /\ IsFile(backup.dag) /\ backup.acked \subseteq WorkIn(backup.dag.log)
  BY DEF IInv
<1>3. CASE kind \in {"corruptDag", "newerDag"}
  <2>1. acked' = {}
    BY <1>1, <1>3
  <2>2. dag' \in {dag, [st |-> "corrupt", log |-> <<>>], [st |-> "newer", log |-> <<>>]}
    BY <1>1, <1>3
  <2>3. IsFile(dag')
    BY <1>2, <2>2, EmptyLog DEF IsFile
  <2> QED BY <1>1, <1>2, <2>1, <2>3 DEF IInv, IsUp, IsProc, IsFile, IsLog, WorkIn
<1>4. CASE kind \in {"restore", "restoreDag"} /\ backup.some
  <2>1. dag' = backup.dag /\ acked' = backup.acked
    BY <1>1, <1>4
  <2> QED BY <1>1, <1>2, <2>1 DEF IInv, IsUp, IsProc, IsFile, IsLog, WorkIn
<1>5. CASE kind \notin {"corruptDag", "newerDag"} /\ ~(kind \in {"restore", "restoreDag"} /\ backup.some)
  <2>1. dag' = dag /\ acked' = acked
    BY <1>1, <1>5
  <2> QED BY <1>1, <1>2, <2>1 DEF IInv, IsUp, IsProc, IsFile, IsLog, WorkIn
<1> QED BY <1>3, <1>4, <1>5

\* The disk and the key.
LEMMA HostKeeps ==
    ASSUME IInv, DiskFills \/ DiskRecovers \/ RemoveKey \/ UNCHANGED vars
    PROVE  IInv'
<1>1. /\ proc' = proc /\ lock' = lock /\ acked' = acked /\ dag' = dag
      /\ backup' = backup
  BY DEF DiskFills, DiskRecovers, RemoveKey, files, vars
<1> QED BY <1>1 DEF IInv, IsUp, IsProc, IsFile, IsLog, WorkIn

-----------------------------------------------------------------------------
(* The theorem. *)

\* IInv holds at the start.
LEMMA InitIInv == Init => IInv
<1> SUFFICES ASSUME Init PROVE IInv
  OBVIOUS
<1>1. IsFile(Absent) /\ Absent.log = <<>>
  BY EmptyLog DEF IsFile, Absent
<1>2. /\ dag = Absent /\ acked = {} /\ backup.dag = Absent /\ backup.acked = {}
      /\ proc = [p \in Procs |-> Down]
  BY DEF Init
<1>3. \A p \in Procs : proc[p] = Down /\ ~IsUp(p)
  BY <1>2, DownIsProc DEF IsUp
<1>4. proc = [p \in Procs |-> proc[p]]
  BY <1>2
<1> QED BY <1>1, <1>2, <1>3, <1>4, DownIsProc DEF IInv

\* No step breaks it.
LEMMA NextIInv == IInv /\ [Next]_vars => IInv'
BY StartKeeps, IdentifyKeeps, BirthKeeps, MutateKeeps, BackupKeeps, ServeKeeps, StopKeeps,
   DamageKeeps, HostKeeps DEF Next

\* A mutation that SUBMIT_MUTATION acknowledged is in dag.cb, and in every backup
\* taken after it, whatever saves fail and whatever processes come and go.
THEOREM AckedDurable == Spec => []AckedIsDurable
<1>1. IInv => AckedIsDurable
  BY DEF IInv, AckedIsDurable
<1> QED BY <1>1, InitIInv, NextIInv, PTL DEF Spec

-----------------------------------------------------------------------------
(* Who the substrate is, and how old.                                       *)
(*                                                                          *)
(* A process knows its identity and its age from the DAG, or from a         *)
(* snapshot and the rest of the DAG.  So the invariant is about logs: one   *)
(* genesis at most, no cycle before it, the last cycle the number of them,  *)
(* no C9; about snapshots: what they say is what their tip says; and about  *)
(* the process: from Derive on it knows what its log says.                  *)

\* A log the program wrote.
Honest(log) ==
    /\ \A i, j \in At(log, "genesis") : i = j
    /\ \A i \in At(log, "genesis") : log[i].v # 0
    /\ Holds(log, "cycle") => Holds(log, "genesis")
    /\ CycleIn(log, 0) = Advances(log)
    /\ ~Holds(log, "C9")

\* A snapshot that can be decoded says what its tip says.
Faithful(s) ==
    /\ s = [st |-> s.st, tip |-> s.tip, id |-> s.id, cycle |-> s.cycle, signer |-> s.signer]
    /\ s.st = "ok" =>
          /\ IsLog(s.tip) /\ Honest(s.tip) /\ Holds(s.tip, "genesis")
          /\ \A i \in At(s.tip, "genesis") : s.id = s.tip[i].v
          /\ s.cycle = Advances(s.tip)

\* What a process with this identity and this age has in its log.
Agrees(log, id, cycle) ==
    /\ \A i \in At(log, "genesis") : log[i].v = id
    /\ cycle = Advances(log)

Knows(m) == m.id # 0 /\ Agrees(m.log, m.id, m.cycle)

\* What a boot finds to report.
Listed(m) == m.evidence \subseteq {"C4", "C7", "C38", "C42"}

Sound(m) ==
    /\ Honest(m.log) /\ m.n # 0 /\ Listed(m)
    /\ m.pc \notin {"down", "key", "derive"} => Knows(m)
    /\ m.pc = "open" => Holds(m.log, "genesis")

DInv ==
    /\ used = [starts |-> used.starts, work |-> used.work, faults |-> used.faults]
    /\ used.starts \in Nat
    /\ Honest(dag.log) /\ Honest(backup.dag.log)
    /\ Faithful(snap) /\ Faithful(backup.snap)
    /\ \A p \in Procs : IsUp(p) => Sound(proc[p])

\* The natural numbers are well ordered, so a finite set of them has a greatest element.
Less == {p \in Nat \X Nat : p[1] < p[2]}

LEMMA LessWellFounded == IsWellFoundedOn(Less, Nat)
<1>1. IsWellFoundedOn(OpToRel(<, Nat), Nat)
  BY NatLessThanWellFounded
<1>2. OpToRel(<, Nat) = Less
  BY DEF OpToRel, Less
<1> QED BY <1>1, <1>2

LEMMA Least ==
    ASSUME NEW S \in SUBSET Nat, S # {}
    PROVE  \E m \in S : \A n \in S : m <= n
<1>1. PICK m \in S : \A n \in S : ~(<<n, m>> \in Less)
  BY LessWellFounded, WFMin
<1>2. ASSUME NEW n \in S
      PROVE  m <= n
  <2>1. <<n, m>> \in Nat \X Nat /\ <<n, m>>[1] = n /\ <<n, m>>[2] = m
    OBVIOUS
  <2>2. ~(n < m)
    BY <1>1, <2>1 DEF Less
  <2> QED BY <2>2
<1> QED BY <1>2

LEMMA Greatest ==
    ASSUME NEW n \in Nat, NEW S \in SUBSET (1 .. n), S # {}
    PROVE  \E m \in S : \A i \in S : i <= m
<1> DEFINE T == {n - i : i \in S}
<1>1. T \in SUBSET Nat /\ T # {}
  <2>1. ASSUME NEW i \in S
        PROVE  n - i \in Nat
    <3>1. i \in 1 .. n
      OBVIOUS
    <3> QED BY <3>1
  <2>2. PICK i \in S : TRUE
    OBVIOUS
  <2>3. n - i \in T
    BY <2>2
  <2>4. \A t \in T : t \in Nat
    BY <2>1
  <2> QED BY <2>3, <2>4
<1>2. PICK t \in T : \A u \in T : t <= u
  BY <1>1, Least
<1>3. PICK m \in S : t = n - m
  BY <1>2
<1>4. ASSUME NEW i \in S
      PROVE  i <= m
  <2>1. n - i \in T
    OBVIOUS
  <2>2. n - m <= n - i
    BY <1>2, <1>3, <2>1
  <2> QED BY <2>2
<1> QED BY <1>4

\* Positions in a log.
LEMMA AtFinite ==
    ASSUME NEW log, IsLog(log), NEW k
    PROVE  /\ At(log, k) \subseteq 1 .. Len(log) /\ Len(log) \in Nat
           /\ IsFiniteSet(At(log, k)) /\ Cardinality(At(log, k)) \in Nat
           /\ Cardinality(At(log, k)) = 0 <=> At(log, k) = {}
<1>1. PICK S : log \in Seq(S)
  BY DEF IsLog
<1>2. At(log, k) \subseteq 1 .. Len(log) /\ Len(log) \in Nat
  BY <1>1 DEF At
<1>3. IsFiniteSet(1 .. Len(log))
  BY <1>2, FS_Interval
<1>4. IsFiniteSet(At(log, k))
  BY <1>2, <1>3, FS_Subset
<1> QED BY <1>2, <1>4, FS_CardinalityType, FS_EmptySet

\* Positions after a node more.
LEMMA AtAppend ==
    ASSUME NEW log, IsLog(log), NEW node
    PROVE  /\ \A k : At(Append(log, node), k) = IF node.k = k THEN At(log, k) \cup {Len(log) + 1}
                                                  ELSE At(log, k)
           /\ \A i \in DOMAIN log : Append(log, node)[i] = log[i]
           /\ Append(log, node)[Len(log) + 1] = node
           /\ Len(log) \in Nat /\ DOMAIN log = 1 .. Len(log)
<1>1. PICK S : log \in Seq(S)
  BY DEF IsLog
<1> DEFINE T == S \cup {node}
           new == Append(log, node)
<1>2. log \in Seq(T)
  BY <1>1
<1>3. new \in Seq(T) /\ Len(new) = Len(log) + 1 /\ Len(log) \in Nat
  BY <1>2
<1>4. DOMAIN log = 1 .. Len(log) /\ DOMAIN new = 1 .. Len(log) + 1
  BY <1>2, <1>3
<1>5. \A i \in 1 .. Len(log) : new[i] = log[i]
  BY <1>2
<1>6. new[Len(log) + 1] = node
  BY <1>2
<1> HIDE DEF new
<1>7. ASSUME NEW k
      PROVE  At(new, k) = IF node.k = k THEN At(log, k) \cup {Len(log) + 1} ELSE At(log, k)
  <2>1. 1 .. Len(log) + 1 = (1 .. Len(log)) \cup {Len(log) + 1}
    BY <1>3
  <2>2. \A i : i \in At(new, k) <=> i \in 1 .. Len(log) + 1 /\ new[i].k = k
    BY <1>4 DEF At
  <2>3. \A i : i \in At(log, k) <=> i \in 1 .. Len(log) /\ log[i].k = k
    BY <1>4 DEF At
  <2>4. \A i : i \in At(new, k) <=>
              i \in At(log, k) \/ (i = Len(log) + 1 /\ node.k = k)
    BY <1>5, <1>6, <2>1, <2>2, <2>3
  <2> QED BY <2>4
<1> QED BY <1>3, <1>4, <1>5, <1>6, <1>7 DEF new

\* The last node of a type.
LEMMA LatestIs ==
    ASSUME NEW log, IsLog(log), NEW k, NEW i \in At(log, k), \A j \in At(log, k) : j <= i
    PROVE  Holds(log, k) /\ Latest(log, k) = log[i].v
<1>1. At(log, k) \subseteq 1 .. Len(log) /\ Len(log) \in Nat
  BY AtFinite
<1> DEFINE m == CHOOSE x \in At(log, k) : \A j \in At(log, k) : j <= x
<1>2. m \in At(log, k) /\ \A j \in At(log, k) : j <= m
  OBVIOUS
<1>3. m = i
  BY <1>1, <1>2
<1> QED BY <1>3 DEF Latest, Holds

\* There is a last one, if there is one at all.
LEMMA HasLatest ==
    ASSUME NEW log, IsLog(log), NEW k, Holds(log, k)
    PROVE  \E i \in At(log, k) : (\A j \in At(log, k) : j <= i) /\ Latest(log, k) = log[i].v
<1>1. PICK i \in At(log, k) : \A j \in At(log, k) : j <= i
  BY AtFinite, Greatest DEF Holds
<1> QED BY <1>1, LatestIs

\* It stays the last one when nodes of other types are added.
LEMMA LatestStays ==
    ASSUME NEW log, IsLog(log), NEW new, IsLog(new), NEW k, At(new, k) = At(log, k),
           \A i \in At(log, k) : new[i] = log[i]
    PROVE  /\ Holds(new, k) <=> Holds(log, k)
           /\ Holds(log, k) => Latest(new, k) = Latest(log, k)
<1>1. Holds(new, k) <=> Holds(log, k)
  BY DEF Holds
<1>2. ASSUME Holds(log, k)
      PROVE  Latest(new, k) = Latest(log, k)
  <2>1. PICK i \in At(log, k) : (\A j \in At(log, k) : j <= i) /\ Latest(log, k) = log[i].v
    BY <1>2, HasLatest
  <2>2. Latest(new, k) = new[i].v
    BY <2>1, LatestIs
  <2> QED BY <2>1, <2>2
<1> QED BY <1>1, <1>2

-----------------------------------------------------------------------------
(* Honest logs. *)

\* The empty log.
LEMMA HonestEmpty == Honest(<<>>) /\ ~Holds(<<>>, "genesis") /\ Advances(<<>>) = 0
<1>1. \A k : At(<<>>, k) = {}
  BY DEF At
<1>2. Advances(<<>>) = 0
  BY <1>1, FS_EmptySet DEF Advances
<1> QED BY <1>1, <1>2 DEF Honest, Holds, CycleIn

\* A node that says nothing of the identity, nor of the age, nor that they are wrong.
LEMMA HonestPlain ==
    ASSUME NEW log, IsLog(log), Honest(log), NEW node,
           node.k \notin {"genesis", "cycle", "C9"}
    PROVE  LET new == Append(log, node)
           IN  /\ Honest(new)
               /\ Holds(new, "genesis") <=> Holds(log, "genesis")
               /\ \A id, cycle : Agrees(log, id, cycle) => Agrees(new, id, cycle)
<1> DEFINE new == Append(log, node)
<1>1. /\ \A k \in {"genesis", "cycle", "C9"} : At(new, k) = At(log, k)
      /\ \A i \in DOMAIN log : new[i] = log[i]
      /\ \A k : At(log, k) \subseteq DOMAIN log
  BY AtAppend DEF At
<1>2. IsLog(new)
  BY AppendLog
<1> HIDE DEF new
<1>3. /\ Holds(new, "cycle") <=> Holds(log, "cycle")
      /\ Holds(log, "cycle") => Latest(new, "cycle") = Latest(log, "cycle")
  BY <1>1, <1>2, LatestStays
<1>4. CycleIn(new, 0) = CycleIn(log, 0) /\ Advances(new) = Advances(log)
  BY <1>1, <1>3 DEF CycleIn, Advances
<1>5. Honest(new) /\ (Holds(new, "genesis") <=> Holds(log, "genesis"))
  BY <1>1, <1>4 DEF Honest, Holds
<1>6. ASSUME NEW id, NEW cycle, Agrees(log, id, cycle)
      PROVE  Agrees(new, id, cycle)
  BY <1>1, <1>4, <1>6 DEF Agrees
<1> QED BY <1>5, <1>6 DEF new

\* The genesis of a log that has none.
LEMMA HonestGenesis ==
    ASSUME NEW log, IsLog(log), Honest(log), ~Holds(log, "genesis"), NEW id, id # 0,
           NEW cycle, cycle = Advances(log)
    PROVE  LET new == Append(log, Plain("genesis", id))
           IN  Honest(new) /\ Holds(new, "genesis") /\ Agrees(new, id, cycle)
<1> DEFINE node == Plain("genesis", id)
           new == Append(log, node)
<1>1. node.k = "genesis" /\ node.v = id
  BY DEF Plain, Node
<1> HIDE DEF node
<1>2. /\ \A k \in {"cycle", "C9"} : At(new, k) = At(log, k)
      /\ At(new, "genesis") = At(log, "genesis") \cup {Len(log) + 1}
      /\ \A i \in DOMAIN log : new[i] = log[i]
      /\ new[Len(log) + 1] = node
      /\ \A k : At(log, k) \subseteq DOMAIN log
  BY <1>1, AtAppend DEF At
<1>3. IsLog(new)
  BY AppendLog
<1> HIDE DEF new
<1>4. /\ Holds(new, "cycle") <=> Holds(log, "cycle")
      /\ Holds(log, "cycle") => Latest(new, "cycle") = Latest(log, "cycle")
  BY <1>2, <1>3, LatestStays
<1>5. CycleIn(new, 0) = CycleIn(log, 0) /\ Advances(new) = Advances(log)
  BY <1>2, <1>4 DEF CycleIn, Advances
<1>6. At(new, "genesis") = {Len(log) + 1}
  BY <1>2 DEF Holds
<1>7. Honest(new) /\ Holds(new, "genesis") /\ Agrees(new, id, cycle)
  BY <1>1, <1>2, <1>5, <1>6 DEF Honest, Holds, Agrees
<1> QED BY <1>7 DEF new, node

\* The next cycle.
LEMMA HonestCycle ==
    ASSUME NEW log, IsLog(log), Honest(log), Holds(log, "genesis"), NEW id, NEW cycle,
           Agrees(log, id, cycle)
    PROVE  LET new == Append(log, Plain("cycle", cycle + 1))
           IN  Honest(new) /\ Holds(new, "genesis") /\ Agrees(new, id, cycle + 1)
<1> DEFINE node == Plain("cycle", cycle + 1)
           new == Append(log, node)
<1>1. node.k = "cycle" /\ node.v = cycle + 1
  BY DEF Plain, Node
<1> HIDE DEF node
<1>2. /\ \A k \in {"genesis", "C9"} : At(new, k) = At(log, k)
      /\ At(new, "cycle") = At(log, "cycle") \cup {Len(log) + 1}
      /\ \A i \in DOMAIN log : new[i] = log[i]
      /\ new[Len(log) + 1] = node
      /\ \A k : At(log, k) \subseteq DOMAIN log
  BY <1>1, AtAppend DEF At
<1>3. IsLog(new)
  BY AppendLog
<1>4. /\ At(log, "cycle") \subseteq 1 .. Len(log) /\ Len(log) \in Nat
      /\ IsFiniteSet(At(log, "cycle")) /\ Cardinality(At(log, "cycle")) \in Nat
  BY AtFinite
<1> HIDE DEF new
<1>5. Advances(new) = Advances(log) + 1
  <2>1. Len(log) + 1 \notin At(log, "cycle")
    BY <1>4
  <2> QED BY <1>2, <1>4, <2>1, FS_AddElement DEF Advances
<1>6. Holds(new, "cycle") /\ Latest(new, "cycle") = cycle + 1
  <2>1. Len(log) + 1 \in At(new, "cycle") /\ \A j \in At(new, "cycle") : j <= Len(log) + 1
    BY <1>2, <1>4
  <2> QED BY <1>1, <1>2, <1>3, <2>1, LatestIs
<1>7. cycle = Advances(log)
  BY DEF Agrees
<1>8. Honest(new) /\ Holds(new, "genesis") /\ Agrees(new, id, cycle + 1)
  BY <1>2, <1>5, <1>6, <1>7 DEF Honest, Holds, Agrees, CycleIn
<1> QED BY <1>8 DEF new, node
-----------------------------------------------------------------------------
(* What a process derives. *)

\* A record with what the replay of a log gives.
Says(d, log) ==
    /\ d.id # 0 <=> Holds(log, "genesis")
    /\ Agrees(log, d.id, d.cycle)

\* The whole DAG says who the substrate is and how old.
LEMMA DagSays ==
    ASSUME NEW log, IsLog(log), Honest(log)
    PROVE  Says(FromDag(log), log)
<1>1. FromDag(log).id = IdIn(log, 0) /\ FromDag(log).cycle = Advances(log)
  BY DEF FromDag, Replayed, Honest
<1>2. CASE Holds(log, "genesis")
  <2>1. PICK i \in At(log, "genesis") : Latest(log, "genesis") = log[i].v
    BY <1>2, HasLatest
  <2> QED BY <1>1, <1>2, <2>1 DEF Says, Agrees, IdIn, Honest
<1>3. CASE ~Holds(log, "genesis")
  BY <1>1, <1>3 DEF Says, Agrees, IdIn, Holds
<1> QED BY <1>2, <1>3

\* What is left of a log after its first n nodes.
LEMMA SuffixOf ==
    ASSUME NEW S, NEW log \in Seq(S), NEW n \in Nat, n <= Len(log)
    PROVE  LET rest == SubSeq(log, n + 1, Len(log))
           IN  /\ rest \in Seq(S) /\ DOMAIN rest = 1 .. Len(log) - n
               /\ \A i \in 1 .. Len(log) - n : rest[i] = log[n + i]
<1> DEFINE rest == SubSeq(log, n + 1, Len(log))
<1>1. Len(log) \in Nat /\ DOMAIN log = 1 .. Len(log) /\ \A i \in 1 .. Len(log) : log[i] \in S
  OBVIOUS
<1>2. rest = [i \in 1 .. Len(log) - n |-> log[n + i]]
  BY <1>1
<1>3. \A i \in 1 .. Len(log) - n : n + i \in 1 .. Len(log)
  BY <1>1
<1>4. rest \in Seq(S)
  BY <1>1, <1>2, <1>3
<1> QED BY <1>2, <1>4

\* So do a snapshot and the nodes after its tip: the genesis is in the tip, and the
\* last cycle is either after it or in it.
LEMMA SnapshotSays ==
    ASSUME NEW log, IsLog(log), Honest(log), NEW s, Faithful(s), s.st = "ok", TipInDag(s, log)
    PROVE  Says(FromSnapshot(s, log), log)
<1> DEFINE tip == s.tip
           rest == AfterTip(s, log)
           n == Len(tip)
<1>1. /\ IsLog(tip) /\ Honest(tip) /\ Holds(tip, "genesis")
      /\ \A i \in At(tip, "genesis") : s.id = tip[i].v
      /\ s.cycle = Advances(tip)
  BY DEF Faithful
<1>2. PICK S : log \in Seq(S)
  BY DEF IsLog
<1>3. PICK T : tip \in Seq(T)
  BY <1>1 DEF IsLog
<1>4. tip # <<>>
  BY <1>1, HonestEmpty
<1>5. n \in Nat /\ Len(log) \in Nat /\ n <= Len(log) /\ SubSeq(tip, 1, n) = SubSeq(log, 1, n)
  BY <1>2, <1>3, <1>4 DEF TipInDag, IsPrefix
<1>6. /\ DOMAIN tip = 1 .. n /\ DOMAIN log = 1 .. Len(log)
      /\ \A i \in 1 .. n : tip[i] = log[i]
  <2>1. DOMAIN tip = 1 .. n /\ DOMAIN log = 1 .. Len(log)
    BY <1>2, <1>3
  <2>2. ASSUME NEW i \in 1 .. n
        PROVE  tip[i] = log[i]
    <3>1. SubSeq(tip, 1, n)[i] = tip[i]
      BY <1>3, <1>5
    <3>2. SubSeq(log, 1, n)[i] = log[i]
      BY <1>2, <1>5
    <3> QED BY <1>5, <3>1, <3>2
  <2> QED BY <2>1, <2>2
<1>7. rest = SubSeq(log, n + 1, Len(log))
  BY DEF AfterTip
<1> HIDE DEF tip, rest, n
<1>8. /\ IsLog(rest) /\ DOMAIN rest = 1 .. Len(log) - n
      /\ \A i \in 1 .. Len(log) - n : rest[i] = log[n + i]
  BY <1>2, <1>5, <1>7, SuffixOf DEF IsLog
<1>9. \A k : At(tip, k) = At(log, k) \cap (1 .. n)
  BY <1>5, <1>6 DEF At
<1>10. ASSUME NEW k
       PROVE  /\ \A i \in At(rest, k) : n + i \in At(log, k)
              /\ \A i \in At(log, k) : i \in At(tip, k) \/ i - n \in At(rest, k)
  <2>1. \A i \in At(rest, k) : n + i \in At(log, k)
    BY <1>5, <1>6, <1>8 DEF At
  <2>2. ASSUME NEW i \in At(log, k), i \notin At(tip, k)
        PROVE  i - n \in At(rest, k)
    <3>1. i \in 1 .. Len(log) /\ i \notin 1 .. n
      BY <1>6, <1>9, <2>2 DEF At
    <3>2. i - n \in 1 .. Len(log) - n /\ n + (i - n) = i
      BY <1>5, <3>1
    <3> QED BY <1>8, <3>2 DEF At
  <2> QED BY <2>1, <2>2
<1>11. PICK g \in At(tip, "genesis") : TRUE
  BY <1>1 DEF Holds
<1>12. At(log, "genesis") = {g} /\ s.id = log[g].v /\ s.id # 0
  BY <1>1, <1>6, <1>9, <1>11 DEF Honest
<1>13. ~Holds(rest, "genesis")
  <2> SUFFICES ASSUME NEW i \in At(rest, "genesis") PROVE FALSE
    BY DEF Holds
  <2>1. n + i = g
    BY <1>10, <1>12
  <2>2. g \in 1 .. n
    BY <1>9
  <2>3. i \in 1 .. Len(log) - n
    BY <1>8 DEF At
  <2> QED BY <1>5, <2>1, <2>2, <2>3
<1>14. CycleIn(rest, s.cycle) = Advances(log)
  <2>1. CASE Holds(rest, "cycle")
    <3>1. PICK i \in At(rest, "cycle") :
              (\A j \in At(rest, "cycle") : j <= i) /\ Latest(rest, "cycle") = rest[i].v
      BY <1>8, <2>1, HasLatest
    <3>2. i \in 1 .. Len(log) - n
      BY <1>8 DEF At
    <3>3. ASSUME NEW j \in At(log, "cycle")
          PROVE  j <= n + i
      <4>1. CASE j \in At(tip, "cycle")
        BY <1>5, <1>9, <3>2, <4>1
      <4>2. CASE j \notin At(tip, "cycle")
        <5>1. j - n <= i /\ j \in 1 .. Len(log)
          BY <1>6, <1>10, <3>1, <4>2 DEF At
        <5> QED BY <1>5, <3>2, <5>1
      <4> QED BY <4>1, <4>2
    <3>4. Holds(log, "cycle") /\ Latest(log, "cycle") = log[n + i].v
      BY <1>10, <3>3, LatestIs
    <3>5. rest[i] = log[n + i]
      BY <1>8, <3>2
    <3> QED BY <2>1, <3>1, <3>4, <3>5 DEF CycleIn, Honest
  <2>2. CASE ~Holds(rest, "cycle")
    <3>1. At(log, "cycle") = At(tip, "cycle")
      BY <1>9, <1>10, <2>2 DEF Holds
    <3> QED BY <1>1, <2>2, <3>1 DEF CycleIn, Advances
  <2> QED BY <2>1, <2>2
<1>15. FromSnapshot(s, log).id = s.id /\ FromSnapshot(s, log).cycle = Advances(log)
  BY <1>13, <1>14 DEF FromSnapshot, Replayed, IdIn, rest
<1> QED BY <1>12, <1>15 DEF Says, Agrees, Holds

\* So whichever way a process took.
LEMMA DerivedSays ==
    ASSUME NEW m, IsLog(m.log), Honest(m.log), Faithful(snap)
    PROVE  Says(Derived(m), m.log)
<1>1. CASE Decodes /\ ~Foreign(m) /\ TipInDag(snap, m.log)
  BY <1>1, SnapshotSays DEF Derived, Decodes
<1>2. CASE ~(Decodes /\ ~Foreign(m) /\ TipInDag(snap, m.log))
  BY <1>2, DagSays DEF Derived
<1> QED BY <1>1, <1>2

-----------------------------------------------------------------------------
(* Steps. *)

\* k knows what m knows, and its log is as good.
Alike(m, k) ==
    /\ IsProc(k) /\ k.n = m.n /\ k.id = m.id /\ k.cycle = m.cycle
    /\ Listed(m) => Listed(k)
    /\ Honest(m.log) =>
          /\ Honest(k.log)
          /\ Holds(m.log, "genesis") => Holds(k.log, "genesis")
          /\ \A id, cycle : Agrees(m.log, id, cycle) => Agrees(k.log, id, cycle)

\* The fields that say nothing of it.
LEMMA OtherFields ==
    ASSUME NEW m, IsProc(m), NEW x
    PROVE  /\ Alike(m, [m EXCEPT !.pc = x]) /\ Alike(m, [m EXCEPT !.seed = x])
           /\ Alike(m, [m EXCEPT !.fresh = x])
           /\ x \subseteq {"C4", "C7", "C38", "C42"} => Alike(m, [m EXCEPT !.evidence = x])
           /\ Alike(m, [m EXCEPT !.failing = x]) /\ Alike(m, [m EXCEPT !.told = x])
<1>1. ASSUME NEW k, IsProc(k), k.log = m.log, k.n = m.n, k.id = m.id, k.cycle = m.cycle,
             Listed(m) => Listed(k)
      PROVE  Alike(m, k)
  BY <1>1 DEF Alike
<1>2. Alike(m, [m EXCEPT !.pc = x])
  <2> DEFINE k == [m EXCEPT !.pc = x]
  <2>1. k.n = m.n /\ k.id = m.id /\ k.cycle = m.cycle /\ k.evidence = m.evidence
    BY DEF IsProc
  <2> QED BY <1>1, <2>1, PcField DEF Listed
<1>3. Alike(m, [m EXCEPT !.seed = x])
  <2> DEFINE k == [m EXCEPT !.seed = x]
  <2>1. k.n = m.n /\ k.id = m.id /\ k.cycle = m.cycle /\ k.evidence = m.evidence
    BY DEF IsProc
  <2> QED BY <1>1, <2>1, ProcFields DEF SameLog, Listed
<1>4. Alike(m, [m EXCEPT !.fresh = x])
  <2> DEFINE k == [m EXCEPT !.fresh = x]
  <2>1. k.n = m.n /\ k.id = m.id /\ k.cycle = m.cycle /\ k.evidence = m.evidence
    BY DEF IsProc
  <2> QED BY <1>1, <2>1, ProcFields DEF SameLog, Listed
<1>5. ASSUME x \subseteq {"C4", "C7", "C38", "C42"}
      PROVE  Alike(m, [m EXCEPT !.evidence = x])
  <2> DEFINE k == [m EXCEPT !.evidence = x]
  <2>1. k.n = m.n /\ k.id = m.id /\ k.cycle = m.cycle /\ k.evidence = x
    BY DEF IsProc
  <2> QED BY <1>1, <1>5, <2>1, ProcFields DEF SameLog, Listed
<1>6. Alike(m, [m EXCEPT !.failing = x])
  <2> DEFINE k == [m EXCEPT !.failing = x]
  <2>1. k.n = m.n /\ k.id = m.id /\ k.cycle = m.cycle /\ k.evidence = m.evidence
    BY DEF IsProc
  <2> QED BY <1>1, <2>1, ProcFields DEF SameLog, Listed
<1>7. Alike(m, [m EXCEPT !.told = x])
  <2> DEFINE k == [m EXCEPT !.told = x]
  <2>1. k.n = m.n /\ k.id = m.id /\ k.cycle = m.cycle /\ k.evidence = m.evidence
    BY DEF IsProc
  <2> QED BY <1>1, <2>1, ProcFields DEF SameLog, Listed
<1> QED BY <1>2, <1>3, <1>4, <1>5, <1>6, <1>7

\* The fields that do.
LEMMA KnownFields ==
    ASSUME NEW m, IsProc(m), NEW x
    PROVE  /\ LET k == [m EXCEPT !.n = x]
              IN k.n = x /\ k.id = m.id /\ k.cycle = m.cycle /\ k.evidence = m.evidence
           /\ LET k == [m EXCEPT !.id = x]
              IN k.n = m.n /\ k.id = x /\ k.cycle = m.cycle /\ k.evidence = m.evidence
           /\ LET k == [m EXCEPT !.cycle = x]
              IN k.n = m.n /\ k.id = m.id /\ k.cycle = x /\ k.evidence = m.evidence
           /\ LET k == [m EXCEPT !.log = x]
              IN k.n = m.n /\ k.id = m.id /\ k.cycle = m.cycle /\ k.evidence = m.evidence
BY DEF IsProc

\* A node added.
LEMMA Appended ==
    ASSUME NEW m, IsProc(m), NEW node
    PROVE  LET k == Append1(m, node)
           IN  /\ IsProc(k) /\ k.log = Append(m.log, node) /\ k.pc = m.pc
               /\ k.n = m.n /\ k.id = m.id /\ k.cycle = m.cycle /\ k.evidence = m.evidence
<1>1. IsLog(m.log)
  BY DEF IsProc
<1>2. IsLog(Append(m.log, node))
  BY <1>1, AppendLog
<1> DEFINE l == Append(m.log, node)
           k == [m EXCEPT !.log = l]
<1> HIDE DEF l
<1>3. IsProc(k) /\ k.log = l /\ k.pc = m.pc
  BY <1>2, LogField DEF l
<1>4. k.n = m.n /\ k.id = m.id /\ k.cycle = m.cycle /\ k.evidence = m.evidence
  BY KnownFields
<1>5. Append1(m, node) = k
  BY DEF Append1, l
<1> QED BY <1>3, <1>4, <1>5 DEF l

\* A node that says nothing of it.
LEMMA PlainAlike ==
    ASSUME NEW m, IsProc(m), NEW node, node.k \notin {"genesis", "cycle", "C9"}
    PROVE  Alike(m, Append1(m, node)) /\ Append1(m, node).pc = m.pc
<1> DEFINE k == Append1(m, node)
<1>1. /\ IsProc(k) /\ k.log = Append(m.log, node) /\ k.pc = m.pc
      /\ k.n = m.n /\ k.id = m.id /\ k.cycle = m.cycle /\ k.evidence = m.evidence
  BY Appended
<1>2. IsLog(m.log)
  BY DEF IsProc
<1> HIDE DEF k
<1>3. ASSUME Honest(m.log)
      PROVE  /\ Honest(k.log)
             /\ Holds(m.log, "genesis") => Holds(k.log, "genesis")
             /\ \A id, cycle : Agrees(m.log, id, cycle) => Agrees(k.log, id, cycle)
  BY <1>1, <1>2, <1>3, HonestPlain
<1>4. Alike(m, k) /\ k.pc = m.pc
  BY <1>1, <1>3 DEF Alike, Listed
<1> QED BY <1>4 DEF k

\* A sound process stays sound when it goes on alike, unless it comes to know more.
LEMMA AlikeSound ==
    ASSUME NEW m, Sound(m), NEW k, Alike(m, k),
           k.pc \notin {"down", "key", "derive"} => m.pc \notin {"down", "key", "derive"},
           k.pc = "open" => Holds(m.log, "genesis")
    PROVE  Sound(k)
BY DEF Sound, Alike, Knows

\* The account of failed saves.
LEMMA HealthAlike ==
    ASSUME NEW m, IsProc(m)
    PROVE  Alike(m, Health(m)) /\ Health(m).pc = m.pc
<1>1. CASE disk = "full"
  BY <1>1, OtherFields, ProcFields DEF Health, SameLog
<1>2. CASE disk # "full"
  <2> DEFINE k == [m EXCEPT !.failing = FALSE]
  <2>1. Alike(m, k) /\ k.pc = m.pc
    BY OtherFields, ProcFields DEF SameLog
  <2>2. Health(m) = [k EXCEPT !.told = FALSE]
    BY <1>2 DEF Health
  <2> HIDE DEF k
  <2>3. Alike(k, [k EXCEPT !.told = FALSE]) /\ [k EXCEPT !.told = FALSE].pc = k.pc
    BY <2>1, OtherFields, ProcFields, ZenonT(60) DEF SameLog, Alike
  <2> QED BY <2>1, <2>2, <2>3 DEF Alike
<1> QED BY <1>1, <1>2

\* A process that knows what its log says passes the checks.
LEMMA CheckedAlike ==
    ASSUME NEW m, IsProc(m), Honest(m.log), Knows(m)
    PROVE  Alike(m, Checked(m)) /\ Checked(m).pc = m.pc
<1>1. ChecksPass(m)
  BY DEF ChecksPass, GenesisUnique, CyclesTally, Knows, Agrees, Honest
<1>2. Checked(m) = Append1(m, Node("witness", 0, m.n))
  BY <1>1 DEF Checked, Witnessed
<1>3. Node("witness", 0, m.n).k = "witness"
  BY DEF Node
<1> QED BY <1>2, <1>3, PlainAlike

\* A step of the one process that is up, or comes up.
LEMMA StepSound ==
    ASSUME IInv, DInv, NEW p \in Procs, \A q \in Procs : q # p => ~IsUp(q),
           NEW m, proc' = [proc EXCEPT ![p] = m],
           m.pc # "down" => Sound(m),
           used' = [starts |-> used'.starts, work |-> used'.work, faults |-> used'.faults],
           used'.starts \in Nat,
           Honest(dag'.log), Honest(backup'.dag.log), Faithful(snap'), Faithful(backup'.snap)
    PROVE  DInv'
<1>1. \A q \in Procs : proc'[q] = IF q = p THEN m ELSE proc[q]
  BY DEF IInv
<1>2. \A q \in Procs : proc'[q].pc # "down" => Sound(proc'[q])
  BY <1>1 DEF IsUp
<1> QED BY <1>2 DEF DInv, IsUp

\* What the steps of a process seldom touch.
Bounded ==
    /\ used' = [starts |-> used'.starts, work |-> used'.work, faults |-> used'.faults]
    /\ used'.starts \in Nat

LEMMA UsedBounded ==
    ASSUME DInv, used' = used \/ \E n : used' = [used EXCEPT !.work = n]
    PROVE  Bounded
BY DEF DInv, Bounded

\* A step that lengthens the log of the process and saves it, or need not.
LEMMA KeepSound ==
    ASSUME IInv, DInv, NEW p \in Procs, IsUp(p), NEW m, IsProc(m), Sound(m), m.pc # "down",
           Keep(p, m) \/ (proc' = [proc EXCEPT ![p] = m] /\ dag' = dag),
           Bounded, Faithful(snap'), Honest(backup'.dag.log), Faithful(backup'.snap)
    PROVE  DInv'
<1>1. Honest(m.log) /\ Honest(dag.log)
  BY DEF Sound, DInv
<1>2. CASE Keep(p, m)
  <2>1. Honest(dag'.log)
    BY <1>1, <1>2 DEF Keep, Saved, Intact
  <2>2. Sound(Health(m))
    BY HealthAlike, AlikeSound DEF Sound
  <2> QED BY <1>2, <2>1, <2>2, Alone, StepSound DEF Keep, Bounded
<1>3. CASE proc' = [proc EXCEPT ![p] = m] /\ dag' = dag
  BY <1>1, <1>3, Alone, StepSound DEF Bounded
<1> QED BY <1>2, <1>3

\* A step that leaves the process and the logs alone.
LEMMA OthersSound ==
    ASSUME DInv, proc' = proc, Bounded,
           Honest(dag'.log), Honest(backup'.dag.log), Faithful(snap'), Faithful(backup'.snap)
    PROVE  DInv'
BY DEF DInv, Bounded, IsUp

\* What the acting process has.
LEMMA ActorSound ==
    ASSUME IInv, DInv, NEW p \in Procs, IsUp(p)
    PROVE  IsProc(proc[p]) /\ IsLog(proc[p].log) /\ Sound(proc[p]) /\ proc[p].pc # "down"
BY DEF IInv, DInv, IsProc, IsUp

\* Start.
LEMMA StartSound ==
    ASSUME IInv, DInv, NEW p \in Procs, Start(p)
    PROVE  DInv'
<1> DEFINE bad == LoadDag(dag).error
           l == LoadDag(dag).log
           a == [Down EXCEPT !.pc = "key"]
           b == [a EXCEPT !.n = used.starts + 1]
           c == [b EXCEPT !.log = l]
           e == IF bad THEN {"C7"} ELSE {}
           m == [c EXCEPT !.evidence = e]
<1>1. /\ proc' = [proc EXCEPT ![p] = m] /\ lock = None
      /\ dag' = IF bad THEN Absent ELSE dag
      /\ backup' = backup /\ snap' = snap /\ used' = [used EXCEPT !.starts = @ + 1]
  BY DEF Start, MayAcquire
<1>2. IsFile(dag) /\ Honest(dag.log) /\ Honest(backup.dag.log)
      /\ Faithful(snap) /\ Faithful(backup.snap)
      /\ used = [starts |-> used.starts, work |-> used.work, faults |-> used.faults]
      /\ used.starts \in Nat
  BY DEF IInv, DInv
<1>3. l = dag.log /\ IsLog(l)
  BY <1>2, EmptyLog DEF LoadDag, IsFile
<1>4. m.n = used.starts + 1 /\ m.log = l /\ m.pc = "key" /\ m.evidence = e
  BY DEF Down
<1>5. Sound(m)
  <2>1. Honest(m.log) /\ m.n # 0
    BY <1>2, <1>3, <1>4
  <2>2. Listed(m)
    BY <1>4 DEF Listed
  <2> QED BY <1>4, <2>1, <2>2 DEF Sound
<1>6. /\ used' = [starts |-> used'.starts, work |-> used'.work, faults |-> used'.faults]
      /\ used'.starts \in Nat
  BY <1>1, <1>2
<1>7. Honest(dag'.log)
  BY <1>1, <1>2, HonestEmpty DEF Absent
<1> HIDE DEF m, l, bad
<1> QED BY <1>1, <1>2, <1>5, <1>6, <1>7, Alone, StepSound

\* The end of a process.
LEMMA EndSound ==
    ASSUME IInv, DInv, NEW p \in Procs, IsUp(p), Ended(p),
           dag' = dag \/ dag' = Saved(dag, proc[p].log),
           backup' = backup, snap' = snap, used' = used
    PROVE  DInv'
<1>1. Honest(dag'.log)
  BY ActorSound DEF DInv, Saved, Intact, Sound
<1> QED BY <1>1, Alone, StepSound, DownIsProc DEF Ended, DInv

\* LoadKey.
LEMMA KeySound ==
    ASSUME IInv, DInv, NEW p \in Procs, LoadKey(p)
    PROVE  DInv'
<1>1. /\ IsUp(p) /\ dag' = dag /\ backup' = backup /\ snap' = snap /\ used' = used
  BY DEF LoadKey, IsUp
<1>2. ASSUME NEW seed, NEW evidence, evidence \subseteq {"C4"},
             proc' = [proc EXCEPT ![p] = [proc[p] EXCEPT !.pc = "derive", !.seed = seed,
                                            !.evidence = @ \cup evidence]]
      PROVE  DInv'
  <2> DEFINE a == [proc[p] EXCEPT !.pc = "derive"]
             b == [a EXCEPT !.seed = seed]
             e == proc[p].evidence \cup evidence
             k == [b EXCEPT !.evidence = e]
  <2>1. IsProc(proc[p]) /\ Sound(proc[p])
    BY <1>1, ActorSound
  <2>2. e \subseteq {"C4", "C7", "C38", "C42"}
    BY <1>2, <2>1 DEF Sound, Listed
  <2>3. proc' = [proc EXCEPT ![p] = k]
    BY <1>2
  <2>4. Alike(proc[p], a) /\ a.pc = "derive"
    BY <2>1, OtherFields, PcField
  <2> HIDE DEF a, e
  <2>5. Alike(a, b) /\ b.pc = "derive"
    BY <2>4, OtherFields, ProcFields, ZenonT(60) DEF Alike, SameLog
  <2> HIDE DEF b
  <2>6. Alike(b, k) /\ k.pc = "derive"
    <3>1. IsProc(b)
      BY <2>5 DEF Alike
    <3>2. Alike(b, k)
      BY <2>2, <3>1, OtherFields
    <3>3. k.pc = b.pc
      BY <3>1, ProcFields DEF SameLog
    <3> QED BY <2>5, <3>2, <3>3
  <2> HIDE DEF k
  <2>7. Alike(proc[p], k)
    BY <2>4, <2>5, <2>6 DEF Alike
  <2>8. Sound(k)
    BY <2>1, <2>6, <2>7, AlikeSound
  <2> QED BY <1>1, <2>3, <2>6, <2>8, Alone, StepSound DEF DInv
<1>3. CASE Ended(p)
  BY <1>1, <1>3, EndSound
<1>4. CASE ~Ended(p)
  <2> DEFINE held(seed, evidence) ==
               [proc EXCEPT ![p] = [proc[p] EXCEPT !.pc = "derive", !.seed = seed,
                                                   !.evidence = @ \cup evidence]]
  <2>1. \/ proc' = held(proc[p].n, {})
        \/ proc' = held(key.seed, IF Exposed THEN {"C4"} ELSE {})
    BY <1>4 DEF LoadKey
  <2>2. CASE proc' = held(proc[p].n, {})
    <3> DEFINE e == {}
    <3>1. e \subseteq {"C4"} /\ proc' = held(proc[p].n, e)
      BY <2>2
    <3> HIDE DEF e
    <3> QED BY <1>2, <3>1
  <2>3. CASE proc' = held(key.seed, IF Exposed THEN {"C4"} ELSE {})
    <3> DEFINE e == IF Exposed THEN {"C4"} ELSE {}
    <3>1. e \subseteq {"C4"} /\ proc' = held(key.seed, e)
      BY <2>3
    <3> HIDE DEF e
    <3> QED BY <1>2, <3>1
  <2> QED BY <2>1, <2>2, <2>3
<1> QED BY <1>3, <1>4

\* Derive: from here on the process knows who it is.
LEMMA DeriveSound ==
    ASSUME IInv, DInv, NEW p \in Procs, Derive(p)
    PROVE  DInv'
<1> DEFINE m == proc[p]
           d == Derived(m)
           known == d.id # 0
           id == IF known THEN d.id ELSE IdOf(m)
           cycle == IF known THEN d.cycle ELSE 0
           fresh == ~known /\ manifest # "legacy"
           e == m.evidence \cup (IF Foreign(m) THEN {"C38"} ELSE {})
                           \cup (IF ~known /\ manifest = "corrupt" THEN {"C42"} ELSE {})
           k == [m EXCEPT !.pc = "report", !.id = id, !.cycle = cycle, !.fresh = fresh,
                          !.evidence = e]
<1>1. /\ IsUp(p) /\ dag' = dag /\ backup' = backup /\ snap' = snap /\ used' = used
      /\ proc' = [proc EXCEPT ![p] = k]
  BY DEF Derive, IsUp
<1>2. IsProc(m) /\ IsLog(m.log) /\ Sound(m)
  BY <1>1, ActorSound
<1>3. Says(d, m.log)
  BY <1>2, DerivedSays DEF Sound, DInv
<1>4. /\ k.log = m.log /\ k.n = m.n /\ k.id = id /\ k.cycle = cycle /\ k.evidence = e
      /\ k.pc = "report"
  BY <1>2 DEF IsProc
<1> HIDE DEF d
<1>5. id # 0
  BY <1>2, StoreAssumption DEF IdOf, LegacyId, Sound
<1>6. Agrees(m.log, id, cycle)
  <2>1. CASE known
    BY <1>3, <2>1 DEF Says
  <2>2. CASE ~known
    <3>1. ~Holds(m.log, "genesis") /\ ~Holds(m.log, "cycle")
      BY <1>2, <1>3, <2>2 DEF Says, Sound, Honest
    <3>2. Advances(m.log) = 0
      BY <1>2, <3>1 DEF Sound, Honest, CycleIn
    <3> QED BY <2>2, <3>1, <3>2 DEF Agrees, Holds
  <2> QED BY <2>1, <2>2
<1>7. e \subseteq {"C4", "C7", "C38", "C42"}
  BY <1>2 DEF Sound, Listed
<1> HIDE DEF k, id, cycle, e
<1>8. Sound(k)
  BY <1>2, <1>4, <1>5, <1>6, <1>7 DEF Sound, Knows, Listed
<1> QED BY <1>1, <1>4, <1>8, Alone, StepSound DEF DInv

\* Report: the evidence is one of the four alarms of a boot.
LEMMA ReportSound ==
    ASSUME IInv, DInv, NEW p \in Procs, Report(p)
    PROVE  DInv'
<1> DEFINE m == proc[p]
<1>1. /\ IsUp(p) /\ m.pc = "report"
      /\ backup' = backup /\ snap' = snap /\ used' = used
  BY DEF Report, IsUp, world
<1>2. IsProc(m) /\ Sound(m)
  BY <1>1, ActorSound
<1>3. Bounded /\ Faithful(snap') /\ Honest(backup'.dag.log) /\ Faithful(backup'.snap)
  BY <1>1, UsedBounded DEF DInv
<1>4. CASE m.evidence = {}
  <2> DEFINE k == [m EXCEPT !.pc = "birth"]
  <2>1. proc' = [proc EXCEPT ![p] = k] /\ dag' = dag
    BY <1>4 DEF Report, IInv
  <2>2. Alike(m, k) /\ k.pc = "birth"
    BY <1>2, OtherFields, PcField
  <2> HIDE DEF k
  <2>3. Sound(k) /\ IsProc(k)
    BY <1>1, <1>2, <2>2, AlikeSound DEF Alike
  <2> QED BY <1>1, <1>3, <2>1, <2>2, <2>3, KeepSound
<1>5. CASE m.evidence # {}
  <2> DEFINE rank == [C38 |-> 1, C4 |-> 2, C7 |-> 3, C42 |-> 4]
             next == CHOOSE k \in m.evidence : \A j \in m.evidence : rank[k] =< rank[j]
             e == m.evidence \ {next}
             a == Alarm(m, next)
             k == [a EXCEPT !.evidence = e]
  <2>1. Keep(p, [a EXCEPT !.evidence = @ \ {next}])
    BY <1>5 DEF Report
  <2>2. next \in {"C4", "C7", "C38", "C42"}
    <3>1. m.evidence \subseteq {"C4", "C7", "C38", "C42"}
      BY <1>2 DEF Sound, Listed
    <3>2. /\ rank["C38"] = 1 /\ rank["C4"] = 2 /\ rank["C7"] = 3 /\ rank["C42"] = 4
      OBVIOUS
    <3> HIDE DEF rank
    <3>3. \E x \in m.evidence : \A j \in m.evidence : rank[x] =< rank[j]
      BY <1>5, <3>1, <3>2
    <3>4. next \in m.evidence
      BY <3>3
    <3> QED BY <3>1, <3>4
  <2> HIDE DEF next
  <2>3. Alike(m, a) /\ a.pc = "report"
    <3>1. Node(next, 0, m.n).k \notin {"genesis", "cycle", "C9"}
      BY <2>2 DEF Node
    <3> QED BY <1>1, <1>2, <3>1, PlainAlike DEF Alarm
  <2>4. a.evidence = m.evidence
    BY <1>2, Appended DEF Alarm
  <2>5. Keep(p, k)
    BY <2>1, <2>4
  <2> HIDE DEF a
  <2>6. IsProc(a) /\ Listed(m)
    BY <1>2, <2>3 DEF Alike, Sound
  <2>7. e \subseteq {"C4", "C7", "C38", "C42"}
    BY <2>6 DEF Listed
  <2>8. k.pc = a.pc
    BY <2>6, ProcFields DEF SameLog
  <2>9. Alike(a, k)
    BY <2>6, <2>7, OtherFields
  <2> HIDE DEF k
  <2>10. Alike(m, k)
    BY <2>3, <2>9 DEF Alike
  <2>11. Sound(k) /\ IsProc(k) /\ k.pc = "report"
    BY <1>1, <1>2, <2>3, <2>8, <2>10, AlikeSound DEF Alike
  <2> QED BY <1>1, <1>3, <2>5, <2>11, KeepSound
<1> QED BY <1>4, <1>5

\* A genesis with the identity of the process, on a log that has none.
LEMMA GenesisSound ==
    ASSUME NEW m, IsProc(m), Sound(m), Knows(m), ~Holds(m.log, "genesis"), m.pc # "down"
    PROVE  LET k == Append1(m, Plain("genesis", m.id))
           IN  /\ IsProc(k) /\ Sound(k) /\ k.pc = m.pc
<1> DEFINE k == Append1(m, Plain("genesis", m.id))
<1>1. /\ IsProc(k) /\ k.log = Append(m.log, Plain("genesis", m.id)) /\ k.pc = m.pc
      /\ k.n = m.n /\ k.id = m.id /\ k.cycle = m.cycle /\ k.evidence = m.evidence
  BY Appended
<1>2. IsLog(m.log) /\ Honest(m.log) /\ m.id # 0 /\ m.cycle = Advances(m.log)
  BY DEF IsProc, Sound, Knows, Agrees
<1> HIDE DEF k
<1>3. Honest(k.log) /\ Holds(k.log, "genesis") /\ Agrees(k.log, m.id, m.cycle)
  BY <1>1, <1>2, HonestGenesis
<1>4. Sound(k)
  BY <1>1, <1>2, <1>3 DEF Sound, Knows, Listed
<1> QED BY <1>1, <1>4 DEF k

\* The same process at another step.
LEMMA PcSound ==
    ASSUME NEW m, IsProc(m), Sound(m), m.pc \notin {"down", "key", "derive"}, NEW x,
           x = "open" => Holds(m.log, "genesis")
    PROVE  LET k == [m EXCEPT !.pc = x]
           IN  /\ IsProc(k) /\ Sound(k) /\ Knows(k) /\ k.log = m.log /\ k.pc = x
               /\ k.id = m.id /\ k.cycle = m.cycle
<1> DEFINE k == [m EXCEPT !.pc = x]
<1>1. Alike(m, k) /\ k.pc = x /\ k.log = m.log
  BY OtherFields, PcField
<1> HIDE DEF k
<1>2. Sound(k)
  BY <1>1, AlikeSound
<1>3. Knows(k)
  BY <1>1 DEF Alike, Sound, Knows
<1> QED BY <1>1, <1>2, <1>3 DEF Alike, k

\* Birth: a fresh substrate on an empty log.
LEMMA BirthSound ==
    ASSUME IInv, DInv, NEW p \in Procs, Birth(p)
    PROVE  DInv'
<1> DEFINE m == [proc[p] EXCEPT !.pc = "check"]
           k == Append1(m, Plain("genesis", m.id))
<1>1. /\ IsUp(p) /\ proc[p].pc = "birth"
      /\ backup' = backup /\ snap' = snap /\ used' = used
  BY DEF Birth, IsUp, world
<1>2. Bounded /\ Faithful(snap') /\ Honest(backup'.dag.log) /\ Faithful(backup'.snap)
  BY <1>1, UsedBounded DEF DInv
<1>3. IsProc(m) /\ Sound(m) /\ Knows(m) /\ m.pc = "check"
  BY <1>1, ActorSound, PcSound
<1>4. \/ Keep(p, k) /\ m.log = <<>>
      \/ proc' = [proc EXCEPT ![p] = m] /\ dag' = dag
  BY DEF Birth
<1> HIDE DEF m
<1>5. CASE Keep(p, k) /\ m.log = <<>>
  <2>1. IsProc(k) /\ Sound(k) /\ k.pc = "check"
    BY <1>3, <1>5, HonestEmpty, GenesisSound
  <2> HIDE DEF k
  <2> QED BY <1>1, <1>2, <1>5, <2>1, KeepSound
<1>6. CASE proc' = [proc EXCEPT ![p] = m] /\ dag' = dag
  BY <1>1, <1>2, <1>3, <1>6, KeepSound
<1> QED BY <1>4, <1>5, <1>6

\* Hello: the genesis of a log that lost it.
LEMMA HelloSound ==
    ASSUME IInv, DInv, NEW p \in Procs, Hello(p)
    PROVE  DInv'
<1> DEFINE s == [proc[p] EXCEPT !.pc = "serve"]
           m == [proc[p] EXCEPT !.pc = "open"]
           k == Append1(m, Plain("genesis", m.id))
<1>1. /\ IsUp(p) /\ proc[p].pc = "serve"
      /\ backup' = backup /\ snap' = snap /\ used' = used
  BY DEF Hello, IsUp, world
<1>2. Bounded /\ Faithful(snap') /\ Honest(backup'.dag.log) /\ Faithful(backup'.snap)
  BY <1>1, UsedBounded DEF DInv
<1>3. IsProc(proc[p]) /\ IsLog(proc[p].log) /\ Sound(proc[p]) /\ Knows(proc[p])
  BY <1>1, ActorSound DEF Sound
<1>4. Alike(proc[p], m) /\ m.log = proc[p].log /\ m.pc = "open"
  BY <1>3, OtherFields, PcField
<1>5. IF FromDag(m.log).id = 0 THEN Keep(p, k)
      ELSE proc' = [proc EXCEPT ![p] = m] /\ dag' = dag
  BY DEF Hello, Backfilled
<1> HIDE DEF m
<1>6. Says(FromDag(m.log), m.log)
  BY <1>3, <1>4, DagSays DEF Sound
<1>7. IsProc(m) /\ m.pc # "down"
  BY <1>4 DEF Alike
<1>8. CASE FromDag(m.log).id = 0
  <2>1. /\ IsProc(k) /\ k.log = Append(m.log, Plain("genesis", m.id)) /\ k.pc = "open"
        /\ k.n = m.n /\ k.id = m.id /\ k.cycle = m.cycle /\ k.evidence = m.evidence
    BY <1>4, <1>7, Appended
  <2>2. /\ IsLog(m.log) /\ Honest(m.log) /\ ~Holds(m.log, "genesis")
        /\ m.id # 0 /\ m.cycle = Advances(m.log) /\ m.n # 0 /\ Listed(m)
    BY <1>3, <1>4, <1>6, <1>8 DEF Says, Alike, Sound, Knows, Agrees
  <2>3. Keep(p, k)
    BY <1>5, <1>8
  <2> HIDE DEF k
  <2>4. Honest(k.log) /\ Holds(k.log, "genesis") /\ Agrees(k.log, m.id, m.cycle)
    BY <2>1, <2>2, HonestGenesis
  <2>5. Sound(k)
    BY <2>1, <2>2, <2>4 DEF Sound, Knows, Listed
  <2> QED BY <1>1, <1>2, <2>1, <2>3, <2>5, KeepSound
<1>9. CASE FromDag(m.log).id # 0
  <2>1. Holds(m.log, "genesis")
    BY <1>6, <1>9 DEF Says
  <2>2. Sound(m)
    BY <1>1, <1>3, <1>4, <2>1, AlikeSound
  <2>3. proc' = [proc EXCEPT ![p] = m] /\ dag' = dag
    BY <1>5, <1>9
  <2> QED BY <1>1, <1>2, <1>7, <2>2, <2>3, KeepSound
<1> QED BY <1>8, <1>9

\* The checks, at boot and on request.
LEMMA CheckSound ==
    ASSUME IInv, DInv, NEW p \in Procs, SelfCheck(p) \/ ImmuneCheck(p)
    PROVE  DInv'
<1>1. /\ IsUp(p) /\ proc[p].pc \in {"check", "open"}
      /\ backup' = backup /\ snap' = snap
      /\ used' = used \/ \E n : used' = [used EXCEPT !.work = n]
  BY DEF SelfCheck, ImmuneCheck, Open, Worked, IsUp, world
<1>2. Bounded /\ Faithful(snap') /\ Honest(backup'.dag.log) /\ Faithful(backup'.snap)
  BY <1>1, UsedBounded DEF DInv
<1>3. IsProc(proc[p]) /\ Sound(proc[p]) /\ Knows(proc[p])
  BY <1>1, ActorSound DEF Sound
<1>4. ASSUME NEW m, IsProc(m), Sound(m), Knows(m), m.pc \in {"serve", "open"},
             Keep(p, Checked(m))
      PROVE  DInv'
  <2> DEFINE k == Checked(m)
  <2>1. Alike(m, k) /\ k.pc = m.pc
    BY <1>4, CheckedAlike DEF Sound
  <2>2. Keep(p, k)
    BY <1>4
  <2> HIDE DEF k
  <2>3. Sound(k) /\ IsProc(k)
    BY <1>4, <2>1, AlikeSound DEF Alike, Sound
  <2> QED BY <1>1, <1>2, <1>4, <2>1, <2>2, <2>3, KeepSound
<1>5. CASE SelfCheck(p)
  <2> DEFINE m == [proc[p] EXCEPT !.pc = "serve"]
  <2>1. IsProc(m) /\ Sound(m) /\ Knows(m) /\ m.pc = "serve"
    BY <1>1, <1>3, PcSound
  <2>2. Keep(p, Checked(m))
    BY <1>5 DEF SelfCheck
  <2> HIDE DEF m
  <2> QED BY <1>4, <2>1, <2>2
<1>6. CASE ImmuneCheck(p)
  BY <1>3, <1>4, <1>6 DEF ImmuneCheck, Open
<1> QED BY <1>5, <1>6

\* A request that adds a node which says nothing of the identity or the age.
LEMMA WorkSound ==
    ASSUME IInv, DInv, NEW p \in Procs, Open(p), NEW node,
           node.k \notin {"genesis", "cycle", "C9"}, Keep(p, Append1(proc[p], node)),
           Bounded, Faithful(snap'), Honest(backup'.dag.log), Faithful(backup'.snap)
    PROVE  DInv'
<1> DEFINE k == Append1(proc[p], node)
<1>1. IsUp(p) /\ IsProc(proc[p]) /\ Sound(proc[p]) /\ proc[p].pc = "open"
  BY ActorSound DEF Open, IsUp
<1>2. Alike(proc[p], k) /\ k.pc = "open"
  BY <1>1, PlainAlike
<1>3. Keep(p, k)
  OBVIOUS
<1> HIDE DEF k
<1>4. Sound(k) /\ IsProc(k)
  BY <1>1, <1>2, AlikeSound DEF Alike, Sound
<1> QED BY <1>1, <1>2, <1>3, <1>4, KeepSound

\* SUBMIT_MUTATION, PERTURB and EXPORT_BACKUP_TO_DIR.
LEMMA RequestSound ==
    ASSUME IInv, DInv, NEW p \in Procs, Mutate(p) \/ Perturb(p) \/ Backup(p)
    PROVE  DInv'
<1>1. /\ Open(p) /\ snap' = snap
      /\ used' = used \/ \E n : used' = [used EXCEPT !.work = n]
      /\ backup' = backup \/ (backup'.dag = dag /\ backup'.snap = snap)
  BY DEF Mutate, Perturb, Backup, Worked, world
<1>2. Bounded /\ Faithful(snap') /\ Honest(backup'.dag.log) /\ Faithful(backup'.snap)
  BY <1>1, UsedBounded DEF DInv
<1>3. CASE Mutate(p) \/ Perturb(p)
  <2>1. Keep(p, Append1(proc[p], Plain("work", used.work)))
    BY <1>3 DEF Mutate, Perturb
  <2>2. Plain("work", used.work).k = "work"
    BY DEF Plain, Node
  <2> QED BY <1>1, <1>2, <2>1, <2>2, WorkSound
<1>4. CASE Backup(p)
  <2>1. Keep(p, Append1(proc[p], Node("backup", 0, proc[p].n)))
    BY <1>4 DEF Backup
  <2>2. Node("backup", 0, proc[p].n).k = "backup"
    BY DEF Node
  <2> QED BY <1>1, <1>2, <2>1, <2>2, WorkSound
<1> QED BY <1>3, <1>4

\* Advance: the event, the counter and the snapshot move together.
LEMMA AdvanceSound ==
    ASSUME IInv, DInv, NEW p \in Procs, Advance(p)
    PROVE  DInv'
<1> DEFINE m == proc[p]
           x == m.cycle + 1
           c == [m EXCEPT !.cycle = x]
           k == Append1(c, Plain("cycle", x))
<1>1. /\ IsUp(p) /\ m.pc = "open" /\ Keep(p, k)
      /\ snap' = IF disk = "ok" THEN SnapSaved(k) ELSE snap
      /\ backup' = backup /\ used' = used
  BY DEF Advance, Open, IsUp, world
<1>2. IsProc(m) /\ IsLog(m.log) /\ Sound(m)
  BY <1>1, ActorSound
<1>3. Honest(m.log) /\ Holds(m.log, "genesis") /\ Agrees(m.log, m.id, m.cycle)
      /\ m.id # 0 /\ m.n # 0 /\ Listed(m)
  BY <1>1, <1>2 DEF Sound, Knows
<1>4. IsProc(c) /\ c.log = m.log /\ c.pc = m.pc
  BY <1>2, ProcFields DEF SameLog
<1>5. c.n = m.n /\ c.id = m.id /\ c.cycle = x /\ c.evidence = m.evidence
  BY <1>2, KnownFields
<1> HIDE DEF c
<1>6. /\ IsProc(k) /\ k.log = Append(m.log, Plain("cycle", x)) /\ k.pc = "open"
      /\ k.n = m.n /\ k.id = m.id /\ k.cycle = x /\ k.evidence = m.evidence
  BY <1>1, <1>4, <1>5, Appended
<1> HIDE DEF k
<1>7. Honest(k.log) /\ Holds(k.log, "genesis") /\ Agrees(k.log, k.id, k.cycle)
  BY <1>2, <1>3, <1>6, HonestCycle
<1> HIDE DEF x
<1>8. Sound(k)
  BY <1>3, <1>6, <1>7 DEF Sound, Knows, Listed
<1>9. Faithful(SnapshotOf(k))
  <2>1. IsLog(k.log)
    BY <1>6 DEF IsProc
  <2> QED BY <1>7, <2>1 DEF Faithful, SnapshotOf, Agrees
<1>10. Faithful(snap')
  BY <1>1, <1>9 DEF SnapSaved, DInv
<1>11. Bounded /\ Honest(backup'.dag.log) /\ Faithful(backup'.snap)
  BY <1>1, UsedBounded DEF DInv
<1> QED BY <1>1, <1>6, <1>8, <1>10, <1>11, KeepSound

\* Tick.
LEMMA TickSound ==
    ASSUME IInv, DInv, NEW p \in Procs, Tick(p)
    PROVE  DInv'
<1> DEFINE c == [proc[p] EXCEPT !.told = TRUE]
           k == Alarm(c, "C64")
<1>1. /\ IsUp(p) /\ proc[p].pc = "open" /\ proc' = [proc EXCEPT ![p] = k]
      /\ dag' = dag /\ snap' = snap /\ backup' = backup /\ used' = used
  BY DEF Tick, Open, IsUp, IInv, files
<1>2. IsProc(proc[p]) /\ Sound(proc[p])
  BY <1>1, ActorSound
<1>3. Alike(proc[p], c) /\ c.pc = "open"
  BY <1>1, <1>2, OtherFields, ProcFields DEF SameLog
<1> HIDE DEF c
<1>4. Alike(c, k) /\ k.pc = "open"
  <2>1. Node("C64", 0, c.n).k = "C64"
    BY DEF Node
  <2> QED BY <1>3, <2>1, PlainAlike DEF Alarm, Alike
<1> HIDE DEF k
<1>5. Alike(proc[p], k)
  BY <1>3, <1>4 DEF Alike
<1>6. Sound(k) /\ IsProc(k)
  BY <1>1, <1>2, <1>4, <1>5, AlikeSound DEF Alike, Sound
<1>7. Bounded /\ Faithful(snap') /\ Honest(backup'.dag.log) /\ Faithful(backup'.snap)
  BY <1>1, UsedBounded DEF DInv
<1> QED BY <1>1, <1>4, <1>6, <1>7, KeepSound

\* SHUTDOWN, and any other end.
LEMMA StopSound ==
    ASSUME IInv, DInv, NEW p \in Procs, Shutdown(p) \/ Stop(p)
    PROVE  DInv'
BY EndSound DEF Shutdown, Stop, Open, IsUp, files

\* Damage: a file is lost, or is what it was, or what the backup was.
LEMMA DamageSound ==
    ASSUME IInv, DInv, NEW kind, Damage(kind)
    PROVE  DInv'
<1>1. proc' = proc /\ backup' = backup /\ \E n : used' = [used EXCEPT !.faults = n]
  BY DEF Damage, Faulted
<1>2. dag' \in {dag, backup.dag, [st |-> "corrupt", log |-> <<>>], [st |-> "newer", log |-> <<>>]}
  BY DEF Damage
<1>3. Honest(dag'.log)
  BY <1>2, HonestEmpty DEF DInv
<1>4. snap' \in {snap, backup.snap, NoSnapshot, [snap EXCEPT !.signer = 0]}
  BY DEF Damage
<1>5. Faithful(NoSnapshot)
  BY DEF Faithful, NoSnapshot
<1>6. Faithful([snap EXCEPT !.signer = 0])
  <2> DEFINE s == [snap EXCEPT !.signer = 0]
  <2>1. Faithful(snap)
    BY DEF DInv
  <2>2. /\ s = [st |-> s.st, tip |-> s.tip, id |-> s.id, cycle |-> s.cycle, signer |-> s.signer]
        /\ s.st = snap.st /\ s.tip = snap.tip /\ s.id = snap.id /\ s.cycle = snap.cycle
    BY <2>1 DEF Faithful
  <2> QED BY <2>1, <2>2 DEF Faithful
<1>7. Faithful(snap')
  BY <1>4, <1>5, <1>6 DEF DInv
<1>8. Bounded
  BY <1>1 DEF Bounded, DInv
<1> QED BY <1>1, <1>3, <1>7, <1>8, OthersSound DEF DInv

\* The disk and the key.
LEMMA HostSound ==
    ASSUME IInv, DInv, DiskFills \/ DiskRecovers \/ RemoveKey \/ UNCHANGED vars
    PROVE  DInv'
<1>1. /\ proc' = proc /\ dag' = dag /\ snap' = snap /\ backup' = backup
      /\ used' = used \/ \E n : used' = [used EXCEPT !.faults = n]
  BY DEF DiskFills, DiskRecovers, RemoveKey, Faulted, files, vars
<1>2. Bounded
  BY <1>1 DEF Bounded, DInv
<1> QED BY <1>1, <1>2, OthersSound DEF DInv

\* DInv holds at the start.
LEMMA InitSound == Init => DInv
<1> SUFFICES ASSUME Init PROVE DInv
  OBVIOUS
<1>1. /\ dag = Absent /\ snap = NoSnapshot /\ backup.dag = Absent /\ backup.snap = NoSnapshot
      /\ used = [starts |-> 0, work |-> 0, faults |-> 0]
      /\ proc = [p \in Procs |-> Down]
  BY DEF Init
<1>2. Faithful(NoSnapshot)
  BY DEF Faithful, NoSnapshot
<1>3. \A p \in Procs : ~IsUp(p)
  BY <1>1, DownIsProc DEF IsUp
<1> QED BY <1>1, <1>2, <1>3, HonestEmpty DEF DInv, Absent

\* No step breaks it.
LEMMA NextSound == IInv /\ DInv /\ [Next]_vars => DInv'
BY StartSound, KeySound, DeriveSound, ReportSound, BirthSound, HelloSound, CheckSound,
   RequestSound, AdvanceSound, TickSound, StopSound, DamageSound, HostSound DEF Next

\* A process that serves has the identity its DAG names, and no DAG names two: over
\* crashes, snapshots, full disks, restored backups, and the genesis that handle_hello
\* puts into a DAG that lost it.
THEOREM IdentityKept == Spec => []IdentityIsGenesis
<1>1. IInv /\ DInv => IdentityIsGenesis
  <2> SUFFICES ASSUME IInv, DInv, NEW p \in Procs, Ready(p)
               PROVE  LET named == At(proc[p].log, "genesis")
                      IN  /\ \A i, j \in named : i = j
                          /\ \A i \in named : proc[p].log[i].v = proc[p].id
                          /\ Open(p) => named # {}
    BY DEF IdentityIsGenesis
  <2>1. Sound(proc[p]) /\ Knows(proc[p])
    BY DEF DInv, Ready, IsUp, Sound
  <2> QED BY <2>1 DEF Sound, Honest, Knows, Agrees, Open, Holds
<1> QED BY <1>1, InitIInv, InitSound, NextIInv, NextSound, PTL DEF Spec

\* The cycle counter of a process that serves is the one its DAG records, whether it
\* booted through a snapshot or through the whole DAG, so no check ever writes a C9.
THEOREM SnapshotAgreed == Spec => []SnapshotAgrees
<1>1. IInv /\ DInv => SnapshotAgrees
  BY DEF DInv, SnapshotAgrees, Ready, IsUp, Sound, Knows, Agrees, Honest
<1> QED BY <1>1, InitIInv, InitSound, NextIInv, NextSound, PTL DEF Spec
=============================================================================
