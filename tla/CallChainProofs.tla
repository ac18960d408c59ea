-------------------------- MODULE CallChainProofs --------------------------
(***************************************************************************)
(* Proofs about CallChain, for any number of substrate processes and       *)
(* requests.                                                               *)
(*                                                                         *)
(* That the worker holds the perturbations of its substrate's DAG between  *)
(* two requests rests on what is under way during one: InStep says that a  *)
(* substrate which still trusts its worker has either one job in the pipe  *)
(* or its one answer in the channel, and what of the job has been applied. *)
(* It needs the latch: after a deadline nothing is known of the worker.    *)
(* That a success stays recorded needs the lock: Held says that the DAG in *)
(* memory is never behind the file, and level with it unless the last save *)
(* failed, and a second substrate would write a file without it.           *)
(***************************************************************************)
EXTENDS CallChain, TLAPS

Requests == [id : Ids \cup {0}, op : {"none", "hello", "perturb", "shutdown"}]

Hows == {"hello_ack", "perturb_ack", "shutdown_ack", "error"}

States == {"unborn", "boot", "replay", "idle", "calling", "leaving", "reaping", "exited"}

Holding == {"replay", "idle", "calling", "leaving", "reaping"}

\* A perturbation is where a success says it is, seen from its substrate and the file.
Recorded(c, i, s, d) ==
    (s.st \in Holding => <<c, i>> \in s.dag) /\ (<<c, i>> \in d \/ s.failing)

\* Answers on stdout that this bears out.
Truths(c) ==
    {r \in [id : Ids \cup {0}, how : Hows] :
        r.how = "perturb_ack" => Recorded(c, r.id, sub[c], dag)}

Subs(dags) ==
    [st : States, cur : Requests, next : Nat, desynchronized : BOOLEAN,
     dag : dags, failing : BOOLEAN]

IsSub(s) == s \in Subs({s.dag})

IsWorker(w) == w = [st |-> w.st, pipe |-> w.pipe, applied |-> w.applied]

OnChildren(f) == f = [c \in Children |-> f[c]]

Shapes ==
    /\ OnChildren(stdin) /\ OnChildren(stdout) /\ OnChildren(outcome)
    /\ OnChildren(sub) /\ OnChildren(worker) /\ OnChildren(channel)
    /\ \A c \in Children :
         /\ stdin[c] \in Seq(Requests) /\ stdout[c] \in Seq(Truths(c))
         /\ IsSub(sub[c]) /\ IsWorker(worker[c])

Told ==
    \A c \in Children, i \in Ids :
        outcome[c][i] = "perturb_ack" => Recorded(c, i, sub[c], dag)

\* The lock lets one substrate in.
OneLocked == \A c, d \in Children : Locked(c) /\ Locked(d) => c = d

\* Before its boot a substrate has no worker, and has saved nothing.
Fresh(s, w) == s.st \in {"unborn", "boot"} => w.st = "none" /\ ~s.failing

\* The DAG in memory and the one on file.
Held(s, d) == s.st \in Holding => d \subseteq s.dag /\ (s.failing \/ s.dag \subseteq d)

InStep(c, s, w, q) ==
    LET by  == <<c, s.cur.id>>
        job == Job(s.next - 1, "perturb", by)
    IN  s.st \in {"replay", "idle", "calling"} /\ ~s.desynchronized /\ w.st \notin {"none", "dead"} =>
          \/ s.st # "calling" /\ w.pipe = <<>> /\ q = <<>> /\ w.applied = s.dag
          \/ s.st = "calling" /\ w.pipe = <<job>> /\ q = <<>> /\ w.applied = s.dag
          \/ /\ s.st = "calling" /\ w.pipe = <<>>
             /\ \E how \in {"ok", "error"} :
                  /\ q = <<Reply(s.next - 1, how)>>
                  /\ w.applied = IF how = "ok" THEN s.dag \cup {by} ELSE s.dag

Sound(c, s, w, q, d) ==
    IsSub(s) /\ IsWorker(w) /\ Fresh(s, w) /\ Held(s, d) /\ InStep(c, s, w, q)

IInv ==
    /\ Shapes
    /\ Told
    /\ OneLocked
    /\ \A c \in Children : Sound(c, sub[c], worker[c], channel[c], dag)

-----------------------------------------------------------------------------
(* A step of one substrate. *)

\* What the other substrates have is left alone.
Local(c) ==
    /\ OnChildren(sub') /\ OnChildren(worker') /\ OnChildren(channel')
    /\ \A d \in Children : d # c =>
          sub'[d] = sub[d] /\ worker'[d] = worker[d] /\ channel'[d] = channel[d]

\* What was recorded stays so.
Later(c) == \A i : Recorded(c, i, sub[c], dag) => Recorded(c, i, sub'[c], dag')

\* Every set has the empty sequence.
LEMMA EmptyIsSeq == \A S : <<>> \in Seq(S)
OBVIOUS

\* Sequences over a larger set.
LEMMA SeqGrows ==
    ASSUME NEW S, NEW T, S \subseteq T, NEW s \in Seq(S)
    PROVE  s \in Seq(T)
<1>1. Len(s) \in Nat /\ DOMAIN s = 1 .. Len(s) /\ \A i \in 1 .. Len(s) : s[i] \in T
  OBVIOUS
<1>2. s = [i \in 1 .. Len(s) |-> s[i]]
  OBVIOUS
<1> QED BY <1>1, <1>2

\* The ways a record is changed, kept opaque once their fields are known.
Moved(s, st, cur) == [s EXCEPT !.st = st, !.cur = cur]
Asking(s, st, n) == [s EXCEPT !.st = st, !.next = n]
Late(s, late) == [s EXCEPT !.desynchronized = late]
Loaded(s, d) == [s EXCEPT !.dag = d]
Written(s, d, saved) == [s EXCEPT !.dag = d, !.failing = ~saved]
Piped(w, pipe) == [w EXCEPT !.pipe = pipe]
Turned(w, st) == [w EXCEPT !.st = st]
Taught(w, applied) == [w EXCEPT !.applied = applied]

LEMMA MovedFields ==
    ASSUME NEW s, IsSub(s), NEW st \in States, NEW cur \in Requests
    PROVE  LET t == Moved(s, st, cur)
           IN  /\ IsSub(t) /\ t.st = st /\ t.cur = cur /\ t.next = s.next
               /\ t.desynchronized = s.desynchronized /\ t.dag = s.dag /\ t.failing = s.failing
BY DEF IsSub, Subs, Moved

LEMMA AskingFields ==
    ASSUME NEW s, IsSub(s), NEW st \in States, NEW n \in Nat
    PROVE  LET t == Asking(s, st, n)
           IN  /\ IsSub(t) /\ t.st = st /\ t.cur = s.cur /\ t.next = n
               /\ t.desynchronized = s.desynchronized /\ t.dag = s.dag /\ t.failing = s.failing
BY DEF IsSub, Subs, Asking

LEMMA LateFields ==
    ASSUME NEW s, IsSub(s), NEW late \in BOOLEAN
    PROVE  LET t == Late(s, late)
           IN  /\ IsSub(t) /\ t.st = s.st /\ t.cur = s.cur /\ t.next = s.next
               /\ t.desynchronized = late /\ t.dag = s.dag /\ t.failing = s.failing
BY DEF IsSub, Subs, Late

LEMMA LoadedFields ==
    ASSUME NEW s, IsSub(s), NEW d
    PROVE  LET t == Loaded(s, d)
           IN  /\ IsSub(t) /\ t.st = s.st /\ t.cur = s.cur /\ t.next = s.next
               /\ t.desynchronized = s.desynchronized /\ t.dag = d /\ t.failing = s.failing
BY DEF IsSub, Subs, Loaded

LEMMA WrittenFields ==
    ASSUME NEW s, IsSub(s), NEW d, NEW saved \in BOOLEAN
    PROVE  LET t == Written(s, d, saved)
           IN  /\ IsSub(t) /\ t.st = s.st /\ t.cur = s.cur /\ t.next = s.next
               /\ t.desynchronized = s.desynchronized /\ t.dag = d /\ t.failing = ~saved
BY DEF IsSub, Subs, Written

LEMMA PipedFields ==
    ASSUME NEW w, IsWorker(w), NEW pipe
    PROVE  LET v == Piped(w, pipe)
           IN  IsWorker(v) /\ v.st = w.st /\ v.pipe = pipe /\ v.applied = w.applied
<1> DEFINE v == Piped(w, pipe)
<1>1. DOMAIN w = {"st", "pipe", "applied"}
  BY DEF IsWorker
<1>2. v.st = w.st /\ v.pipe = pipe /\ v.applied = w.applied
  BY <1>1 DEF Piped
<1>3. v = [st |-> v.st, pipe |-> v.pipe, applied |-> v.applied]
  BY <1>1 DEF Piped
<1> QED BY <1>2, <1>3 DEF IsWorker

LEMMA TurnedFields ==
    ASSUME NEW w, IsWorker(w), NEW st
    PROVE  LET v == Turned(w, st)
           IN  IsWorker(v) /\ v.st = st /\ v.pipe = w.pipe /\ v.applied = w.applied
<1> DEFINE v == Turned(w, st)
<1>1. DOMAIN w = {"st", "pipe", "applied"}
  BY DEF IsWorker
<1>2. v.st = st /\ v.pipe = w.pipe /\ v.applied = w.applied
  BY <1>1 DEF Turned
<1>3. v = [st |-> v.st, pipe |-> v.pipe, applied |-> v.applied]
  BY <1>1 DEF Turned
<1> QED BY <1>2, <1>3 DEF IsWorker

LEMMA TaughtFields ==
    ASSUME NEW w, IsWorker(w), NEW applied
    PROVE  LET v == Taught(w, applied)
           IN  IsWorker(v) /\ v.st = w.st /\ v.pipe = w.pipe /\ v.applied = applied
<1> DEFINE v == Taught(w, applied)
<1>1. DOMAIN w = {"st", "pipe", "applied"}
  BY DEF IsWorker
<1>2. v.st = w.st /\ v.pipe = w.pipe /\ v.applied = applied
  BY <1>1 DEF Taught
<1>3. v = [st |-> v.st, pipe |-> v.pipe, applied |-> v.applied]
  BY <1>1 DEF Taught
<1> QED BY <1>2, <1>3 DEF IsWorker

\* No other substrate holds the lock.
Alone(c) == \A d \in Children : d # c => ~Locked(d)

\* Frames a step writes to the clients are borne out by what it leaves.
Honest ==
    /\ OnChildren(stdout')
    /\ \A d \in Children : stdout'[d] = stdout[d] \/ stdout'[d] \in Seq(Truths(d)')

\* Answers that were borne out stay so.
LEMMA Outlives ==
    ASSUME NEW c, Later(c), NEW answers \in Seq(Truths(c))
    PROVE  answers \in Seq(Truths(c)')
<1>1. Truths(c) \subseteq Truths(c)'
  BY DEF Truths, Later
<1> QED BY <1>1, SeqGrows

\* A step of one substrate or of its worker keeps the invariant when its own state
\* stays sound, and only the holder of the lock saves anything.
LEMMA StepKeeps ==
    ASSUME IInv, NEW c \in Children, Local(c), Later(c),
           dag' = dag \/ Alone(c), dag \subseteq dag',
           Locked(c)' => Alone(c),
           OnChildren(stdin'), \A d \in Children : stdin'[d] \in Seq(Requests),
           Honest, outcome' = outcome,
           Sound(c, sub'[c], worker'[c], channel'[c], dag')
    PROVE  IInv'
<1>1. ASSUME NEW d \in Children, d # c
      PROVE  Sound(d, sub'[d], worker'[d], channel'[d], dag')
  <2>1. Sound(d, sub[d], worker[d], channel[d], dag)
    BY DEF IInv
  <2>2. sub'[d] = sub[d] /\ worker'[d] = worker[d] /\ channel'[d] = channel[d]
    BY <1>1 DEF Local
  <2>3. Held(sub[d], dag')
    BY <1>1, <2>1 DEF Sound, Held, Alone, Locked, Holding
  <2> QED BY <2>1, <2>2, <2>3 DEF Sound
<1>2. \A d \in Children : Sound(d, sub'[d], worker'[d], channel'[d], dag')
  BY <1>1
<1>3. \A d \in Children : Later(d)
  <2>1. ASSUME NEW d \in Children, d # c
        PROVE  Later(d)
    BY <2>1 DEF Local, Later, Recorded
  <2> QED BY <2>1
<1>4. ASSUME NEW d \in Children
      PROVE  stdout'[d] \in Seq(Truths(d)')
  <2>1. stdout[d] \in Seq(Truths(d))
    BY DEF IInv, Shapes
  <2>2. stdout[d] \in Seq(Truths(d)')
    BY <1>3, <2>1, Outlives
  <2> QED BY <2>2 DEF Honest
<1>5. OnChildren(outcome')
  BY DEF IInv, Shapes
<1>6. \A d \in Children : IsSub(sub'[d]) /\ IsWorker(worker'[d])
  BY <1>2 DEF Sound
<1>7. Shapes'
  BY <1>4, <1>5, <1>6 DEF Shapes, Local, Honest, OnChildren, IsSub, Subs, IsWorker
<1>8. Told'
  BY <1>3 DEF IInv, Told, Later
<1>9. \A d, e \in Children : d # c /\ e # c /\ Locked(d)' /\ Locked(e)' => d = e
  BY DEF IInv, OneLocked, Local, Locked
<1>10. \A d \in Children : d # c /\ Locked(c)' => ~Locked(d)'
  BY DEF Local, Locked, Alone
<1>11. OneLocked'
  BY <1>9, <1>10 DEF OneLocked
<1>12. \A d \in Children : Sound(d, sub[d], worker[d], channel[d], dag)'
  BY <1>2, ZenonT(60) DEF Sound, IsSub, Subs, IsWorker, Fresh, Held, InStep
<1> QED BY <1>7, <1>8, <1>11, <1>12 DEF IInv

\* The holder of the lock is alone with it.
LEMMA LockedAlone ==
    ASSUME IInv, NEW c \in Children, Locked(c)
    PROVE  Alone(c)
BY DEF IInv, OneLocked, Alone

-----------------------------------------------------------------------------
(* What the operators of the frame loop do to their substrate. *)

\* A record that carries on from the substrate's: nothing recorded is lost in it.
Carries(c, s) == \A i : Recorded(c, i, sub[c], dag) => Recorded(c, i, s, dag')

\* A record the substrate that holds the lock may go on with.
Fit(c, s) == IsSub(s) /\ s.st \in Holding /\ Held(s, dag') /\ Carries(c, s)

LEMMA ExitsSound ==
    ASSUME IInv, NEW c \in Children, NEW s, IsSub(s), Carries(c, s), Exits(c, s)
    PROVE  /\ Local(c) /\ Later(c) /\ ~Locked(c)'
           /\ Sound(c, sub'[c], worker'[c], channel'[c], dag')
<1>1. OnChildren(sub) /\ OnChildren(worker) /\ OnChildren(channel)
  BY DEF IInv, Shapes
<1>2. Local(c)
  BY <1>1 DEF Exits, Local, OnChildren
<1>3. /\ sub'[c] = [NewSub EXCEPT !.st = "exited", !.failing = s.failing]
      /\ worker'[c] = [NewWorker EXCEPT !.st = "dead"]
  BY <1>1 DEF Exits, OnChildren
<1>4. /\ sub'[c] = [st |-> "exited", cur |-> NoRequest, next |-> 1, desynchronized |-> FALSE,
                    dag |-> {}, failing |-> s.failing]
      /\ worker'[c] = [st |-> "dead", pipe |-> <<>>, applied |-> {}]
  BY <1>3 DEF NewSub, NewWorker
<1>5. NoRequest \in Requests /\ "exited" \in States /\ "exited" \notin Holding
  BY DEF NoRequest, Requests, States, Holding
<1>6. s.failing \in BOOLEAN
  BY DEF IsSub, Subs
<1>7. IsSub(sub'[c]) /\ IsWorker(worker'[c])
  BY <1>4, <1>5, <1>6 DEF IsSub, Subs, IsWorker
<1>8. Later(c)
  BY <1>4, <1>5 DEF Carries, Later, Recorded
<1>9. ~Locked(c)'
  BY <1>4 DEF Locked
<1>10. Sound(c, sub'[c], worker'[c], channel'[c], dag')
  BY <1>4, <1>5, <1>7 DEF Sound, Fresh, Held, InStep
<1> QED BY <1>2, <1>8, <1>9, <1>10

\* What a substrate knows of its worker once nothing is under way.
Settled(c, s, queued) ==
    \/ s.desynchronized \/ worker[c].st \in {"none", "dead"}
    \/ worker[c].pipe = <<>> /\ queued = <<>> /\ worker[c].applied = s.dag

\* Going on with a fit record, in another state of a substrate that holds the lock.
LEMMA GoesOn ==
    ASSUME NEW c \in Children, NEW s, Fit(c, s), NEW t, t.st \in Holding,
           t.dag = s.dag, t.failing = s.failing, sub'[c] = t
    PROVE  Later(c) /\ Held(t, dag')
BY DEF Fit, Carries, Later, Recorded, Held

\* Asking a worker: for a perturbation, one that is settled.
LEMMA AsksSound ==
    ASSUME IInv, NEW c \in Children, NEW s, Fit(c, s),
           NEW st \in {"calling", "leaving"}, NEW op, NEW queued, CanAsk(c, s),
           st = "calling" => op = "perturb" /\ Settled(c, s, queued),
           Asks(c, s, st, op, queued)
    PROVE  Local(c) /\ Later(c) /\ Sound(c, sub'[c], worker'[c], channel'[c], dag')
<1>1. /\ OnChildren(sub) /\ OnChildren(worker) /\ OnChildren(channel)
      /\ IsWorker(worker[c])
  BY DEF IInv, Shapes
<1> DEFINE t == Asking(s, st, s.next + 1)
           job == Job(s.next, op, <<c, s.cur.id>>)
           w == Piped(worker[c], Append(worker[c].pipe, job))
<1>2. Local(c) /\ sub'[c] = t /\ worker'[c] = w /\ channel'[c] = queued
  BY <1>1 DEF Asks, Local, OnChildren, Asking, Piped
<1>3. /\ t.st = st /\ t.cur = s.cur /\ t.next = s.next + 1 /\ t.next - 1 = s.next
      /\ t.desynchronized = s.desynchronized /\ t.dag = s.dag /\ t.failing = s.failing
      /\ IsSub(t)
  <2>1. IsSub(s)
    BY DEF Fit
  <2>2. s.next \in Nat
    BY <2>1 DEF IsSub, Subs
  <2>3. s.next + 1 \in Nat /\ (s.next + 1) - 1 = s.next /\ st \in States
    BY <2>2 DEF States
  <2> QED BY <2>1, <2>3, AskingFields
<1>4. /\ w.st = worker[c].st /\ w.pipe = Append(worker[c].pipe, job)
      /\ w.applied = worker[c].applied /\ IsWorker(w)
  BY <1>1, PipedFields
<1> HIDE DEF t, w
<1>5. Later(c) /\ Held(t, dag') /\ Fresh(t, w)
  <2>1. st \in Holding /\ st \notin {"unborn", "boot"}
    BY DEF Holding
  <2>2. Fresh(t, w)
    BY <1>3, <2>1 DEF Fresh
  <2> QED BY <1>2, <1>3, <2>1, <2>2, GoesOn
<1>6. CASE st = "leaving"
  <2>1. InStep(c, t, w, queued)
    BY <1>3, <1>6 DEF InStep
  <2> QED BY <1>2, <1>3, <1>4, <1>5, <2>1 DEF Sound
<1>7. CASE st = "calling"
  <2>1. worker[c].pipe = <<>> /\ queued = <<>> /\ worker[c].applied = s.dag /\ op = "perturb"
    BY <1>7 DEF Settled, CanAsk
  <2>2. w.pipe = <<job>>
    BY <1>4, <2>1
  <2>3. job = Job(t.next - 1, "perturb", <<c, t.cur.id>>)
    BY <1>3, <2>1
  <2> HIDE DEF job
  <2>4. InStep(c, t, w, queued)
    BY <1>3, <1>4, <1>7, <2>1, <2>2, <2>3 DEF InStep
  <2> QED BY <1>2, <1>3, <1>4, <1>5, <2>4 DEF Sound
<1> QED BY <1>6, <1>7

LEMMA LeavesSound ==
    ASSUME IInv, NEW c \in Children, NEW s, Fit(c, s), NEW queued, Leaves(c, s, queued)
    PROVE  Local(c) /\ Later(c) /\ Sound(c, sub'[c], worker'[c], channel'[c], dag')
<1>1. CASE CanAsk(c, s)
  <2>1. Asks(c, s, "leaving", "shutdown", queued)
    BY <1>1 DEF Leaves
  <2> QED BY <1>1, <2>1, AsksSound
<1>2. CASE ~CanAsk(c, s)
  <2>1. Exits(c, s) /\ IsSub(s) /\ Carries(c, s)
    BY <1>2 DEF Leaves, Fit
  <2> QED BY <2>1, ExitsSound
<1> QED BY <1>1, <1>2

\* One more answer that is borne out.
LEMMA AnswerHonest ==
    ASSUME IInv, NEW c \in Children, Later(c), NEW id \in Ids \cup {0}, NEW how \in Hows,
           how = "perturb_ack" => Recorded(c, id, sub'[c], dag'),
           stdout' = [stdout EXCEPT ![c] = Append(@, Reply(id, how))]
    PROVE  Honest
<1> DEFINE r == Reply(id, how)
<1>1. OnChildren(stdout) /\ stdout[c] \in Seq(Truths(c))
  BY DEF IInv, Shapes
<1>2. r \in Truths(c)'
  BY DEF Truths, Reply
<1>3. stdout[c] \in Seq(Truths(c)')
  BY <1>1, Outlives
<1> HIDE DEF r
<1>4. Append(stdout[c], r) \in Seq(Truths(c)')
  BY <1>2, <1>3
<1> QED BY <1>1, <1>4 DEF Honest, OnChildren, r

LEMMA OutputKept ==
    ASSUME IInv, UNCHANGED stdout
    PROVE  Honest
BY DEF IInv, Shapes, Honest

LEMMA AnswersSound ==
    ASSUME IInv, NEW c \in Children, NEW s, Fit(c, s), NEW how \in Hows, NEW queued,
           how = "perturb_ack" => <<c, s.cur.id>> \in s.dag,
           Settled(c, s, queued),
           Answers(c, s, how, queued)
    PROVE  Local(c) /\ Later(c) /\ Honest /\ Sound(c, sub'[c], worker'[c], channel'[c], dag')
<1>1. /\ OnChildren(sub) /\ OnChildren(worker) /\ OnChildren(channel)
      /\ IsWorker(worker[c])
  BY DEF IInv, Shapes
<1>2. CASE ~Alive
  BY <1>2, LeavesSound, OutputKept DEF Answers
<1>3. CASE Alive
  <2> DEFINE t == Moved(s, "idle", NoRequest)
  <2>1. /\ stdout' = [stdout EXCEPT ![c] = Append(@, Reply(s.cur.id, how))]
        /\ sub' = [sub EXCEPT ![c] = t]
        /\ channel' = [channel EXCEPT ![c] = queued]
        /\ worker' = worker
    BY <1>3 DEF Answers, Moved
  <2>2. /\ t.st = "idle" /\ t.cur = NoRequest /\ t.next = s.next
        /\ t.desynchronized = s.desynchronized /\ t.dag = s.dag /\ t.failing = s.failing
        /\ IsSub(t)
    <3>1. NoRequest \in Requests /\ "idle" \in States /\ IsSub(s)
      BY DEF NoRequest, Requests, States, Fit
    <3> QED BY <3>1, MovedFields
  <2> HIDE DEF t
  <2>3. Local(c) /\ sub'[c] = t /\ worker'[c] = worker[c] /\ channel'[c] = queued
    BY <1>1, <2>1 DEF Local, OnChildren
  <2>4. Later(c) /\ Held(t, dag')
    BY <2>2, <2>3, GoesOn DEF Holding
  <2>5. Sound(c, t, worker[c], queued, dag')
    BY <1>1, <2>2, <2>4 DEF Sound, Fresh, InStep, Settled
  <2>6. how = "perturb_ack" => Recorded(c, s.cur.id, sub'[c], dag')
    BY <2>2, <2>3 DEF Recorded, Fit, Held
  <2>7. s.cur.id \in Ids \cup {0}
    BY DEF Fit, IsSub, Subs, Requests
  <2>8. Honest
    BY <2>1, <2>4, <2>6, <2>7, AnswerHonest
  <2> QED BY <2>3, <2>4, <2>5, <2>8
<1> QED BY <1>2, <1>3

LEMMA AcksShutdownSound ==
    ASSUME IInv, NEW c \in Children, NEW s, Fit(c, s), NEW queued, AcksShutdown(c, s, queued)
    PROVE  Local(c) /\ Later(c) /\ Honest /\ Sound(c, sub'[c], worker'[c], channel'[c], dag')
<1>1. Local(c) /\ Later(c) /\ Sound(c, sub'[c], worker'[c], channel'[c], dag')
  BY LeavesSound DEF AcksShutdown
<1>2. CASE ~Alive
  BY <1>1, <1>2, OutputKept DEF AcksShutdown
<1>3. CASE Alive
  <2>1. stdout' = [stdout EXCEPT ![c] = Append(@, Reply(s.cur.id, "shutdown_ack"))]
    BY <1>3 DEF AcksShutdown
  <2>2. s.cur.id \in Ids \cup {0} /\ "shutdown_ack" \in Hows
    BY DEF Fit, IsSub, Subs, Requests, Hows
  <2> QED BY <1>1, <2>1, <2>2, AnswerHonest
<1> QED BY <1>2, <1>3

-----------------------------------------------------------------------------
(* The actions of a substrate. *)

\* What the operator's end holds does not change with a substrate's step.
LEMMA InputKept ==
    ASSUME IInv, UNCHANGED stdin
    PROVE  OnChildren(stdin') /\ \A d \in Children : stdin'[d] \in Seq(Requests)
BY DEF IInv, Shapes, OnChildren

\* The file before a save is part of it afterwards, for the holder of the lock.
LEMMA SaveGrows ==
    ASSUME IInv, NEW c \in Children, Locked(c)
    PROVE  dag \subseteq sub[c].dag /\ Held(sub[c], dag) /\ IsSub(sub[c]) /\ sub[c].st \in Holding
BY DEF IInv, Sound, Held, Locked, Holding

\* A record with a save behind it, done or failed, is fit to go on with.
LEMMA SavedFit ==
    ASSUME IInv, NEW c \in Children, Locked(c), NEW s, IsSub(s), s.st \in Holding,
           sub[c].dag \subseteq s.dag, NEW saved \in BOOLEAN, s.failing = ~saved,
           Saves(saved, s)
    PROVE  Fit(c, s) /\ dag \subseteq dag'
<1>1. dag \subseteq s.dag /\ dag \subseteq dag' /\ dag' \subseteq s.dag
  BY SaveGrows DEF Saves
<1>2. s.failing \/ s.dag \subseteq dag'
  BY DEF Saves
<1>3. Held(s, dag')
  BY <1>1, <1>2 DEF Held
<1>4. sub[c].st \in Holding
  BY SaveGrows
<1>5. Carries(c, s)
  BY <1>1, <1>2, <1>4 DEF Carries, Recorded
<1> QED BY <1>1, <1>3, <1>5 DEF Fit

\* A record with the same DAG, nothing having been saved.
LEMMA SameFit ==
    ASSUME IInv, NEW c \in Children, Locked(c), NEW s, IsSub(s), s.st \in Holding,
           s.dag = sub[c].dag, s.failing = sub[c].failing, dag' = dag
    PROVE  Fit(c, s)
<1>1. Held(sub[c], dag) /\ sub[c].st \in Holding
  BY SaveGrows
<1> QED BY <1>1 DEF Fit, Held, Carries, Recorded

\* How a call ended: with a deadline or a death nothing is known any more; an answer
\* leaves the worker settled, with the perturbation applied if it says so.
Ended(c, s, ok, queued) ==
    \/ s.st = "leaving" \/ s.desynchronized \/ worker[c].st \in {"none", "dead"}
    \/ /\ worker[c].pipe = <<>> /\ queued = <<>>
       /\ worker[c].applied = IF ok THEN s.dag \cup {<<c, s.cur.id>>} ELSE s.dag

LEMMA ContinueKeeps ==
    ASSUME IInv, NEW c \in Children, Locked(c), NEW s, IsSub(s), s.st \in Holding,
           s.dag = sub[c].dag, s.failing = sub[c].failing,
           NEW ok \in BOOLEAN, NEW queued,
           Ended(c, s, ok, queued), Continue(c, s, ok, queued),
           UNCHANGED <<operator, stdin>>
    PROVE  IInv'
<1> DEFINE Safe == /\ Local(c) /\ Later(c) /\ Honest /\ dag \subseteq dag'
                   /\ Sound(c, sub'[c], worker'[c], channel'[c], dag')
<1> SUFFICES Safe
  <2>1. Alone(c)
    BY LockedAlone
  <2>2. outcome' = outcome /\ stdin' = stdin
    BY DEF operator
  <2> HIDE DEF Safe
  <2>3. SUFFICES ASSUME Safe PROVE IInv'
    OBVIOUS
  <2> QED BY <2>1, <2>2, <2>3, InputKept, StepKeeps DEF Safe
<1>1. CASE s.st = "calling" /\ ok
  <2>1. PICK saved \in BOOLEAN :
          LET t == [s EXCEPT !.dag = @ \cup {<<c, s.cur.id>>}, !.failing = ~saved]
          IN Saves(saved, t) /\ Answers(c, t, "perturb_ack", queued)
    BY <1>1 DEF Continue
  <2> DEFINE t == Written(s, s.dag \cup {<<c, s.cur.id>>}, saved)
  <2>2. Saves(saved, t) /\ Answers(c, t, "perturb_ack", queued)
    BY <2>1 DEF Written
  <2>3. /\ IsSub(t) /\ t.st = s.st /\ t.cur = s.cur /\ t.desynchronized = s.desynchronized
        /\ t.dag = s.dag \cup {<<c, s.cur.id>>} /\ t.failing = ~saved
    BY WrittenFields
  <2> HIDE DEF t
  <2>4. Fit(c, t) /\ dag \subseteq dag'
    BY <2>2, <2>3, SavedFit
  <2>5. Settled(c, t, queued)
    BY <1>1, <2>3 DEF Ended, Settled
  <2>6. <<c, t.cur.id>> \in t.dag
    BY <2>3
  <2> QED BY <2>2, <2>4, <2>5, <2>6, AnswersSound DEF Hows
<1>2. CASE s.st = "calling" /\ ~ok
  <2>1. dag' = dag /\ Settled(c, s, queued) /\ Answers(c, s, "error", queued)
    BY <1>2 DEF Continue, Ended, Settled
  <2>2. Fit(c, s)
    BY <2>1, SameFit
  <2> QED BY <2>1, <2>2, AnswersSound DEF Hows
<1>3. CASE s.st = "leaving" /\ ok
  <2> DEFINE t == Moved(s, "reaping", s.cur)
  <2>1. s.cur \in Requests /\ "reaping" \in States
    BY DEF IsSub, Subs, States
  <2>2. [s EXCEPT !.st = "reaping"] = t
    BY DEF IsSub, Subs, Moved
  <2>3. /\ sub' = [sub EXCEPT ![c] = t] /\ channel' = [channel EXCEPT ![c] = queued]
        /\ UNCHANGED <<worker, stdout, dag>>
    BY <1>3, <2>2 DEF Continue
  <2>4. IsSub(t) /\ t.st = "reaping" /\ t.dag = s.dag /\ t.failing = s.failing
    BY <2>1, MovedFields
  <2> HIDE DEF t
  <2>5. /\ OnChildren(sub) /\ OnChildren(worker) /\ OnChildren(channel)
        /\ IsWorker(worker[c])
    BY DEF IInv, Shapes
  <2>6. Local(c) /\ sub'[c] = t /\ worker'[c] = worker[c] /\ channel'[c] = queued
    BY <2>3, <2>5 DEF Local, OnChildren
  <2>7. Fit(c, s)
    BY <2>3, SameFit
  <2>8. Later(c) /\ Held(t, dag')
    BY <2>4, <2>6, <2>7, GoesOn DEF Holding
  <2>9. Sound(c, t, worker[c], queued, dag')
    BY <2>4, <2>5, <2>8 DEF Sound, Fresh, InStep
  <2> QED BY <2>3, <2>6, <2>8, <2>9, OutputKept
<1>4. CASE s.st = "leaving" /\ ~ok
  <2>1. Exits(c, s) /\ UNCHANGED <<stdout, dag>>
    BY <1>4 DEF Continue
  <2>2. Carries(c, s)
    BY <2>1, SameFit DEF Fit
  <2> QED BY <2>1, <2>2, ExitsSound, OutputKept
<1> QED BY <1>1, <1>2, <1>3, <1>4 DEF Continue

\* What is known of a waiting substrate.
LEMMA WaitingState ==
    ASSUME IInv, NEW c \in Children, Waiting(c)
    PROVE  /\ Locked(c) /\ IsSub(sub[c]) /\ sub[c].st \in Holding
           /\ InStep(c, sub[c], worker[c], channel[c])
BY DEF IInv, Sound, Waiting, Locked, Holding

LEMMA CallReturnsKeeps ==
    ASSUME IInv, NEW c \in Children, CallReturns(c)
    PROVE  IInv'
<1> DEFINE ok == Head(channel[c]) = Reply(sub[c].next - 1, "ok")
<1>1. Waiting(c) /\ channel[c] # <<>> /\ Continue(c, sub[c], ok, Tail(channel[c]))
  BY DEF CallReturns, Acknowledged
<1>2. Ended(c, sub[c], ok, Tail(channel[c]))
  <2>1. CASE \/ sub[c].st = "leaving"
             \/ sub[c].desynchronized \/ worker[c].st \in {"none", "dead"}
    BY <2>1 DEF Ended
  <2>2. CASE sub[c].st # "leaving" /\ ~sub[c].desynchronized /\ worker[c].st \notin {"none", "dead"}
    <3> DEFINE n == sub[c].next - 1
               by == <<c, sub[c].cur.id>>
    <3>1. PICK how \in {"ok", "error"} :
             /\ worker[c].pipe = <<>> /\ channel[c] = <<Reply(n, how)>>
             /\ worker[c].applied =
                   IF how = "ok" THEN sub[c].dag \cup {by} ELSE sub[c].dag
      BY <1>1, <2>2, WaitingState DEF InStep, Waiting
    <3>2. Head(channel[c]) = Reply(n, how) /\ Tail(channel[c]) = <<>>
      BY <3>1
    <3>3. Reply(n, how) = Reply(n, "ok") <=> how = "ok"
      BY DEF Reply
    <3>4. ok <=> how = "ok"
      BY <3>2, <3>3
    <3> QED BY <3>1, <3>2, <3>4 DEF Ended
  <2> QED BY <2>1, <2>2
<1>3. ok \in BOOLEAN
  OBVIOUS
<1> HIDE DEF ok
<1> QED BY <1>1, <1>2, <1>3, WaitingState, ContinueKeeps DEF CallReturns

LEMMA CallTimesOutKeeps ==
    ASSUME IInv, NEW c \in Children, CallTimesOut(c)
    PROVE  IInv'
<1> DEFINE s == Late(sub[c], TRUE)
<1>1. /\ IsSub(s) /\ s.st = sub[c].st /\ s.desynchronized
      /\ s.dag = sub[c].dag /\ s.failing = sub[c].failing
  <2>1. IsSub(sub[c])
    BY WaitingState DEF CallTimesOut
  <2> QED BY <2>1, LateFields
<1>2. Continue(c, s, FALSE, <<>>)
  BY DEF CallTimesOut, Late
<1> HIDE DEF s
<1>3. Ended(c, s, FALSE, <<>>)
  BY <1>1 DEF Ended
<1> QED BY <1>1, <1>2, <1>3, WaitingState, ContinueKeeps DEF CallTimesOut

LEMMA CallBreaksKeeps ==
    ASSUME IInv, NEW c \in Children, CallBreaks(c)
    PROVE  IInv'
<1>1. Ended(c, sub[c], FALSE, <<>>)
  BY DEF CallBreaks, Ended
<1> QED BY <1>1, WaitingState, ContinueKeeps DEF CallBreaks

\* Between two requests.
LEMMA IdleState ==
    ASSUME IInv, NEW c \in Children, sub[c].st = "idle"
    PROVE  /\ Locked(c) /\ Alone(c) /\ IsSub(sub[c])
           /\ Settled(c, sub[c], channel[c])
<1>1. Locked(c)
  BY DEF Locked
<1>2. IsSub(sub[c]) /\ InStep(c, sub[c], worker[c], channel[c])
  BY DEF IInv, Sound
<1>3. Settled(c, sub[c], channel[c])
  BY <1>2 DEF InStep, Settled
<1> QED BY <1>1, <1>2, <1>3, LockedAlone

\* A new worker is given the whole DAG.
LEMMA GreetsSound ==
    ASSUME IInv, NEW c \in Children, NEW s, Fit(c, s), Greets(c, s)
    PROVE  Local(c) /\ Later(c) /\ Sound(c, sub'[c], worker'[c], channel'[c], dag')
<1>1. CASE Exits(c, s)
  BY <1>1, ExitsSound DEF Fit
<1>2. CASE /\ sub' = [sub EXCEPT ![c] = [s EXCEPT !.st = "replay"]]
           /\ worker' = [worker EXCEPT ![c] =
                           [NewWorker EXCEPT !.st = "up", !.applied = s.dag]]
           /\ channel' = [channel EXCEPT ![c] = <<>>]
  <2> DEFINE t == Moved(s, "replay", s.cur)
             w == Taught(Turned(NewWorker, "up"), s.dag)
  <2>1. OnChildren(sub) /\ OnChildren(worker) /\ OnChildren(channel)
    BY DEF IInv, Shapes
  <2>2. [s EXCEPT !.st = "replay"] = t
    BY DEF Fit, IsSub, Subs, Moved
  <2>3. [NewWorker EXCEPT !.st = "up", !.applied = s.dag] = w
    BY DEF Taught, Turned
  <2>4. /\ IsSub(t) /\ t.st = "replay" /\ t.desynchronized = s.desynchronized
        /\ t.dag = s.dag /\ t.failing = s.failing
    <3>1. s.cur \in Requests /\ "replay" \in States /\ IsSub(s)
      BY DEF Fit, IsSub, Subs, States
    <3> QED BY <3>1, MovedFields
  <2>5. IsWorker(w) /\ w.st = "up" /\ w.pipe = <<>> /\ w.applied = s.dag
    <3>1. IsWorker(NewWorker) /\ NewWorker.pipe = <<>>
      BY DEF IsWorker, NewWorker
    <3> QED BY <3>1, TurnedFields, TaughtFields
  <2> HIDE DEF t, w
  <2>6. Local(c) /\ sub'[c] = t /\ worker'[c] = w /\ channel'[c] = <<>>
    BY <1>2, <2>1, <2>2, <2>3 DEF Local, OnChildren
  <2>7. Later(c) /\ Held(t, dag')
    BY <2>4, <2>6, GoesOn DEF Holding
  <2>8. Sound(c, t, w, <<>>, dag')
    BY <2>4, <2>5, <2>7 DEF Sound, Fresh, InStep
  <2> QED BY <2>6, <2>7, <2>8
<1> QED BY <1>1, <1>2 DEF Greets

LEMMA TakeFrameKeeps ==
    ASSUME IInv, NEW c \in Children, TakeFrame(c)
    PROVE  IInv'
<1> DEFINE r == Head(stdin[c])
           s == Moved(sub[c], "idle", r)
           Safe == /\ Local(c) /\ Later(c) /\ Honest /\ dag \subseteq dag'
                   /\ Sound(c, sub'[c], worker'[c], channel'[c], dag')
<1>1. OnChildren(stdin) /\ \A d \in Children : stdin[d] \in Seq(Requests)
  BY DEF IInv, Shapes
<1>2. /\ sub[c].st = "idle" /\ stdin[c] # <<>> /\ outcome' = outcome
      /\ stdin' = [stdin EXCEPT ![c] = Tail(@)]
  BY DEF TakeFrame, HasFrame, operator
<1>3. r \in Requests /\ Tail(stdin[c]) \in Seq(Requests)
  BY <1>1, <1>2
<1>4. OnChildren(stdin') /\ \A d \in Children : stdin'[d] \in Seq(Requests)
  BY <1>1, <1>2, <1>3 DEF OnChildren
<1>5. s = [sub[c] EXCEPT !.cur = r]
  BY <1>2, IdleState DEF Moved, IsSub, Subs
<1>6. \/ UNCHANGED <<stdout, dag>> /\ Greets(c, s)
      \/ UNCHANGED <<stdout, dag>> /\ CanAsk(c, s) /\ Asks(c, s, "calling", "perturb", channel[c])
      \/ UNCHANGED dag /\ Answers(c, s, "error", channel[c])
      \/ \E saved \in BOOLEAN :
            Saves(saved, s) /\ AcksShutdown(c, [s EXCEPT !.failing = ~saved], channel[c])
  <2> HIDE DEF s
  <2> QED BY <1>5, Zenon DEF TakeFrame
<1>7. /\ IsSub(s) /\ s.st = "idle" /\ s.desynchronized = sub[c].desynchronized
      /\ s.dag = sub[c].dag /\ s.failing = sub[c].failing
  <2>1. IsSub(sub[c]) /\ "idle" \in States
    BY <1>2, IdleState DEF States
  <2> QED BY <1>3, <2>1, MovedFields
<1>8. Settled(c, s, channel[c])
  <2>1. Settled(c, sub[c], channel[c])
    BY <1>2, IdleState
  <2> HIDE DEF s
  <2> QED BY <1>7, <2>1 DEF Settled
<1>9. s.st \in Holding /\ Locked(c)
  BY <1>2, <1>7, IdleState DEF Holding
<1> HIDE DEF r, s
<1>10. ASSUME UNCHANGED dag, Answers(c, s, "error", channel[c])
       PROVE  Safe
  <2>1. Fit(c, s)
    BY <1>7, <1>9, <1>10, SameFit
  <2>2. "error" \in Hows
    BY DEF Hows
  <2>3. Local(c) /\ Later(c) /\ Honest /\ Sound(c, sub'[c], worker'[c], channel'[c], dag')
    BY <1>8, <1>10, <2>1, <2>2, AnswersSound
  <2> QED BY <1>10, <2>3
<1>11. ASSUME UNCHANGED <<stdout, dag>>, CanAsk(c, s), Asks(c, s, "calling", "perturb", channel[c])
       PROVE  Safe
  <2>1. Fit(c, s)
    BY <1>7, <1>9, <1>11, SameFit
  <2>2. Local(c) /\ Later(c) /\ Sound(c, sub'[c], worker'[c], channel'[c], dag')
    BY <1>8, <1>11, <2>1, AsksSound
  <2> QED BY <1>11, <2>2, OutputKept
<1>12. ASSUME NEW saved \in BOOLEAN, Saves(saved, s),
              AcksShutdown(c, [s EXCEPT !.failing = ~saved], channel[c])
       PROVE  Safe
  <2> DEFINE t == Written(s, s.dag, saved)
  <2>1. t = [s EXCEPT !.failing = ~saved]
    BY <1>7 DEF Written, IsSub, Subs
  <2>2. IsSub(t) /\ t.st = s.st /\ t.dag = s.dag /\ t.failing = ~saved
    BY <1>7, WrittenFields
  <2> HIDE DEF t
  <2>3. Saves(saved, t)
    BY <1>12, <2>2 DEF Saves
  <2>4. Fit(c, t) /\ dag \subseteq dag'
    BY <1>7, <1>9, <2>2, <2>3, SavedFit
  <2>5. AcksShutdown(c, t, channel[c])
    BY <1>12, <2>1
  <2> QED BY <2>4, <2>5, AcksShutdownSound
<1>13. ASSUME UNCHANGED <<stdout, dag>>, Greets(c, s)
       PROVE  Safe
  <2>1. Fit(c, s)
    BY <1>7, <1>9, <1>13, SameFit
  <2>2. Local(c) /\ Later(c) /\ Sound(c, sub'[c], worker'[c], channel'[c], dag')
    BY <2>1, <1>13, GreetsSound
  <2> QED BY <1>13, <2>2, OutputKept
<1> HIDE DEF Safe
<1>14. Safe
  BY <1>6, <1>10, <1>11, <1>12, <1>13
<1>15. SUFFICES ASSUME Safe PROVE IInv'
  BY <1>14
<1> QED BY <1>2, <1>4, <1>9, <1>15, LockedAlone, StepKeeps DEF Safe

\* The three ways out of a substrate between requests.
LEMMA LeavingKeeps ==
    ASSUME IInv, NEW c \in Children, WatchParent(c) \/ SeeEnd(c)
    PROVE  IInv'
<1>1. /\ sub[c].st = "idle" /\ Leaves(c, sub[c], channel[c])
      /\ UNCHANGED <<stdin, stdout, outcome, dag>>
  BY DEF WatchParent, SeeEnd, operator, wire
<1>2. Fit(c, sub[c])
  BY <1>1, IdleState, SaveGrows, SameFit
<1>3. Local(c) /\ Later(c) /\ Sound(c, sub'[c], worker'[c], channel'[c], dag')
  BY <1>1, <1>2, LeavesSound
<1> QED BY <1>1, <1>3, IdleState, InputKept, OutputKept, StepKeeps

LEMMA ExitKeeps ==
    ASSUME IInv, NEW c \in Children, Exits(c, sub[c]), UNCHANGED <<stdin, stdout, outcome, dag>>
    PROVE  IInv'
<1>1. IsSub(sub[c]) /\ Carries(c, sub[c])
  BY DEF IInv, Shapes, Carries
<1>2. /\ Local(c) /\ Later(c) /\ ~Locked(c)'
      /\ Sound(c, sub'[c], worker'[c], channel'[c], dag')
  BY <1>1, ExitsSound
<1> QED BY <1>2, InputKept, OutputKept, StepKeeps

LEMMA KilledKeeps ==
    ASSUME IInv, NEW c \in Children, Killed(c) \/ Reap(c)
    PROVE  IInv'
BY ExitKeeps DEF Killed, Reap, operator, wire

\* The lock was free, and the DAG in memory is the file's.
LEMMA BootKeeps ==
    ASSUME IInv, NEW c \in Children, Boot(c)
    PROVE  IInv'
<1>1. sub[c].st = "boot" /\ UNCHANGED <<stdin, stdout, outcome, dag>>
  BY DEF Boot, operator, wire
<1>2. CASE Exits(c, sub[c])
  BY <1>1, <1>2, ExitKeeps
<1>3. CASE /\ MayAcquire(c) /\ UNCHANGED <<worker, channel>>
           /\ sub' = [sub EXCEPT ![c].st = "idle", ![c].dag = dag]
  <2> DEFINE s == Loaded(Moved(sub[c], "idle", sub[c].cur), dag)
  <2>1. /\ OnChildren(sub) /\ OnChildren(worker) /\ OnChildren(channel)
        /\ IsSub(sub[c]) /\ IsWorker(worker[c]) /\ worker[c].st = "none" /\ ~sub[c].failing
    BY <1>1 DEF IInv, Shapes, Sound, Fresh
  <2>2. IsSub(s) /\ s.st = "idle" /\ s.dag = dag /\ s.failing = sub[c].failing
    <3>1. sub[c].cur \in Requests /\ "idle" \in States
      BY <2>1 DEF IsSub, Subs, States
    <3> QED BY <2>1, <3>1, MovedFields, LoadedFields
  <2>3. sub' = [sub EXCEPT ![c] = s]
    BY <1>3, <2>1 DEF OnChildren, Loaded, Moved, IsSub, Subs
  <2> HIDE DEF s
  <2>4. Local(c) /\ sub'[c] = s /\ worker'[c] = worker[c] /\ channel'[c] = channel[c]
    BY <1>3, <2>1, <2>3 DEF Local, OnChildren
  <2>5. Sound(c, s, worker[c], channel[c], dag')
    BY <1>1, <2>1, <2>2 DEF Sound, Fresh, Held, InStep
  <2>6. Alone(c)
    BY <1>3 DEF MayAcquire, Alone
  <2>7. Later(c)
    BY <1>1, <2>1, <2>2, <2>4 DEF Later, Recorded
  <2> QED BY <1>1, <2>4, <2>5, <2>6, <2>7, InputKept, OutputKept, StepKeeps
<1> QED BY <1>2, <1>3 DEF Boot

LEMMA ReplayKeeps ==
    ASSUME IInv, NEW c \in Children, Replay(c)
    PROVE  IInv'
<1>1. sub[c].st = "replay" /\ UNCHANGED <<stdin, outcome, dag>>
  BY DEF Replay, operator
<1>2. Locked(c) /\ Alone(c) /\ sub[c].st \in Holding
  BY <1>1, LockedAlone DEF Locked, Holding
<1>3. IsSub(sub[c]) /\ InStep(c, sub[c], worker[c], channel[c])
  BY DEF IInv, Sound
<1>4. CASE \E late \in BOOLEAN :
             Leaves(c, [sub[c] EXCEPT !.desynchronized = late], channel[c]) /\ UNCHANGED stdout
  <2>1. PICK late \in BOOLEAN :
          Leaves(c, Late(sub[c], late), channel[c]) /\ UNCHANGED stdout
    BY <1>4 DEF Late
  <2> DEFINE s == Late(sub[c], late)
  <2>2. /\ IsSub(s) /\ s.st = sub[c].st /\ s.dag = sub[c].dag
        /\ s.failing = sub[c].failing
    BY <1>3, LateFields
  <2>3. Leaves(c, s, channel[c])
    BY <2>1
  <2> HIDE DEF s
  <2>4. Fit(c, s)
    BY <1>1, <1>2, <2>2, SameFit
  <2>5. Local(c) /\ Later(c) /\ Sound(c, sub'[c], worker'[c], channel'[c], dag')
    BY <2>3, <2>4, LeavesSound
  <2> QED BY <1>1, <1>2, <2>1, <2>5, InputKept, OutputKept, StepKeeps
<1>5. CASE Answers(c, sub[c], "hello_ack", channel[c])
  <2>1. Fit(c, sub[c])
    BY <1>1, <1>2, <1>3, SameFit
  <2>2. Settled(c, sub[c], channel[c])
    BY <1>1, <1>3 DEF InStep, Settled
  <2>3. "hello_ack" \in Hows
    BY DEF Hows
  <2>4. Local(c) /\ Later(c) /\ Honest /\ Sound(c, sub'[c], worker'[c], channel'[c], dag')
    BY <1>5, <2>1, <2>2, <2>3, AnswersSound
  <2> QED BY <1>1, <1>2, <2>4, InputKept, StepKeeps
<1> QED BY <1>4, <1>5 DEF Replay

-----------------------------------------------------------------------------
(* The actions of a worker. *)

LEMMA WorkerKeeps ==
    ASSUME IInv, NEW c \in Children, NEW w, NEW q,
           worker' = [worker EXCEPT ![c] = w], channel' = [channel EXCEPT ![c] = q],
           UNCHANGED <<stdin, stdout, outcome, sub, dag>>,
           IsWorker(w), Fresh(sub[c], w), InStep(c, sub[c], w, q)
    PROVE  IInv'
<1>1. /\ OnChildren(sub) /\ OnChildren(worker) /\ OnChildren(channel)
      /\ IsSub(sub[c]) /\ Held(sub[c], dag)
  BY DEF IInv, Shapes, Sound
<1>2. Local(c) /\ sub'[c] = sub[c] /\ worker'[c] = w /\ channel'[c] = q
  BY <1>1 DEF Local, OnChildren
<1>3. Sound(c, sub'[c], worker'[c], channel'[c], dag')
  BY <1>1, <1>2 DEF Sound
<1>4. Locked(c)' => Alone(c)
  BY LockedAlone DEF Locked
<1>5. Later(c)
  BY DEF Later
<1> QED BY <1>2, <1>3, <1>4, <1>5, InputKept, OutputKept, StepKeeps

LEMMA RunningState ==
    ASSUME IInv, NEW c \in Children, worker[c].st \in {"up", "hung", "leaving"}
    PROVE  /\ IsWorker(worker[c]) /\ OnChildren(worker) /\ OnChildren(channel)
           /\ sub[c].st \notin {"unborn", "boot"}
           /\ InStep(c, sub[c], worker[c], channel[c])
BY DEF IInv, Shapes, Sound, Fresh

LEMMA HangKeeps ==
    ASSUME IInv, NEW c \in Children, Hang(c)
    PROVE  IInv'
<1> DEFINE w == [worker[c] EXCEPT !.st = "hung"]
<1>1. /\ IsWorker(worker[c]) /\ worker[c].st \notin {"none", "dead"} /\ OnChildren(channel)
      /\ sub[c].st \notin {"unborn", "boot"}
      /\ InStep(c, sub[c], worker[c], channel[c])
  BY RunningState DEF Hang
<1>2. w.st = "hung" /\ w.pipe = worker[c].pipe /\ w.applied = worker[c].applied /\ IsWorker(w)
  BY <1>1 DEF IsWorker
<1>3. worker' = [worker EXCEPT ![c] = w] /\ UNCHANGED <<stdin, stdout, outcome, sub, dag>>
  BY DEF Hang, operator, wire
<1>4. channel' = [channel EXCEPT ![c] = channel[c]]
  BY <1>1 DEF Hang, OnChildren
<1> HIDE DEF w
<1>5. Fresh(sub[c], w) /\ InStep(c, sub[c], w, channel[c])
  BY <1>1, <1>2 DEF Fresh, InStep
<1> QED BY <1>2, <1>3, <1>4, <1>5, WorkerKeeps

LEMMA DieKeeps ==
    ASSUME IInv, NEW c \in Children, Die(c) \/ Quit(c)
    PROVE  IInv'
<1> DEFINE w == [worker[c] EXCEPT !.st = "dead", !.pipe = <<>>]
<1>1. /\ IsWorker(worker[c]) /\ OnChildren(channel) /\ sub[c].st \notin {"unborn", "boot"}
  BY RunningState DEF Die, Quit
<1>2. w.st = "dead" /\ IsWorker(w)
  <2> DEFINE v == [worker[c] EXCEPT !.st = "dead"]
  <2>1. v.st = "dead" /\ IsWorker(v)
    BY <1>1 DEF IsWorker
  <2>2. w = Piped(v, <<>>)
    BY DEF Piped
  <2> HIDE DEF v
  <2> QED BY <2>1, <2>2, PipedFields
<1>3. worker' = [worker EXCEPT ![c] = w] /\ UNCHANGED <<stdin, stdout, outcome, sub, dag>>
  BY DEF Die, Quit, operator, wire
<1>4. channel' = [channel EXCEPT ![c] = channel[c]]
  BY <1>1 DEF Die, Quit, OnChildren
<1> HIDE DEF w
<1>5. Fresh(sub[c], w) /\ InStep(c, sub[c], w, channel[c])
  BY <1>1, <1>2 DEF Fresh, InStep
<1> QED BY <1>2, <1>3, <1>4, <1>5, WorkerKeeps

\* The one job there can be, from a substrate that trusts the worker, is answered.
LEMMA WorkKeeps ==
    ASSUME IInv, NEW c \in Children, Work(c)
    PROVE  IInv'
<1> DEFINE r == Head(worker[c].pipe)
<1>1. PICK how \in {"ok", "error"} :
        /\ r.op = "shutdown" => how = "ok"
        /\ worker' = [worker EXCEPT
              ![c].pipe = Tail(@),
              ![c].applied = IF r.op = "perturb" /\ how = "ok" THEN @ \cup {r.by} ELSE @,
              ![c].st = IF r.op = "shutdown" THEN "leaving" ELSE @]
        /\ channel' = [channel EXCEPT ![c] = Append(@, Reply(r.id, how))]
  BY DEF Work
<1> DEFINE done == IF r.op = "perturb" /\ how = "ok" THEN worker[c].applied \cup {r.by}
                   ELSE worker[c].applied
           st == IF r.op = "shutdown" THEN "leaving" ELSE worker[c].st
           q == Append(channel[c], Reply(r.id, how))
           w == Turned(Taught(Piped(worker[c], Tail(worker[c].pipe)), done), st)
<1>2. /\ IsWorker(worker[c]) /\ OnChildren(worker) /\ OnChildren(channel)
      /\ sub[c].st \notin {"unborn", "boot"} /\ worker[c].st = "up" /\ worker[c].pipe # <<>>
      /\ InStep(c, sub[c], worker[c], channel[c])
  BY RunningState DEF Work, HasFrame
<1>3. UNCHANGED <<stdin, stdout, outcome, sub, dag>>
  BY DEF Work, operator, wire
<1>4. channel' = [channel EXCEPT ![c] = q]
  BY <1>1
<1>5. worker' = [worker EXCEPT ![c] = w]
  BY <1>1, <1>2 DEF OnChildren, IsWorker, Piped, Taught, Turned
<1>6. /\ IsWorker(w) /\ Fresh(sub[c], w)
      /\ w.pipe = Tail(worker[c].pipe) /\ w.applied = done
  <2>1. IsWorker(w) /\ w.pipe = Tail(worker[c].pipe) /\ w.applied = done
    <3> HIDE DEF done, st
    <3> QED BY <1>2, PipedFields, TaughtFields, TurnedFields
  <2> HIDE DEF w, q
  <2> QED BY <1>2, <2>1 DEF Fresh
<1> HIDE DEF w
<1>7. InStep(c, sub[c], w, q)
  <2> DEFINE n == sub[c].next - 1
             by == <<c, sub[c].cur.id>>
  <2>1. SUFFICES ASSUME sub[c].st \in {"replay", "idle", "calling"}, ~sub[c].desynchronized
                 PROVE  InStep(c, sub[c], w, q)
    BY DEF InStep
  <2>2. /\ sub[c].st = "calling" /\ worker[c].pipe = <<Job(n, "perturb", by)>>
        /\ channel[c] = <<>> /\ worker[c].applied = sub[c].dag
    BY <2>1, <1>2 DEF InStep
  <2>3. r = Job(n, "perturb", by) /\ Tail(worker[c].pipe) = <<>>
    BY <2>2
  <2>4. r.id = n /\ r.op = "perturb" /\ r.by = by
    BY <2>3 DEF Job
  <2>5. q = <<Reply(n, how)>>
    BY <2>2, <2>4
  <2>6. done = IF how = "ok" THEN sub[c].dag \cup {by} ELSE sub[c].dag
    BY <2>2, <2>4
  <2>7. w.pipe = <<>> /\ w.applied = done
    BY <1>6, <2>3
  <2> HIDE DEF q, done
  <2> QED BY <2>2, <2>5, <2>6, <2>7 DEF InStep
<1> HIDE DEF q
<1> QED BY <1>3, <1>4, <1>5, <1>6, <1>7, WorkerKeeps

-----------------------------------------------------------------------------
(* The actions of the client and its server. *)

LEMMA ClientKeeps ==
    ASSUME IInv, UNCHANGED <<sub, worker, channel, dag>>,
           OnChildren(stdin'), OnChildren(stdout'), OnChildren(outcome'),
           \A c \in Children : stdin'[c] \in Seq(Requests) /\ stdout'[c] \in Seq(Truths(c)),
           Told'
    PROVE  IInv'
<1>1. \A c \in Children : Truths(c)' = Truths(c)
  BY DEF Truths, Recorded
<1>2. Shapes'
  BY <1>1 DEF IInv, Shapes, OnChildren, IsSub, Subs, IsWorker
<1>3. OneLocked'
  BY DEF IInv, OneLocked, Locked
<1>4. \A c \in Children : Sound(c, sub[c], worker[c], channel[c], dag)'
  BY ZenonT(60) DEF IInv, Sound, IsSub, Subs, IsWorker, Fresh, Held, InStep
<1> QED BY <1>2, <1>3, <1>4 DEF IInv

\* What the invariant says of the pipes and the outcomes.
LEMMA Pipes ==
    ASSUME IInv
    PROVE  /\ OnChildren(stdin) /\ OnChildren(stdout) /\ OnChildren(outcome) /\ OnChildren(sub)
           /\ Told
           /\ \A c \in Children : stdin[c] \in Seq(Requests) /\ stdout[c] \in Seq(Truths(c))
BY DEF IInv, Shapes

\* A new request is one more frame.
LEMMA SendsShape ==
    ASSUME IInv, NEW c \in Children, NEW op \in {"hello", "perturb", "shutdown"}, Sends(c, op)
    PROVE  OnChildren(stdin') /\ \A d \in Children : stdin'[d] \in Seq(Requests)
<1> DEFINE r == Request(client[c].next, op)
<1>1. r \in Requests
  BY DEF Sends, Request, Requests
<1>2. stdin' = [stdin EXCEPT ![c] = Append(@, r)]
  BY DEF Sends
<1> HIDE DEF r
<1>3. Append(stdin[c], r) \in Seq(Requests)
  BY <1>1, Pipes
<1> QED BY <1>2, <1>3, Pipes DEF OnChildren

\* Requests that settle by an answer the DAG bears out, or by anything but success.
LEMMA SettleTold ==
    ASSUME IInv, NEW c \in Children, NEW ids, NEW how, Settle(c, ids, how), dag' = dag,
           sub' = sub,
           \A i \in ids \cap Ids : how = "perturb_ack" => Recorded(c, i, sub[c], dag)
    PROVE  OnChildren(outcome') /\ Told'
<1>1. outcome' = [outcome EXCEPT ![c] = [i \in Ids |-> IF i \in ids THEN how ELSE @[i]]]
  BY DEF Settle
<1> QED BY <1>1, Pipes DEF OnChildren, Told, Recorded

LEMMA FailAllTold ==
    ASSUME IInv, NEW c \in Children, FailAll(c), dag' = dag, sub' = sub
    PROVE  OnChildren(outcome') /\ Told'
<1>1. outcome' = [outcome EXCEPT ![c] =
                    [i \in Ids |-> IF i \in client[c].pending THEN "error" ELSE @[i]]]
  BY DEF FailAll
<1> QED BY <1>1, Pipes DEF OnChildren, Told, Recorded

\* The answer that is taken for a request is one with its id.
LEMMA ReceiveKeeps ==
    ASSUME IInv, NEW c \in Children, Receive(c)
    PROVE  IInv'
<1> DEFINE r == Head(stdout[c])
<1>1. /\ stdout[c] # <<>> /\ stdout' = [stdout EXCEPT ![c] = Tail(@)]
      /\ UNCHANGED <<stdin, sub, worker, channel, dag>>
      /\ Settle(c, {r.id}, r.how) \/ FailAll(c)
  BY DEF Receive, HasFrame
<1>2. r \in Truths(c) /\ Tail(stdout[c]) \in Seq(Truths(c))
  BY <1>1, Pipes
<1>3. r.how = "perturb_ack" => Recorded(c, r.id, sub[c], dag)
  BY <1>2 DEF Truths
<1> HIDE DEF r
<1>4. OnChildren(outcome') /\ Told'
  BY <1>1, <1>3, SettleTold, FailAllTold
<1>5. OnChildren(stdout') /\ \A d \in Children : stdout'[d] \in Seq(Truths(d))
  BY <1>1, <1>2, Pipes DEF OnChildren
<1> QED BY <1>1, <1>4, <1>5, Pipes, ClientKeeps

LEMMA ExpireKeeps ==
    ASSUME IInv, NEW c \in Children, NEW i \in Ids, Expire(c, i)
    PROVE  IInv'
<1>1. Settle(c, {i}, "error") /\ UNCHANGED <<stdin, stdout, sub, worker, channel, dag>>
  BY DEF Expire, wire
<1>2. OnChildren(outcome') /\ Told'
  BY <1>1, SettleTold
<1> QED BY <1>1, <1>2, Pipes, ClientKeeps

LEMMA StdoutClosedKeeps ==
    ASSUME IInv, NEW c \in Children, StdoutClosed(c)
    PROVE  IInv'
<1>1. FailAll(c) /\ UNCHANGED <<stdin, stdout, sub, worker, channel, dag>>
  BY DEF StdoutClosed, wire
<1>2. OnChildren(outcome') /\ Told'
  BY <1>1, FailAllTold
<1> QED BY <1>1, <1>2, Pipes, ClientKeeps

\* A new process is not locked, and has no worker yet.
LEMMA SpawnKeeps ==
    ASSUME IInv, NEW c \in Children, Spawn(c)
    PROVE  IInv'
<1> DEFINE s == [sub[c] EXCEPT !.st = "boot"]
<1>1. /\ sub[c].st = "unborn" /\ sub' = [sub EXCEPT ![c] = s] /\ Sends(c, "hello")
      /\ UNCHANGED <<outcome, stdout, worker, channel, dag>>
  BY DEF Spawn
<1>2. /\ IsSub(sub[c]) /\ IsWorker(worker[c]) /\ Fresh(sub[c], worker[c])
      /\ OnChildren(sub) /\ OnChildren(worker) /\ OnChildren(channel)
  BY DEF IInv, Shapes, Sound
<1>3. /\ IsSub(s) /\ s.st = "boot" /\ s.desynchronized = sub[c].desynchronized
      /\ s.dag = sub[c].dag /\ s.failing = sub[c].failing
  <2>1. s = Moved(sub[c], "boot", sub[c].cur)
    BY <1>2 DEF Moved, IsSub, Subs
  <2>2. sub[c].cur \in Requests /\ "boot" \in States
    BY <1>2 DEF IsSub, Subs, States
  <2> HIDE DEF s
  <2> QED BY <1>2, <2>1, <2>2, MovedFields
<1> HIDE DEF s
<1>4. Local(c) /\ sub'[c] = s /\ worker'[c] = worker[c] /\ channel'[c] = channel[c]
  BY <1>1, <1>2 DEF Local, OnChildren
<1>5. Sound(c, s, worker[c], channel[c], dag')
  BY <1>1, <1>2, <1>3 DEF Sound, Fresh, Held, InStep, Holding
<1>6. ~Locked(c)'
  BY <1>3, <1>4 DEF Locked
<1>7. Later(c)
  BY <1>1, <1>3, <1>4 DEF Later, Recorded, Holding
<1> QED BY <1>1, <1>4, <1>5, <1>6, <1>7, SendsShape, OutputKept, StepKeeps

LEMMA SendingKeeps ==
    ASSUME IInv, NEW c \in Children, Call(c) \/ Close(c)
    PROVE  IInv'
<1>1. /\ Sends(c, "perturb") \/ Sends(c, "shutdown")
      /\ UNCHANGED <<outcome, stdout, sub, worker, channel, dag>>
  BY DEF Call, Close
<1>2. Told'
  BY <1>1, Pipes DEF Told, Recorded
<1>3. OnChildren(stdin') /\ \A d \in Children : stdin'[d] \in Seq(Requests)
  BY <1>1, SendsShape
<1>4. OnChildren(stdout') /\ OnChildren(outcome') /\ \A d \in Children : stdout'[d] \in Seq(Truths(d))
  BY <1>1, Pipes DEF OnChildren
<1> QED BY <1>1, <1>2, <1>3, <1>4, ClientKeeps

\* Steps of the client that touch none of this.
LEMMA SilentKeeps ==
    ASSUME IInv, UNCHANGED <<stdin, stdout, outcome, sub, worker, channel, dag>>
    PROVE  IInv'
<1>1. Told' /\ OnChildren(stdin') /\ OnChildren(stdout') /\ OnChildren(outcome')
  BY Pipes DEF Told, Recorded, OnChildren
<1> QED BY <1>1, Pipes, ClientKeeps

LEMMA OperatorDiesKeeps ==
    ASSUME IInv, OperatorDies
    PROVE  IInv'
<1>1. /\ outcome' = [c \in Children |-> Unsettled] /\ stdout' = [c \in Children |-> <<>>]
      /\ UNCHANGED <<stdin, sub, worker, channel, dag>>
  BY DEF OperatorDies
<1>2. \A c \in Children : stdout'[c] = <<>> /\ outcome'[c] = Unsettled
  BY <1>1
<1>3. OnChildren(stdout') /\ OnChildren(outcome') /\ OnChildren(stdin')
  BY <1>1, Pipes DEF OnChildren
<1>4. \A c \in Children : stdout'[c] \in Seq(Truths(c))
  BY <1>2, EmptyIsSeq
<1>5. Told'
  BY <1>2 DEF Told, Unsettled
<1> QED BY <1>1, <1>3, <1>4, <1>5, Pipes, ClientKeeps

-----------------------------------------------------------------------------
(* The theorems. *)

LEMMA InitEstablishes == Init => IInv
<1> SUFFICES ASSUME Init PROVE IInv
  OBVIOUS
<1>1. \A c \in Children : /\ stdin[c] = <<>> /\ stdout[c] = <<>> /\ outcome[c] = Unsettled
                          /\ sub[c] = NewSub /\ worker[c] = NewWorker /\ channel[c] = <<>>
  BY DEF Init
<1>2. /\ IsSub(NewSub) /\ NewSub.st = "unborn"
      /\ ~NewSub.desynchronized /\ ~NewSub.failing
  BY DEF IsSub, Subs, States, NewSub, NoRequest, Requests
<1>3. IsWorker(NewWorker) /\ NewWorker.st = "none"
  BY DEF IsWorker, NewWorker
<1>4. \A c \in Children : stdin[c] \in Seq(Requests) /\ stdout[c] \in Seq(Truths(c))
  BY <1>1, EmptyIsSeq
<1>5. Shapes
  BY <1>1, <1>2, <1>3, <1>4 DEF Init, Shapes, OnChildren
<1>6. Told
  BY <1>1 DEF Told, Unsettled
<1>7. OneLocked
  BY <1>1, <1>2 DEF OneLocked, Locked
<1>8. \A c \in Children : Sound(c, sub[c], worker[c], channel[c], dag)
  BY <1>1, <1>2, <1>3 DEF Sound, Fresh, Held, InStep, Holding
<1> QED BY <1>5, <1>6, <1>7, <1>8 DEF IInv

LEMMA NextKeeps == IInv /\ [Next]_vars => IInv'
<1> SUFFICES ASSUME IInv, [Next]_vars PROVE IInv'
  OBVIOUS
<1>1. CASE UNCHANGED vars
  BY <1>1, SilentKeeps DEF vars
<1>2. CASE OperatorDies
  BY <1>2, OperatorDiesKeeps
<1>3. ASSUME NEW c \in Children, ToolCall(c)
      PROVE  IInv'
  <2>1. CASE Spawn(c)
    BY <2>1, SpawnKeeps
  <2>2. CASE Call(c) \/ Close(c)
    BY <2>2, SendingKeeps
  <2>3. CASE Abandon(c)
    BY <2>3, SilentKeeps DEF Abandon, wire
  <2> QED BY <1>3, <2>1, <2>2, <2>3 DEF ToolCall
<1>4. ASSUME NEW c \in Children, ClientStep(c)
      PROVE  IInv'
  <2>1. CASE Receive(c)
    BY <2>1, ReceiveKeeps
  <2>2. CASE StdoutClosed(c)
    BY <2>2, StdoutClosedKeeps
  <2>3. CASE EndStdin(c)
    BY <2>3, SilentKeeps DEF EndStdin, wire, operator
  <2>4. CASE Closed(c)
    BY <2>4, SilentKeeps DEF Closed, wire
  <2>5. CASE \E i \in Ids : Expire(c, i)
    BY <2>5, ExpireKeeps
  <2> QED BY <1>4, <2>1, <2>2, <2>3, <2>4, <2>5 DEF ClientStep
<1>5. ASSUME NEW c \in Children, SubstrateStep(c)
      PROVE  IInv'
  BY <1>5, BootKeeps, ReplayKeeps, TakeFrameKeeps, CallReturnsKeeps, CallTimesOutKeeps, CallBreaksKeeps,
     LeavingKeeps, KilledKeeps DEF SubstrateStep
<1>6. ASSUME NEW c \in Children, WorkerStep(c)
      PROVE  IInv'
  BY <1>6, WorkKeeps, HangKeeps, DieKeeps DEF WorkerStep
<1> QED BY <1>1, <1>2, <1>3, <1>4, <1>5, <1>6 DEF Next

LEMMA Invariance == Spec => []IInv
<1> QED BY InitEstablishes, NextKeeps, PTL DEF Spec

\* A worker the substrate will still talk to holds, between two requests, exactly the
\* perturbations of the DAG in the substrate's memory: the poison latch keeps late
\* answers from being taken for later ones (client.rs, send_request_with_timeout).
THEOREM GradientInStep == Spec => []GradientIsTheDag
<1>1. IInv => GradientIsTheDag
  BY DEF IInv, Sound, InStep, GradientIsTheDag
<1> QED BY <1>1, Invariance, PTL

\* What a tool call reports as done was done, is in the DAG of the process that did it,
\* and stays on file through every later process, unless that process's last save
\* failed: answers are paired by id, and sent after the record and the attempt to save
\* it (substrate_client.ts, _routeIncoming; dispatch.rs).
THEOREM SuccessRecorded == Spec => []SuccessIsRecorded
<1>1. IInv => SuccessIsRecorded
  BY DEF IInv, Told, SuccessIsRecorded, Recorded, Locked, Holding
<1> QED BY <1>1, Invariance, PTL
=============================================================================
