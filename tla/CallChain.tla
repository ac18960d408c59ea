------------------------------ MODULE CallChain ------------------------------
(* A request's way through three processes: the MCP server and its               *)
(* SubstrateClient (TypeScript), the substrate's frame loop (Rust) and the       *)
(* gradient worker behind the BridgeClient (Python).  Every hop has its own ids, *)
(* its own deadline and its own way of giving up; the processes can hang, die,   *)
(* be killed and be started again on the same state directory.                   *)
(*                                                                               *)
(* A perturbation stands for every request that changes the worker and the DAG.  *)
(* A deadline may strike whenever an answer has not arrived.  Any save of the DAG *)
(* may fail, and none of the saves made here is waited on by an answer.  The      *)
(* cycles a substrate drives by itself are MetabolicClock's.                     *)
EXTENDS Naturals, Sequences, Functions

CONSTANTS MaxBoots,   \* bound: substrate processes started
          MaxIds      \* bound: request ids of one client, the HELLO included

Children == 1..MaxBoots
Ids == 1..MaxIds

VARIABLES
    server,   \* McpServer: what became of the substrate, and which child it is
    client,   \* the SubstrateClient of each child: ids, waiters, fatal error
    outcome,  \* how each request settled
    stdin, stdout, \* the frames between a client and its child
    ended,    \* the child's stdin has reached its end
    killed,   \* the child was sent a signal
    sub,      \* the substrate process, the DAG in its memory included
    worker,   \* its Python worker: pipe, state and the perturbations applied
    channel,  \* answers the reader thread has queued
    dag       \* the perturbations of the DAG in the state directory

vars == <<server, client, outcome, stdin, stdout, ended, killed, sub, worker, channel, dag>>
wire == <<stdin, stdout>>
operator == <<server, client, outcome>>

NoRequest == [id |-> 0, op |-> "none"]

\* The three kinds of frame: pipes neither corrupt nor reorder them, and a reader
\* acts on whole ones.
Request(id, op) == [id |-> id, op |-> op]
Reply(id, how) == [id |-> id, how |-> how]
Job(id, op, by) == [id |-> id, op |-> op, by |-> by]
HasFrame(pipe) == pipe # <<>>

----------------------------------------------------------------------------
(* The client. *)

NewServer == [st |-> "none", child |-> 0, closing |-> FALSE, request |-> 0]
NewClient == [next |-> 1, pending |-> {}, fatal |-> FALSE]
Unsettled == [i \in Ids |-> "none"]

Alive == server.st # "gone"

\* _registerWaiter and _writeFrame.
Sends(c, op) ==
    /\ client[c].next \in Ids
    /\ client' = [client EXCEPT ![c].next = @ + 1,
                                ![c].pending = @ \cup {client[c].next}]
    /\ stdin' = [stdin EXCEPT ![c] = Append(@, Request(client[c].next, op))]

\* HELLO is the first request: how it settles is how the spawn promise settles, and
\* a promise that was rejected stays where the next tool call finds it.
AfterSettling(c, ids, how) ==
    IF server.st = "spawning" /\ server.child = c /\ 1 \in ids
    THEN [server EXCEPT !.st = IF how = "hello_ack" THEN "ready" ELSE "failed"]
    ELSE server

\* _settleWaiter.
Settle(c, ids, how) ==
    /\ client' = [client EXCEPT ![c].pending = @ \ ids]
    /\ outcome' = [outcome EXCEPT ![c] = [i \in Ids |-> IF i \in ids THEN how ELSE @[i]]]
    /\ server' = AfterSettling(c, ids, how)

\* _failAll.
FailAll(c) ==
    /\ client' = [client EXCEPT ![c].pending = {}, ![c].fatal = TRUE]
    /\ outcome' = [outcome EXCEPT ![c] =
                     [i \in Ids |-> IF i \in client[c].pending THEN "error" ELSE @[i]]]
    /\ server' = AfterSettling(c, client[c].pending, "error")

\* _ensureSubstrate and SubstrateClient.spawn, on the first tool call.
Spawn(c) ==
    /\ server.st = "none" /\ sub[c].st = "unborn"
    /\ \A d \in Children : d < c => sub[d].st # "unborn"
    /\ server' = [server EXCEPT !.st = "spawning", !.child = c]
    /\ sub' = [sub EXCEPT ![c].st = "boot"]
    /\ Sends(c, "hello")
    /\ UNCHANGED <<outcome, stdout, ended, killed, worker, channel, dag>>

\* A tool call that perturbs.  With a fatal error it throws instead.
Call(c) ==
    /\ server.st = "ready" /\ server.child = c
    /\ ~client[c].fatal
    /\ Sends(c, "perturb")
    /\ UNCHANGED <<server, outcome, stdout, ended, killed, sub, worker, channel, dag>>

\* stdout.on("data") and _routeIncoming: an answer nobody waits for is fatal.
Receive_InOrder(c) ==
    /\ Alive /\ HasFrame(stdout[c])
    /\ stdout' = [stdout EXCEPT ![c] = Tail(@)]
    /\ IF client[c].pending # {}
       THEN Settle(c, {CHOOSE i \in client[c].pending : \A j \in client[c].pending : i <= j},
                   Head(stdout[c]).how)
       ELSE FailAll(c)
    /\ UNCHANGED <<stdin, ended, killed, sub, worker, channel, dag>>

Receive(c) ==
    /\ Alive /\ HasFrame(stdout[c])
    /\ stdout' = [stdout EXCEPT ![c] = Tail(@)]
    /\ IF Head(stdout[c]).id \in client[c].pending
       THEN Settle(c, {Head(stdout[c]).id}, Head(stdout[c]).how)
       ELSE FailAll(c)
    /\ UNCHANGED <<stdin, ended, killed, sub, worker, channel, dag>>

\* The waiter's timer rejects it.
Expire(c, i) ==
    /\ Alive /\ i \in client[c].pending
    /\ Settle(c, {i}, "error")
    /\ UNCHANGED <<wire, ended, killed, sub, worker, channel, dag>>

\* stdout.on("close"), once every frame has been read.
StdoutClosed(c) ==
    /\ Alive /\ sub[c].st = "exited" /\ stdout[c] = <<>> /\ ~client[c].fatal
    /\ FailAll(c)
    /\ UNCHANGED <<wire, ended, killed, sub, worker, channel, dag>>

\* myco_shutdown_substrate with a client that failed: a signal, and no waiting.
Abandon(c) ==
    /\ server.st = "ready" /\ server.child = c /\ ~server.closing
    /\ client[c].fatal
    /\ killed' = [killed EXCEPT ![c] = TRUE]
    /\ server' = NewServer
    /\ UNCHANGED <<client, outcome, wire, ended, sub, worker, channel, dag>>

\* myco_shutdown_substrate: SHUTDOWN ...
Close(c) ==
    /\ server.st = "ready" /\ server.child = c /\ ~server.closing
    /\ ~client[c].fatal
    /\ Sends(c, "shutdown")
    /\ server' = [server EXCEPT !.closing = TRUE, !.request = client[c].next]
    /\ UNCHANGED <<outcome, stdout, ended, killed, sub, worker, channel, dag>>

\* ... answered or not, the end of stdin ...
EndStdin(c) ==
    /\ Alive /\ server.closing /\ server.child = c
    /\ server.request \notin client[c].pending /\ ~ended[c]
    /\ ended' = [ended EXCEPT ![c] = TRUE]
    /\ UNCHANGED <<operator, wire, killed, sub, worker, channel, dag>>

\* ... and the wait for the child to exit.
Closed(c) ==
    /\ Alive /\ server.closing /\ server.child = c /\ ended[c]
    /\ sub[c].st = "exited"
    /\ server' = NewServer
    /\ UNCHANGED <<client, outcome, wire, ended, killed, sub, worker, channel, dag>>

\* The operator's process ends.  Its children's stdin need not: a pipe's end is not
\* always delivered (the reason parent_watch.rs gives for its own existence).
OperatorDies ==
    /\ Alive
    /\ server' = [NewServer EXCEPT !.st = "gone"]
    /\ client' = [c \in Children |-> NewClient]
    /\ outcome' = [c \in Children |-> Unsettled]
    /\ stdout' = [c \in Children |-> <<>>]
    /\ \E delivered \in BOOLEAN :
         ended' = IF delivered THEN [c \in Children |-> TRUE] ELSE ended
    /\ UNCHANGED <<stdin, killed, sub, worker, channel, dag>>

----------------------------------------------------------------------------
(* The substrate. *)

\* failing: the last save failed (persistence_health).
NewSub == [st |-> "unborn", cur |-> NoRequest, next |-> 1, desynchronized |-> FALSE,
           dag |-> {}, failing |-> FALSE]
NewWorker == [st |-> "none", pipe |-> <<>>, applied |-> {}]

Locked(c) == sub[c].st \in {"replay", "idle", "calling", "leaving", "reaping"}

\* StateDirLock::acquire.
MayAcquire(c) == \A d \in Children : ~Locked(d)

\* The process ends, and with it its lock and its worker: the drop of the
\* BridgeClient kills one, a signal leaves the other to read the end of its stdin.
Exits(c, s) ==
    /\ sub' = [sub EXCEPT ![c] = [NewSub EXCEPT !.st = "exited", !.failing = s.failing]]
    /\ worker' = [worker EXCEPT ![c] = [NewWorker EXCEPT !.st = "dead"]]
    /\ channel' = [channel EXCEPT ![c] = <<>>]

\* send_request_with_timeout before the wait: refused once a deadline has passed,
\* broken when the worker is not there.
CanAsk(c, s) == ~s.desynchronized /\ worker[c].st \notin {"none", "dead"}

Asks(c, s, st, op, queued) ==
    /\ sub' = [sub EXCEPT ![c] = [s EXCEPT !.st = st, !.next = @ + 1]]
    /\ worker' = [worker EXCEPT ![c].pipe =
                    Append(@, Job(s.next, op, <<c, s.cur.id>>))]
    /\ channel' = [channel EXCEPT ![c] = queued]

\* Every way out of run_loop: SHUTDOWN to a worker that can be asked, whether
\* graceful_shutdown_python asks or the drop of the BridgeClient does.
Leaves(c, s, queued) ==
    IF CanAsk(c, s) THEN Asks(c, s, "leaving", "shutdown", queued) ELSE Exits(c, s)

\* Writing to an operator that is gone is an error that ends run_loop.
Answers(c, s, how, queued) ==
    IF Alive
    THEN /\ stdout' = [stdout EXCEPT ![c] = Append(@, Reply(s.cur.id, how))]
         /\ sub' = [sub EXCEPT ![c] = [s EXCEPT !.st = "idle", !.cur = NoRequest]]
         /\ channel' = [channel EXCEPT ![c] = queued]
         /\ UNCHANGED worker
    ELSE Leaves(c, s, queued) /\ UNCHANGED stdout

\* SHUTDOWN_ACK, then the way out.
AcksShutdown(c, s, queued) ==
    /\ IF Alive
       THEN stdout' = [stdout EXCEPT ![c] = Append(@, Reply(s.cur.id, "shutdown_ack"))]
       ELSE UNCHANGED stdout
    /\ Leaves(c, s, queued)

\* let _ = save_dag_state: the whole DAG goes to the file, or the failure is counted.
Saves(saved, s) ==
    dag' = IF saved THEN s.dag ELSE dag

\* The lock and the DAG; either may fail.
Boot(c) ==
    /\ sub[c].st = "boot"
    /\ \/ /\ MayAcquire(c)
          /\ sub' = [sub EXCEPT ![c].st = "idle", ![c].dag = dag]
          /\ UNCHANGED <<worker, channel>>
       \/ Exits(c, sub[c])
    /\ UNCHANGED <<operator, wire, ended, killed, dag>>

\* handle_hello: the worker's spawn and handshake, and then the replay of the DAG into
\* it.  A refused HELLO ends the process: the error frame or the end of stdout tells
\* the client the same.
Greets(c, s) ==
    \/ /\ sub' = [sub EXCEPT ![c] = [s EXCEPT !.st = "replay"]]
       /\ worker' = [worker EXCEPT ![c] = [NewWorker EXCEPT !.st = "up", !.applied = s.dag]]
       /\ channel' = [channel EXCEPT ![c] = <<>>]
    \/ Exits(c, s)

\* The replay is through, or one of its calls has failed, at once or after a deadline.
Replay(c) ==
    /\ sub[c].st = "replay"
    /\ \/ worker[c].st = "up" /\ Answers(c, sub[c], "hello_ack", channel[c])
       \/ /\ \E late \in BOOLEAN :
               Leaves(c, [sub[c] EXCEPT !.desynchronized = late], channel[c])
          /\ UNCHANGED stdout
    /\ UNCHANGED <<operator, stdin, ended, killed, dag>>

\* The frame loop takes a request.  HELLO starts the worker, a perturbation goes to
\* it unless the quarantine, the latch or a dead worker refuses it, and SHUTDOWN saves
\* the DAG, as well as it can, and is acknowledged.
TakeFrame(c) ==
    /\ sub[c].st = "idle" /\ HasFrame(stdin[c])
    /\ stdin' = [stdin EXCEPT ![c] = Tail(@)]
    /\ LET s == [sub[c] EXCEPT !.cur = Head(stdin[c])]
       IN \/ /\ s.cur.op = "hello"
             /\ Greets(c, s)
             /\ UNCHANGED <<stdout, dag>>
          \/ /\ s.cur.op = "perturb" /\ CanAsk(c, s)
             /\ Asks(c, s, "calling", "perturb", channel[c])
             /\ UNCHANGED <<stdout, dag>>
          \/ /\ s.cur.op = "perturb"
             /\ Answers(c, s, "error", channel[c])
             /\ UNCHANGED dag
          \/ /\ s.cur.op = "shutdown"
             /\ \E saved \in BOOLEAN :
                  /\ Saves(saved, s)
                  /\ AcksShutdown(c, [s EXCEPT !.failing = ~saved], channel[c])
    /\ UNCHANGED <<operator, ended, killed>>

\* What follows a call, by how it went.  A perturbation the worker acknowledged is
\* recorded in memory, saved if that succeeds, and answered as a success either way.
Continue(c, s, ok, queued) ==
    \/ /\ s.st = "calling" /\ ok
       /\ \E saved \in BOOLEAN :
            LET t == [s EXCEPT !.dag = @ \cup {<<c, s.cur.id>>}, !.failing = ~saved]
            IN Saves(saved, t) /\ Answers(c, t, "perturb_ack", queued)
    \/ /\ s.st = "calling" /\ ~ok
       /\ Answers(c, s, "error", queued)
       /\ UNCHANGED dag
    \/ \* shutdown_inner: a worker that acknowledged is waited for ...
       /\ s.st = "leaving" /\ ok
       /\ sub' = [sub EXCEPT ![c] = [s EXCEPT !.st = "reaping"]]
       /\ channel' = [channel EXCEPT ![c] = queued]
       /\ UNCHANGED <<worker, stdout, dag>>
    \/ \* ... any other is killed.
       /\ s.st = "leaving" /\ ~ok
       /\ Exits(c, s)
       /\ UNCHANGED <<stdout, dag>>

\* child.wait(), which has no deadline.
Reap(c) ==
    /\ sub[c].st = "reaping" /\ worker[c].st = "dead"
    /\ Exits(c, sub[c])
    /\ UNCHANGED <<operator, wire, ended, killed, dag>>

Waiting(c) == sub[c].st \in {"calling", "leaving"}

\* register_axis, perturb, advance: the answer is the acknowledgement they wait for.
Acknowledged(reply, s) == reply = Reply(s.next - 1, "ok")

\* recv_response with a frame in the channel: an error envelope is the end of the
\* call, an answer must carry the id of the request.
CallReturns(c) ==
    /\ Waiting(c) /\ channel[c] # <<>>
    /\ Continue(c, sub[c], Acknowledged(Head(channel[c]), sub[c]), Tail(channel[c]))
    /\ UNCHANGED <<operator, stdin, ended, killed>>

CallTimesOut_Unlatched(c) ==
    /\ Waiting(c) /\ channel[c] = <<>> /\ worker[c].st # "dead"
    /\ Continue(c, sub[c], FALSE, <<>>)
    /\ UNCHANGED <<operator, stdin, ended, killed>>

CallTimesOut_Patient(c) ==
    /\ sub[c].st = "calling" /\ channel[c] = <<>> /\ worker[c].st # "dead"
    /\ Continue(c, [sub[c] EXCEPT !.desynchronized = TRUE], FALSE, <<>>)
    /\ UNCHANGED <<operator, stdin, ended, killed>>

\* The deadline: the stream is out of step from here on.
CallTimesOut(c) ==
    /\ Waiting(c) /\ channel[c] = <<>> /\ worker[c].st # "dead"
    /\ Continue(c, [sub[c] EXCEPT !.desynchronized = TRUE], FALSE, <<>>)
    /\ UNCHANGED <<operator, stdin, ended, killed>>

\* The reader thread has met the end of the worker's stdout.
CallBreaks(c) ==
    /\ Waiting(c) /\ channel[c] = <<>> /\ worker[c].st = "dead"
    /\ Continue(c, sub[c], FALSE, <<>>)
    /\ UNCHANGED <<operator, stdin, ended, killed>>

WatchParent_AtEnd(c) ==
    /\ sub[c].st = "idle" /\ stdin[c] = <<>> /\ ~Alive /\ ended[c]
    /\ Leaves(c, sub[c], channel[c])
    /\ UNCHANGED <<operator, wire, ended, killed, dag>>

\* An idle tick that finds the operator gone.
WatchParent(c) ==
    /\ sub[c].st = "idle" /\ stdin[c] = <<>> /\ ~Alive
    /\ Leaves(c, sub[c], channel[c])
    /\ UNCHANGED <<operator, wire, ended, killed, dag>>

\* The end of stdin, after the frames before it.
SeeEnd(c) ==
    /\ sub[c].st = "idle" /\ stdin[c] = <<>> /\ ended[c]
    /\ Leaves(c, sub[c], channel[c])
    /\ UNCHANGED <<operator, wire, ended, killed, dag>>

\* The signal of Abandon arrives.
Killed(c) ==
    /\ killed[c] /\ sub[c].st # "exited"
    /\ Exits(c, sub[c])
    /\ UNCHANGED <<operator, wire, ended, killed, dag>>

----------------------------------------------------------------------------
(* The worker. *)

\* run_loop: one request at a time, in order, until SHUTDOWN.  A perturbation of an
\* axis it does not have is answered with an error.
Work(c) ==
    /\ worker[c].st = "up" /\ HasFrame(worker[c].pipe)
    /\ \E how \in {"ok", "error"} :
         LET r == Head(worker[c].pipe)
         IN /\ r.op = "shutdown" => how = "ok"
            /\ worker' = [worker EXCEPT
                  ![c].pipe = Tail(@),
                  ![c].applied = IF r.op = "perturb" /\ how = "ok" THEN @ \cup {r.by} ELSE @,
                  ![c].st = IF r.op = "shutdown" THEN "leaving" ELSE @]
            /\ channel' = [channel EXCEPT ![c] = Append(@, Reply(r.id, how))]
    /\ UNCHANGED <<operator, wire, ended, killed, sub, dag>>

\* After SHUTDOWN_ACK, return 0 and the interpreter's own way out.
Quit(c) ==
    /\ worker[c].st = "leaving"
    /\ worker' = [worker EXCEPT ![c].st = "dead", ![c].pipe = <<>>]
    /\ UNCHANGED <<operator, wire, ended, killed, sub, channel, dag>>

\* A deadlock, or anything else that stops it on a request, or on its way out,
\* without ending it.
Hang(c) ==
    /\ \/ worker[c].st = "up" /\ worker[c].pipe # <<>>
       \/ worker[c].st = "leaving"
    /\ worker' = [worker EXCEPT ![c].st = "hung"]
    /\ UNCHANGED <<operator, wire, ended, killed, sub, channel, dag>>

Die(c) ==
    /\ worker[c].st \in {"up", "hung"}
    /\ worker' = [worker EXCEPT ![c].st = "dead", ![c].pipe = <<>>]
    /\ UNCHANGED <<operator, wire, ended, killed, sub, channel, dag>>

----------------------------------------------------------------------------

Init ==
    /\ server = NewServer
    /\ client = [c \in Children |-> NewClient]
    /\ outcome = [c \in Children |-> Unsettled]
    /\ stdin = [c \in Children |-> <<>>]
    /\ stdout = [c \in Children |-> <<>>]
    /\ ended = [c \in Children |-> FALSE]
    /\ killed = [c \in Children |-> FALSE]
    /\ sub = [c \in Children |-> NewSub]
    /\ worker = [c \in Children |-> NewWorker]
    /\ channel = [c \in Children |-> <<>>]
    /\ dag = {}

ClientStep(c) ==
    \/ Receive(c) \/ StdoutClosed(c) \/ EndStdin(c) \/ Closed(c)
    \/ \E i \in Ids : Expire(c, i)

SubstrateStep(c) ==
    \/ Boot(c) \/ Replay(c) \/ TakeFrame(c)
    \/ CallReturns(c) \/ CallTimesOut(c) \/ CallBreaks(c) \/ Reap(c)
    \/ WatchParent(c) \/ SeeEnd(c) \/ Killed(c)

ToolCall(c) == Spawn(c) \/ Call(c) \/ Abandon(c) \/ Close(c)

WorkerStep(c) == Work(c) \/ Quit(c) \/ Hang(c) \/ Die(c)

Next ==
    \/ OperatorDies
    \/ \E c \in Children : ToolCall(c) \/ ClientStep(c) \/ SubstrateStep(c) \/ WorkerStep(c)

Spec == Init /\ [][Next]_vars

\* Every timer fires or is cleared, every process that is not stuck goes on, and a
\* deadline ends a wait for an answer.  Nothing ends the wait for a worker's exit but
\* that exit, and one that hangs owes none.  No tool call is owed, no fault is.
Fairness ==
    \A c \in Children :
        WF_vars(ClientStep(c)) /\ WF_vars(SubstrateStep(c)) /\ WF_vars(Work(c) \/ Quit(c))

FairSpec == Spec /\ Fairness

----------------------------------------------------------------------------
(* Properties. *)

TypeOK ==
    /\ server.st \in {"none", "spawning", "ready", "failed", "gone"}
    /\ \A c \in Children :
         /\ client[c].pending \subseteq 1..(client[c].next - 1)
         /\ sub[c].st \in {"unborn", "boot", "replay", "idle", "calling", "leaving",
                         "reaping", "exited"}
         /\ sub[c].dag \subseteq Children \X Ids
         /\ worker[c].st \in {"none", "up", "hung", "leaving", "dead"}
         /\ worker[c].applied \subseteq Children \X Ids
         /\ \A m \in Range(channel[c]) : m.id < sub[c].next
    /\ dag \subseteq Children \X Ids

\* Between two requests, a worker the substrate will still talk to holds exactly the
\* perturbations of the DAG in the substrate's memory, replayed or made since: an
\* answer that came too late is never taken for a later call's, so no perturbation is
\* applied unrecorded or recorded unapplied (BridgeClient's poison latch; dispatch.rs
\* records after the acknowledgement).
GradientIsTheDag ==
    \A c \in Children :
        sub[c].st = "idle" /\ ~sub[c].desynchronized /\ worker[c].st \notin {"none", "dead"}
        => worker[c].applied = sub[c].dag

\* A tool call that reports success was carried out: whatever expired before it, an
\* answer settles the request it answers (_routeIncoming pairs by id).  It is in the
\* DAG of the process that answered while that runs, and on file, whoever wrote the
\* file since, unless that process's last save failed: dispatch.rs ignores the
\* failure, and an acknowledged perturbation is then lost with the process.
SuccessIsRecorded ==
    \A c \in Children : \A i \in Ids :
        outcome[c][i] = "perturb_ack" =>
            /\ Locked(c) => <<c, i>> \in sub[c].dag
            /\ <<c, i>> \in dag \/ sub[c].failing

\* The one wait without a deadline: for the exit of a worker that acknowledged its
\* SHUTDOWN and hangs on its way out.
Lingers(c) == sub[c].st = "reaping" /\ worker[c].st = "hung"

\* The state directory is not left locked behind an operator that is gone: each of
\* its substrates exits, whatever its worker is stuck on, end of stdin delivered or
\* not, or waits in child.wait() for a worker that acknowledged and does not exit.
OrphansLeave ==
    (server.st = "gone") ~> (\A c \in Children : Locked(c) => Lingers(c))

\* A shutdown that was asked for returns, even when the worker never answers again;
\* it hangs with the substrate only behind a worker that answered and does not exit.
ShutdownReturns ==
    server.closing ~> (~server.closing \/ Lingers(server.child))

\* client.rs, on recovering from a deadline or a death: the substrate re-spawns its
\* worker.
DeadWorkerIsRespawned ==
    \A c \in Children :
        (sub[c].st = "idle" /\ worker[c].st = "dead")
        ~> (worker[c].st = "up" \/ sub[c].st = "exited")

=============================================================================
