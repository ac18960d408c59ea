----------------------------- MODULE Federation -----------------------------
(***************************************************************************)
(* The federation half of one substrate: its listener, its connections to  *)
(* other substrates, and what it records about them in its DAG.            *)
(*                                                                         *)
(* Connections live in memory only.  The substrate reads them when its     *)
(* operator polls or when its own tick does, at most one frame of a        *)
(* connection a time, and it blocks in a pull until its peer answers or    *)
(* the read times out.  The peers and the network are the environment:     *)
(* they connect, close, send frames whole or late, and batches when they   *)
(* please and with what they please: nothing here compares a batch with    *)
(* the peer's log, or an answer with the request it answers.               *)
(*                                                                         *)
(* The DAG holds only the events that some code reads back: pins, wrapped  *)
(* peer events, crossings of the consensus floor, the link to the parent.  *)
(* The witness events and immune sporocarps beside them are left out.      *)
(***************************************************************************)
EXTENDS Integers, Sequences, FiniteSets, SequencesExt

CONSTANTS
    Peers,        \* substrate ids of the others
    Self,         \* this substrate's id
    None,         \* no id, no key, no connection
    Keys,         \* signing keys a peer may present: one per installation
    Revoked,      \* peers the DAG's revocation events name
    Parent,       \* the id in parent_federation_hint, or None
    Hellos,       \* hellos and acks the others present: [f, id, key, sig, version]
    AcceptLegacy, \* MYCO_ACCEPT_LEGACY_PEERS
    FloorMin,     \* CONSENSUS_FLOOR_MIN_PEERS (3)
    MaxDepth,     \* MAX_FEDERATION_RECURSION_DEPTH (5)
    Batches,      \* batches a peer may send, of events [leaf, path], path the ids an
                  \* event says it came through
    MaxConns,     \* bound: connections at a time
    MaxArrivals,  \* bound: connections waiting in the listener's backlog
    MaxGone,      \* bound: connections whose other end is gone
    MaxWire,      \* bound: frames waiting on one connection
    MaxDag,       \* bound: events in this DAG
    MaxRestarts,  \* bound: restarts
    MaxFaults     \* bound: failed saves

ASSUME FederationAssumption ==
    /\ Self \notin Peers /\ None \notin Peers \cup {Self} \cup Keys
    /\ Revoked \subseteq Peers /\ Parent \in Peers \cup {None}
    /\ Hellos \subseteq [f : {"hello"}, id : Peers \cup {Self}, key : Keys \cup {None},
                        sig : {"valid", "bad", "none"}, version : BOOLEAN]
    /\ AcceptLegacy \in BOOLEAN
    /\ Batches \subseteq Seq([leaf : {"safe", "private"}, path : Seq(Peers \cup {Self})])
    /\ {FloorMin, MaxDepth, MaxConns, MaxArrivals, MaxGone, MaxWire, MaxDag,
        MaxRestarts, MaxFaults} \subseteq Nat

VARIABLES
    listening,  \* FederationState.listener is bound
    backlog,    \* connections the listener has not accepted yet
    peers,      \* FederationState.peers, each with what waits to be read on it
    pulling,    \* the connection a pull blocks on, or 0
    dag,        \* the in-memory DAG
    saved,      \* how much of it the DAG file holds
    restarts, faults

fedVars == <<listening, backlog, peers, pulling, dag, saved, restarts, faults>>

-----------------------------------------------------------------------------
(* Events and frames. *)

Pin(q, k) == [t |-> "pinned", id |-> q, key |-> k]
Floor(on) == [t |-> "floor", on |-> on]
Linked(q) == [t |-> "parent_linked", id |-> q]
Wrap(q, e) == [t |-> "received", from |-> q, ev |-> e]

Hello(q, k, sig, version) ==
    [f |-> "hello", id |-> q, key |-> k, sig |-> sig, version |-> version]
Request == [f |-> "request"]
Batch(es) == [f |-> "batch", events |-> es]
Broken == [f |-> "broken"]
\* A frame whose body comes after the read has timed out: the length already read
\* is lost, and the rest no longer parses.
Slow == [f |-> "slow"]

Events(type) == {i \in DOMAIN dag : dag[i].t = type}
Ids(ps) == {ps[i].id : i \in DOMAIN ps} \ {None}

-----------------------------------------------------------------------------
(* A hello, and the pins. *)

\* What a verified hello pins: the key only when its signature was there and good.
PinnedKey(h) == IF h.sig = "valid" THEN h.key ELSE None
Authentic(h) == h.sig = "valid" \/ (h.sig = "none" /\ AcceptLegacy)

Accepted == [id |-> None, key |-> None, st |-> "awaiting_hello",
             dialed |-> FALSE, gone |-> FALSE, wire |-> <<>>]
Dialed(h) == [Accepted EXCEPT !.id = h.id, !.key = PinnedKey(h),
                              !.st = "established", !.dialed = TRUE]

\* derive_pinned_signer_pubkeys: the last pin with a key of every peer not revoked.
PinsOf(d) ==
    LET pinned == {i \in DOMAIN d : /\ d[i].t = "pinned" /\ d[i].key # None
                                    /\ d[i].id \notin Revoked}
        last(q) == CHOOSE i \in pinned : /\ d[i].id = q
                                         /\ \A j \in pinned : d[j].id = q => j <= i
    IN [q \in {d[i].id : i \in pinned} |-> d[last(q)].key]

\* peer_set_size_n, and the floor.
Participants == (Ids(peers) \ Revoked) \cup {Self}
N == Cardinality(Participants)
FloorActive(ps) == Len(ps) >= FloorMin

\* emit_consensus_floor_crossing_if_needed
Crossing(before, after) ==
    IF FloorActive(before) = FloorActive(after) THEN <<>>
    ELSE <<Floor(FloorActive(after))>>

-----------------------------------------------------------------------------
(* One read of one connection.  A step gives what is left of it, the pins to *)
(* record and whether it reports a PollPeerEvent; a connection it drops is swept *)
(* with swap_remove. *)

Kept(p) == [keep |-> TRUE, peer |-> p, pins |-> <<>>, event |-> FALSE]
Dropped(p) == [keep |-> FALSE, peer |-> p, pins |-> <<>>, event |-> TRUE]
Torn(p) == [p EXCEPT !.wire = <<Broken>> \o Tail(@)]
Consumed(p) == [p EXCEPT !.wire = Tail(@)]

\* progress_awaiting_hello_peers: a hello that is whole, of our version, authentic
\* and not our own is pinned once its ack is written.
HelloStep(p) ==
    LET h == Head(p.wire)
        welcome == /\ h.f = "hello"
                   /\ h.version
                   /\ Authentic(h)
                   /\ h.id # Self
                   /\ ~p.gone
        greeted == [Consumed(p) EXCEPT !.st = "established", !.id = h.id,
                                       !.key = PinnedKey(h)]
    IN IF p.st # "awaiting_hello" \/ p.wire = <<>> THEN Kept(p)
       ELSE IF h = Slow THEN Kept(Torn(p))
       ELSE IF welcome
            THEN [Kept(greeted) EXCEPT !.pins = <<Pin(h.id, PinnedKey(h))>>, !.event = TRUE]
            ELSE Dropped(p)

\* progress_peers on an established connection: a request is answered unless the
\* peer is revoked; frames under another key drop it; other frames are ignored.
EstablishedStep(p) ==
    LET frame == Head(p.wire)
    IN IF p.st # "established" \/ p.wire = <<>> THEN Kept(p)
       ELSE IF frame = Slow THEN Kept(Torn(p))
       ELSE IF frame.f \in {"broken", "hello"} THEN Dropped(p)
       ELSE IF frame = Request /\ p.id \notin Revoked /\ p.gone THEN Dropped(p)
       ELSE [Kept(Consumed(p)) EXCEPT !.event = (frame = Request)]

SwapRemove(s, i) == [j \in 1 .. Len(s) - 1 |-> IF j = i THEN s[Len(s)] ELSE s[j]]

Swept_FirstToLast(steps) ==
    LET upto[i \in 0 .. Len(steps)] ==
            IF i = 0 THEN [j \in DOMAIN steps |-> steps[j].peer]
            ELSE IF steps[i].keep \/ i > Len(upto[i - 1]) THEN upto[i - 1]
                 ELSE SwapRemove(upto[i - 1], i)
    IN upto[Len(steps)]

\* Each connection reads once, then the dropped ones are removed, the last first.
Swept(steps) ==
    LET from[i \in 1 .. Len(steps) + 1] ==
            IF i > Len(steps) THEN [j \in DOMAIN steps |-> steps[j].peer]
            ELSE IF steps[i].keep THEN from[i + 1] ELSE SwapRemove(from[i + 1], i)
    IN from[1]

PinsIn_AllButTheLast(steps) == FlattenSeq([i \in 1 .. Len(steps) - 1 |-> steps[i].pins])

\* The pins the greetings earned, in the order of the connections.
PinsIn(steps) == FlattenSeq([i \in DOMAIN steps |-> steps[i].pins])

Quiescent == backlog = 0 /\ \A i \in DOMAIN peers : peers[i].wire = <<>>

\* accept_pending, then both passes.  They change nothing when nothing waits.
Progress ==
    IF Quiescent THEN [peers |-> peers, pins |-> <<>>, event |-> FALSE]
    ELSE LET all == peers \o [i \in 1 .. backlog |-> Accepted]
             greeting == [i \in DOMAIN all |-> HelloStep(all[i])]
             met == Swept(greeting)
             serving == [i \in DOMAIN met |-> EstablishedStep(met[i])]
         IN [peers |-> Swept(serving), pins |-> PinsIn(greeting),
             event |-> \E step \in {greeting[i] : i \in DOMAIN greeting}
                                  \cup {serving[i] : i \in DOMAIN serving} : step.event]

-----------------------------------------------------------------------------
(* Persistence. *)

\* save_dag_state at the end of a request: the file gets the whole DAG, or the
\* write fails, the request answers an error and memory stays ahead of the file.
Save ==
    \/ saved' = Len(dag') /\ faults' = faults
    \/ saved' = saved /\ faults < MaxFaults /\ faults' = faults + 1

Record(events) == dag' = dag \o events /\ Len(dag') <= MaxDag
Idle == pulling = 0

\* The process ends, having saved or not, and another boots on the file: pins
\* and certificates survive in the DAG, connections do not.
Restart ==
    /\ restarts < MaxRestarts
    /\ restarts' = restarts + 1
    /\ dag' = SubSeq(dag, 1, saved)
    /\ peers' = <<>> /\ listening' = FALSE /\ backlog' = 0 /\ pulling' = 0
    /\ UNCHANGED <<saved, faults>>

-----------------------------------------------------------------------------
(* The operator's requests, and the tick. *)

\* handle_federation_open_listener: the old listener goes before the bind; when that
\* fails, so does the request, with nothing recorded or saved.
OpenListener ==
    /\ Idle
    /\ backlog' = 0
    /\ \/ listening' = TRUE /\ Record(<<>>) /\ Save
       \/ listening' = FALSE /\ UNCHANGED <<dag, saved, faults>>
    /\ UNCHANGED <<peers, pulling, restarts>>

CloseListener ==
    /\ Idle
    /\ listening' = FALSE /\ backlog' = 0
    /\ Record(<<>>) /\ Save
    /\ UNCHANGED <<peers, pulling, restarts>>

\* handle_federation_connect_peer with the ack that came back: an unauthentic one,
\* our own id and an id already connected change nothing.  The version is not read.
Connect(h) ==
    /\ Idle /\ Len(peers) + backlog < MaxConns
    /\ IF Authentic(h) /\ h.id # Self /\ h.id \notin Ids(peers)
       THEN /\ peers' = Append(peers, Dialed(h))
            /\ Record(<<Pin(h.id, PinnedKey(h))>> \o Crossing(peers, peers'))
       ELSE peers' = peers /\ Record(<<>>)
    /\ Save
    /\ UNCHANGED <<listening, backlog, pulling, restarts>>

\* handle_federation_link_to_parent_from_hint: a peer that is not the parent stays
\* connected when the request fails, and no crossing is recorded.
LinkToParent(h) ==
    /\ Idle /\ Len(peers) + backlog < MaxConns
    /\ Parent # None
    /\ Events("parent_linked") = {}
    /\ Authentic(h) /\ h.id # Self /\ h.id \notin Ids(peers)
    /\ peers' = Append(peers, Dialed(h))
    /\ IF h.id = Parent
       THEN Record(<<Pin(h.id, PinnedKey(h)), Linked(h.id)>>) /\ Save
       ELSE UNCHANGED <<dag, saved, faults>>
    /\ UNCHANGED <<listening, backlog, pulling, restarts>>

\* handle_federation_poll: the operator's poll records crossings.
Poll ==
    /\ Idle
    /\ LET progress == Progress
       IN peers' = progress.peers /\ Record(progress.pins \o Crossing(peers, peers'))
    /\ backlog' = 0 /\ Save
    /\ UNCHANGED <<listening, pulling, restarts>>

\* autonomous_federation_tick: the same, without the crossings.  Without an event it
\* saves nothing; a save that fails goes unnoticed.
TickPoll ==
    /\ Idle
    /\ listening \/ peers # <<>>
    /\ LET progress == Progress
       IN /\ peers' = progress.peers /\ Record(progress.pins)
          /\ IF progress.event THEN Save ELSE UNCHANGED <<saved, faults>>
    /\ backlog' = 0
    /\ UNCHANGED <<listening, pulling, restarts>>

\* handle_federation_pull_events_from_peer, up to the wait: the first connection
\* established with the peer, whichever that is, gets the request.
BeginPull(q) ==
    /\ Idle /\ q \notin Revoked
    /\ \E i \in DOMAIN peers :
         /\ peers[i].id = q /\ ~peers[i].gone
         /\ \A j \in DOMAIN peers : peers[j].id = q => i <= j
         /\ pulling' = i
    /\ UNCHANGED <<listening, backlog, peers, dag, saved, restarts, faults>>

\* is_federation_safe_node_type
SafeLeaf(e) == e.leaf = "safe"

\* validate_federation_inner, at every depth.
Safe(e) == Len(e.path) <= MaxDepth /\ SafeLeaf(e)

\* The events of a batch that are safe at every depth, wrapped.
Wraps(q, es) ==
    FlattenSeq([j \in DOMAIN es |-> IF Safe(es[j]) THEN <<Wrap(q, es[j])>> ELSE <<>>])

\* The first frame read ends the wait.  A batch is ingested: every safe event is
\* wrapped under this DAG's own tip.  Any other frame fails the request.
FinishPull ==
    LET i == pulling
        frame == Head(peers[i].wire)
    IN /\ ~Idle /\ peers[i].wire # <<>>
       /\ pulling' = 0
       /\ IF frame.f = "batch"
          THEN /\ peers' = [peers EXCEPT ![i] = Consumed(@)]
               /\ Record(Wraps(peers[i].id, frame.events)) /\ Save
          ELSE /\ peers' = [peers EXCEPT ![i] = IF frame = Slow THEN Torn(@)
                                                ELSE Consumed(@)]
               /\ UNCHANGED <<dag, saved, faults>>
       /\ UNCHANGED <<listening, backlog, restarts>>

\* Ten seconds without a frame: the request fails, the answer may still come.
PullTimesOut ==
    /\ ~Idle /\ peers[pulling].wire = <<>>
    /\ pulling' = 0
    /\ UNCHANGED <<listening, backlog, peers, dag, saved, restarts, faults>>

-----------------------------------------------------------------------------
(* The peers and the network. *)

Arrive ==
    /\ Idle /\ listening /\ Len(peers) + backlog < MaxConns /\ backlog < MaxArrivals
    /\ backlog' = backlog + 1
    /\ UNCHANGED <<listening, peers, pulling, dag, saved, restarts, faults>>

Put(i, frame) ==
    /\ ~peers[i].gone /\ Len(peers[i].wire) < MaxWire
    /\ peers' = [peers EXCEPT ![i].wire = Append(@, frame)]
    /\ UNCHANGED <<listening, backlog, pulling, dag, saved, restarts, faults>>

\* A stranger says hello, a known peer asks for events or sends some: what a pull
\* waits for, what an earlier one gave up on, or what nobody asked for.  Either may
\* garble or stall.
Deliver(i, frame) ==
    /\ frame \in {Broken, Slow}
                 \cup IF peers[i].st = "established"
                      THEN {Request} \cup {Batch(es) : es \in Batches} ELSE Hellos
    /\ Put(i, frame)

\* A peer's end is gone for good: what it sent can be read, writes fail.
Hangup(i) ==
    /\ ~peers[i].gone /\ Cardinality({j \in DOMAIN peers : peers[j].gone}) < MaxGone
    /\ peers' = [peers EXCEPT ![i].gone = TRUE]
    /\ UNCHANGED <<listening, backlog, pulling, dag, saved, restarts, faults>>

-----------------------------------------------------------------------------
FedInit ==
    /\ listening = FALSE /\ backlog = 0 /\ peers = <<>> /\ pulling = 0
    /\ dag = <<>> /\ saved = 0
    /\ restarts = 0 /\ faults = 0

FedNext ==
    \/ OpenListener
    \/ CloseListener
    \/ \E h \in Hellos : Connect(h)
    \/ \E h \in Hellos : LinkToParent(h)
    \/ Poll
    \/ TickPoll
    \/ \E q \in Peers : BeginPull(q)
    \/ FinishPull
    \/ PullTimesOut
    \/ Restart
    \/ Arrive
    \/ \E i \in DOMAIN peers :
         \E frame \in Hellos \cup {Request, Broken, Slow} \cup {Batch(es) : es \in Batches} :
            Deliver(i, frame)
    \/ \E i \in DOMAIN peers : Hangup(i)

FedSpec == FedInit /\ [][FedNext]_fedVars

-----------------------------------------------------------------------------
(* Properties. *)

\* The types of the variables, of the connections and of what they carry.
FedTypeOK ==
    /\ listening \in BOOLEAN /\ backlog \in 0 .. MaxConns
    /\ saved \in 0 .. Len(dag) /\ Len(dag) <= MaxDag
    /\ pulling \in 0 .. Len(peers)
    /\ \A i \in DOMAIN peers :
          /\ peers[i].st \in {"awaiting_hello", "established"}
          /\ peers[i].id \in Peers \cup {None} /\ peers[i].key \in Keys \cup {None}
          /\ Len(peers[i].wire) <= MaxWire

\* Every session is one the DAG knows of: whatever connections came, were refused,
\* dropped or lost in a restart, and whatever saves failed, an established
\* connection's id and key are pinned.  Only the connection that a refused link to
\* the parent leaves behind (handlers.rs:752) is not.
SessionsArePinned ==
    \A p \in {peers[i] : i \in DOMAIN peers} :
        (p.st = "established" /\ (~p.dialed \/ Parent \in {None, p.id}))
            => \E i \in Events("pinned") : dag[i] = Pin(p.id, p.key)

\* A wrapped event follows a pin of the peer it is wrapped for: whichever of the
\* peer's connections answered, however late and whatever the batch says, through
\* sweeps that move the connection a pull then waits on, saves that failed and
\* restarts that keep a part of the DAG, no peer's events enter a DAG that does not
\* say before them who it is.  Only the connection of a refused link to the parent is
\* pulled from without (handlers.rs:752).
WrapsFollowPins ==
    \A i \in Events("received") :
        Parent \in {None, dag[i].from}
            => \E j \in Events("pinned") : j < i /\ dag[j].id = dag[i].from

\* A sweep closes the connections that failed in that pass and no other, wherever
\* swap_remove moves them while indices are still to be removed: those with nothing
\* to read stay, those with a broken frame in front go, unless it came to the front in
\* this very pass: torn by a read that timed out, or behind the frame that was read
\* (federation/mod.rs:687 and 896).
Quiet(ps, p) == Cardinality({i \in DOMAIN ps : ps[i] = p /\ p.wire = <<>>})
Failing(ps) == {i \in DOMAIN ps : ps[i].wire # <<>> /\ Head(ps[i].wire) = Broken}
Spared(ps) ==
    {i \in DOMAIN ps : \E j \in DOMAIN ps[i].wire :
        ps[i].wire[j] = Slow \/ (j > 1 /\ ps[i].wire[j] = Broken)}
SweepIsExact ==
    Idle => LET after == Progress.peers
            IN /\ \A i \in DOMAIN peers : Quiet(after, peers[i]) >= Quiet(peers, peers[i])
               /\ Cardinality(Failing(after)) <= Cardinality(Spared(peers))
=============================================================================
