------------------------- MODULE PopulationConsensus -------------------------
(***************************************************************************)
(* The stage-1 consensus floor of one substrate, on top of its federation: *)
(* it proposes population claims, collects its peers' signed votes, which  *)
(* its operator hands to it in any order and any number of times, and      *)
(* mints a certificate when the distinct verified voters of a round reach  *)
(* the quorum of the participants it is connected to.  All of it is read   *)
(* back from the DAG at every request; only the participants are not.      *)
(*                                                                         *)
(* A claim stands for a claim type with a claim hash.  A vote's signature  *)
(* is the key that made it; the tip it binds is left out.  The pending     *)
(* marker and the threshold witness that go with a tally are written and   *)
(* never read, and left out.                                               *)
(***************************************************************************)
EXTENDS Federation

CONSTANTS
    Claims,     \* population claims
    OwnKey,     \* this substrate's signing key
    Payloads,   \* whether a handed-over vote carries its claim's own payload
    MaxRound    \* bound: rounds a claim goes through

ASSUME ConsensusAssumption ==
    OwnKey \notin Keys \cup {None} /\ Payloads \subseteq BOOLEAN /\ MaxRound \in Nat

VARIABLE cast   \* every vote signed so far, by this substrate or a peer

popVars == <<listening, backlog, peers, pulling, dag, saved, restarts, faults, cast>>

Vote(c, r, q, k) == [claim |-> c, round |-> r, voter |-> q, key |-> k]
VoteEvent(v) == [t |-> "vote", vote |-> v]
CertEvent(c) == [t |-> "cert", cert |-> c]

VotesIn(d) == {d[i].vote : i \in {j \in DOMAIN d : d[j].t = "vote"}}
CertsIn(d) == {d[i].cert : i \in {j \in DOMAIN d : d[j].t = "cert"}}

\* The abstract ledger: the same votes, and the certificates without the payload.
Bare(c) == [claim |-> c.claim, round |-> c.round, n |-> c.n, votes |-> c.votes]
Ledger == INSTANCE QuorumLedger WITH certs <- {Bare(c) : c \in CertsIn(dag)}
Threshold_TwoThirds(n) == (2 * n) \div 3
Threshold(n) == Ledger!Threshold(n)
Voters(votes) == Ledger!Voters(votes)

-----------------------------------------------------------------------------
(* The tally. *)

Verifies_AnyKey(d, v) == v.voter = Self \/ v.voter \in DOMAIN PinsOf(d)

\* verify_population_vote against our own key or the pins of DAG d
Verifies(d, v) ==
    IF v.voter = Self THEN v.key = OwnKey
    ELSE LET pins == PinsOf(d) IN v.voter \in DOMAIN pins /\ pins[v.voter] = v.key

\* tally_votes, collect_cert_votes
Tally(d, c, r) ==
    {v \in VotesIn(d) : v.claim = c /\ v.round = r /\ Verifies(d, v)}

\* next_round_id
NextRound(d, c) ==
    LET rounds == {v.round : v \in {w \in VotesIn(d) : w.claim = c}}
    IN IF rounds = {} THEN 0 ELSE 1 + CHOOSE r \in rounds : \A s \in rounds : s <= r

\* verify_quorum_cert: the voters whose signatures hold under the pins of d
VerifiedVoters(d, cert) == Voters({v \in cert.votes : Verifies(d, v)})

\* find_valid_quorum_cert: by its own count of participants and by ours.
Valid(d, cert) ==
    LET voters == Cardinality(VerifiedVoters(d, cert))
    IN cert.payload /\ voters >= Threshold(cert.n) /\ voters >= Threshold(N)
Reached(d, c) == \E cert \in CertsIn(d) : cert.claim = c /\ Valid(d, cert)

\* recheck_quorum_and_maybe_emit_cert
Rechecked(d, c, r, payload) ==
    LET votes == Tally(d, c, r)
        cert == [claim |-> c, round |-> r, n |-> N, payload |-> payload,
                 votes |-> {[voter |-> v.voter, key |-> v.key] : v \in votes}]
    IN IF Reached(d, c) \/ Cardinality(Voters(votes)) < Threshold(N)
       THEN d ELSE Append(d, CertEvent(cert))

-----------------------------------------------------------------------------
(* The requests. *)

\* handle_federation_propose_population_claim: a new round, with our own vote.
Propose(c) ==
    LET r == NextRound(dag, c)
        own == Vote(c, r, Self, OwnKey)
    IN /\ Idle /\ r <= MaxRound
       /\ cast' = cast \cup {own}
       /\ dag' = Rechecked(Append(dag, VoteEvent(own)), c, r, TRUE)
       /\ Len(dag') <= MaxDag /\ Save
       /\ UNCHANGED <<listening, backlog, peers, pulling, restarts>>

Recorded_WithItsKey(v) == v \in VotesIn(dag)

\* population_vote_already_recorded
Recorded(v) ==
    \E w \in VotesIn(dag) : w.claim = v.claim /\ w.round = v.round /\ w.voter = v.voter

\* handle_federation_submit_peer_vote: a vote that verifies is recorded once for its
\* voter and round, and the quorum rechecked, whoever voted before.
SubmitVote(v, payload) ==
    /\ Idle /\ v.voter \in DOMAIN PinsOf(dag) /\ Verifies(dag, v)
    /\ LET d == IF Recorded(v) THEN dag ELSE Append(dag, VoteEvent(v))
       IN dag' = Rechecked(d, v.claim, v.round, payload)
    /\ Len(dag') <= MaxDag /\ Save
    /\ UNCHANGED <<listening, backlog, peers, pulling, restarts, cast>>

\* A peer signs a vote, for a round of its own choice.
PeerVotes(v) ==
    /\ v \notin cast
    /\ cast' = cast \cup {v}
    /\ UNCHANGED fedVars

-----------------------------------------------------------------------------
PopInit == FedInit /\ cast = {}

PopNext ==
    \/ FedNext /\ UNCHANGED cast
    \/ \E c \in Claims : Propose(c)
    \/ \E v \in cast, payload \in Payloads : SubmitVote(v, payload)
    \/ \E c \in Claims, r \in 0 .. MaxRound, h \in Hellos :
         h.sig = "valid" /\ PeerVotes(Vote(c, r, h.id, h.key))

PopSpec == PopInit /\ [][PopNext]_popVars

-----------------------------------------------------------------------------
(* Properties. *)

\* The floor implements the ledger: whatever order the votes come in, whoever
\* connects, leaves, changes its key or restarts, no vote is made up, and every
\* certificate put in the DAG carries a quorum of distinct voters, of the
\* participants of that moment, each with a signature for that claim and round.
ImplementsLedger == Ledger!LedgerSpec

\* A voter is in the DAG at most once for a claim and a round, however often its
\* vote is handed over and whatever key it votes with (consensus.rs:150).
VoteOncePerRound ==
    \A i, j \in Events("vote") :
        LET v == dag[i].vote
            w == dag[j].vote
        IN (v.claim = w.claim /\ v.round = w.round /\ v.voter = w.voter) => i = j

\* A certificate rests on pins older than it in the same DAG: each of its peer
\* voters was pinned with the very key it signed with, and none is revoked, in
\* what a restart finds in the file too.
CertsRestOnPins ==
    \A i \in Events("cert") : \A v \in dag[i].cert.votes :
        \/ v.voter = Self /\ v.key = OwnKey
        \/ /\ v.voter \notin Revoked
           /\ \E j \in Events("pinned") : j < i /\ dag[j] = Pin(v.voter, v.key)

\* consensus.rs, its module doc, on the claims of a population: an activity is
\* certified by at least two thirds of the pinned peers.  The pins outlive the
\* connections that the quorum is counted on.
Population == Cardinality({dag[i].id : i \in Events("pinned")} \ Revoked) + 1
QuorumOfThePinned ==
    \A i \in Events("cert") :
        Reached(dag, dag[i].cert.claim)
            => Cardinality(Voters(dag[i].cert.votes)) >= Threshold(Population)
=============================================================================
