---------------------------- MODULE QuorumLedger ----------------------------
(***************************************************************************)
(* What the population-consensus floor promises, without its DAG, its      *)
(* federation or its rounds: a ledger of votes that were signed and of the  *)
(* certificates made from them.  A vote, once signed, exists; a certificate *)
(* appears only when a quorum of distinct voters has signed for its claim   *)
(* and its round.  A certificate may be forgotten, by a crash before it is  *)
(* saved, and made again.                                                  *)
(***************************************************************************)
EXTENDS Integers, FiniteSets

VARIABLES
    cast,   \* votes signed so far: [claim, round, voter, key]
    certs   \* certificates held: [claim, round, n, votes], votes [voter, key]

ledgerVars == <<cast, certs>>

\* f_tolerated and quorum_threshold for n participants
Tolerated(n) == IF n = 0 THEN 0 ELSE (n - 1) \div 3
Threshold(n) == n - Tolerated(n)

Voters(votes) == {v.voter : v \in votes}

\* The signatures of a certificate are those of real votes, and enough of them.
Backed(c, signed) ==
    /\ c.n > 0
    /\ Cardinality(Voters(c.votes)) >= Threshold(c.n)
    /\ \A v \in c.votes :
         [claim |-> c.claim, round |-> c.round, voter |-> v.voter, key |-> v.key]
            \in signed

LedgerInit == cast = {} /\ certs = {}

LedgerNext ==
    /\ cast \subseteq cast'
    /\ \A c \in certs' \ certs : Backed(c, cast')

LedgerSpec == LedgerInit /\ [][LedgerNext]_ledgerVars
=============================================================================
