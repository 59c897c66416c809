------------------------ MODULE LedgerSyncProperties ------------------------
(***************************************************************************)
(* What pulling the private ledger page by page promises.                  *)
(***************************************************************************)
EXTENDS LedgerSync

(***************************************************************************)
(* What a wallet has pulled is a beginning of what the ledger has, shard   *)
(* by shard and for the nullifiers: nothing skipped, repeated or in        *)
(* another order, whatever was written and lost between two pages.  The    *)
(* wallet's trees, and with them all its proofs, depend on that.           *)
(***************************************************************************)
PullsAreBeginnings ==
    /\ \A s \in Shard :
        /\ Len(pulled[s]) <= Leaves(trees[s])
        /\ \A i \in DOMAIN pulled[s] : pulled[s][i] = shards[<<s, i - 1>>]
    /\ Len(pulledSpent) <= spentSize
    /\ \A i \in DOMAIN pulledSpent : pulledSpent[i] = spentOrder[i - 1]

\* what the ledger has and the wallet has not
ReceiversLeft == Cardinality(utxoSet) - SumOf([s \in Shard |-> Len(pulled[s])])
SendersLeft == Cardinality(nullifiers) - Len(pulledSpent)

\* what a page brings of receivers
Gained(page) == SumOf([s \in Shard |-> Len(page.receivers[s])])

(***************************************************************************)
(* should_continue is set exactly if the page leaves something behind      *)
(* (types.rs: "if the client should request more data from the ledger to   *)
(* finish the pull").  Pages end at their limit in one shard while others  *)
(* are still to come, or in none at all.                                   *)
(***************************************************************************)
ContinuesIffUnfinished ==
    [][Pull => \A page \in answer' :
        page.shouldContinue <=> \/ Gained(page) < ReceiversLeft
                                \/ Len(page.senders) < SendersLeft]_vars

(***************************************************************************)
(* The wallet catches up: every note and every nullifier of the ledger     *)
(* reaches it, however the greedy pages favour the first shards.           *)
(***************************************************************************)
EverythingIsPulled ==
    \A n \in Note :
        /\ n \in utxoSet ~> \E s \in Shard : n \in NotesOf(pulled[s])
        /\ n \in nullifiers ~> n \in NotesOf(pulledSpent)
=============================================================================
