----------------------------- MODULE LedgerSync -----------------------------
(***************************************************************************)
(* A wallet that pulls the private ledger page by page: pull_ledger_diff   *)
(* of pallets/manta-pay and the wallet at the other end of its RPC.        *)
(*                                                                         *)
(* The wallet asks from its checkpoint, the node answers from the state    *)
(* it holds final, and while the answer is on its way the ledger goes on;  *)
(* the answer may be lost, and then the wallet asks again.                 *)
(*                                                                         *)
(* Outside src/ and modelled from its use here: the wallet's side, which   *)
(* puts every pulled note into the tree of the shard its hash falls into,  *)
(* which is the one it was pulled from (ShardsHoldUtxos), and counts what  *)
(* it has; one request is under way at a time, as the methods of the       *)
(* wallet crate are async and borrow it mutably.                           *)
(***************************************************************************)
EXTENDS MantaPay

CONSTANTS
    MaxReceivers, MaxSenders   \* entries of one page

ASSUME PageConstants == MaxReceivers \in Nat /\ MaxSenders \in Nat

VARIABLES
    pulled,       \* the wallet's tree of each shard
    pulledSpent,  \* the nullifiers the wallet has pulled
    answer        \* the page on its way: a set of at most one

wallet == <<pulled, pulledSpent, answer>>
vars == <<ledger, wallet>>

SyncInit ==
    /\ Init
    /\ pulled = [s \in Shard |-> <<>>]
    /\ pulledSpent = <<>>
    /\ answer = {}

-----------------------------------------------------------------------------
(* Pages *)

\* how many of at most `room` entries there are from `from` on without a gap
Taken(present, from, room) ==
    CHOOSE k \in 0 .. room :
        /\ \A i \in 0 .. k - 1 : from + i \in present
        /\ k = room \/ from + k \notin present

\* Mistake: a page that is full does not look whether something follows
StopsAtFull(present, from, room, k) == FALSE

\* it is the page's limit that ends it, and not the entries
MoreAfter(present, from, room, k) == k = room /\ from + k \in present

LeavesOf(s) == {k[2] : k \in {k \in DOMAIN shards : k[1] = s}}

\* what the page has left for a shard: those before it gave all that followed, or filled it
Room(from, s) ==
    Sub(MaxReceivers,
        SumOf([t \in 0 .. s - 1 |-> Taken(LeavesOf(t), from[t], MaxReceivers)]))

\* pull_receivers_for_shard
ReceiversOf(from, s) ==
    [i \in 1 .. Taken(LeavesOf(s), from[s], Room(from, s)) |-> shards[<<s, from[s] + i - 1>>]]

\* pull_receivers, greedy from the first shard on; the entries are kept by shard here
Receivers(from) ==
    [notes |-> [s \in Shard |-> ReceiversOf(from, s)],
     more |-> \E s \in Shard :
        MoreAfter(LeavesOf(s), from[s], Room(from, s), Len(ReceiversOf(from, s)))]

\* pull_senders
Senders(from) ==
    LET k == Taken(DOMAIN spentOrder, from, MaxSenders)
    IN  [notes |-> [i \in 1 .. k |-> spentOrder[from + i - 1]],
         more |-> MoreAfter(DOMAIN spentOrder, from, MaxSenders, k)]

\* senders_receivers_total
Total == SumOf([s \in Shard |-> trees[s].index]) + spentSize

\* pull_ledger_diff from a checkpoint
LedgerDiff(checkpoint) ==
    LET r == Receivers(checkpoint.receivers)
        s == Senders(checkpoint.senders)
    IN  [receivers |-> r.notes, senders |-> s.notes,
         shouldContinue |-> r.more \/ s.more, total |-> Total]

-----------------------------------------------------------------------------
(* The wallet *)

Checkpoint == [receivers |-> [s \in Shard |-> Len(pulled[s])], senders |-> Len(pulledSpent)]

Pull ==
    /\ answer = {}
    /\ answer' = {LedgerDiff(Checkpoint)}
    /\ UNCHANGED <<ledger, pulled, pulledSpent>>

Receive ==
    \E page \in answer :
        /\ pulled' = [s \in Shard |-> pulled[s] \o page.receivers[s]]
        /\ pulledSpent' = pulledSpent \o page.senders
        /\ answer' = {}
        /\ UNCHANGED ledger

Lose ==
    /\ answer # {}
    /\ answer' = {}
    /\ UNCHANGED <<ledger, pulled, pulledSpent>>

SyncNext ==
    \/ Next /\ UNCHANGED wallet
    \/ Pull
    \/ Receive
    \/ Lose

\* The front-end pulls again and again, and not every answer is lost.
SyncSpec == SyncInit /\ [][SyncNext]_vars /\ WF_vars(Pull) /\ SF_vars(Receive)
=============================================================================
