------------------------------ MODULE MantaPay ------------------------------
(***************************************************************************)
(* pallets/manta-pay: the ledger of private notes of fungible assets.      *)
(*                                                                         *)
(* A note is a leaf of the Merkle tree of the shard its hash falls into;   *)
(* spending it publishes its nullifier and not the note.  Public value     *)
(* that becomes private is held by the pallet's account.                   *)
(*                                                                         *)
(* A note stands for its Utxo and for its nullifier as well: both are      *)
(* determined by it and by no other note.  A root is given by the leaves   *)
(* below it, the first so many of one shard; a root over no leaf stands    *)
(* for the zeroed one.  All calls are #[transactional], and a panic undoes *)
(* the whole extrinsic: a call that fails leaves no trace and is no step.  *)
(*                                                                         *)
(* Outside src/ and modelled from its use here: manta_accounting's         *)
(* TransferPost::post, which checks a post against the ledger before it    *)
(* writes, and the proof system, whose statements are the conditions on    *)
(* assets, sums and membership in Proven; pallet_balances / pallet_assets. *)
(* Left out: posts of NFTs and SBTs, frozen assets, mints and burns.       *)
(***************************************************************************)
EXTENDS StorageMaps, Sequences

CONSTANTS
    Account, Pool,      \* the public accounts, among them the pallet's own
    Asset,
    Note, AssetOf, ValueOf, ShardOf,   \* what a note commits to, where it falls
    Width,              \* FOREST_WIDTH: the number of shards
    Capacity,           \* leaves of the tree of one shard
    MinBalance,         \* existential deposit
    Endowment           \* public balances at genesis

Shard == 0 .. Width - 1

ASSUME PayConstants ==
    /\ Pool \in Account
    /\ IsFiniteSet(Note)
    /\ AssetOf \in [Note -> Asset] /\ ValueOf \in [Note -> Nat]
    /\ Width \in Nat \ {0} /\ ShardOf \in [Note -> Shard]
    /\ Capacity \in Nat \ {0}
    /\ MinBalance \in Nat \ {0}
    /\ Endowment \in [Asset -> [Account -> Nat]]

VARIABLES
    utxoSet,      \* UtxoSet
    shards,       \* Shards: a storage map from <<shard, leaf>> to notes
    trees,        \* ShardTrees: the last leaf of each shard, if it has one
    outputs,      \* UtxoAccumulatorOutputs: roots
    nullifiers,   \* NullifierCommitmentSet
    spentOrder,   \* NullifierSetInsertionOrder: a storage map from 0 .. size - 1
    spentSize,    \* NullifierSetSize
    balance       \* public balances

received == <<utxoSet, shards, trees, outputs>>
spent == <<nullifiers, spentOrder, spentSize>>
ledger == <<received, spent, balance>>

Tree == [leaf : BOOLEAN, index : 0 .. Capacity - 1]
Root == [shard : Shard, leaves : 0 .. Capacity]
Slot == Shard \X (0 .. Capacity - 1)

TypeOK ==
    /\ utxoSet \subseteq Note
    /\ IsStorageMap(shards, Slot, Note)
    /\ trees \in [Shard -> Tree]
    /\ outputs \subseteq Root
    /\ nullifiers \subseteq Note
    /\ IsStorageMap(spentOrder, Nat, Note)
    /\ spentSize \in Nat
    /\ balance \in [Asset -> [Account -> Nat]]

Init ==
    /\ utxoSet = {}
    /\ shards = NoEntries
    /\ trees = [s \in Shard |-> [leaf |-> FALSE, index |-> 0]]
    /\ outputs = {}
    /\ nullifiers = {}
    /\ spentOrder = NoEntries
    /\ spentSize = 0
    /\ balance = Endowment

NotesOf(ns) == {ns[i] : i \in DOMAIN ns}

\* what a set of notes is worth together
Worth(S) == SumOf([n \in S |-> ValueOf[n]])

-----------------------------------------------------------------------------
(* The ledger of senders *)

\* Mistake: a nullifier published earlier is not looked up
IsUnspentUnchecked(n) == TRUE

IsUnspent(n) == n \notin nullifiers

HasMatchingOutput(r) == r.leaves = 0 \/ r \in outputs

\* Mistake: the new entries start where the last one is
OrderFromLast == IF spentSize = 0 THEN 0 ELSE spentSize - 1

\* where spend_all inserts its first entry
OrderFrom == spentSize

SpendAll(ns) ==
    /\ nullifiers' = nullifiers \cup NotesOf(ns)
    /\ spentOrder' = [i \in DOMAIN spentOrder \cup (OrderFrom .. OrderFrom + Len(ns) - 1) |->
                        IF i >= OrderFrom THEN ns[i - OrderFrom + 1] ELSE spentOrder[i]]
    /\ spentSize' = OrderFrom + Len(ns)

-----------------------------------------------------------------------------
(* The ledger of receivers *)

\* Mistake: notes that are on the ledger already are taken again
IsNotRegisteredUnchecked(n) == TRUE

IsNotRegistered(n) == n \notin utxoSet

\* the leaves of a tree, and the index of the next one
Leaves(tree) == IF tree.leaf THEN tree.index + 1 ELSE 0

\* single_path::raw::insert and the two insertions after it, on f, which holds
\* what register_all has written so far
Insert(f, n) ==
    LET s == ShardOf[n]
        next == Leaves(f.trees[s])
    IN  [trees  |-> [f.trees EXCEPT ![s] = [leaf |-> TRUE, index |-> next]],
         shards |-> Put(f.shards, <<s, next>>, n),
         utxos  |-> f.utxos \cup {n}]

\* Mistake: each receiver is inserted into the tree as it was read
InsertEachAnew(f, ns) ==
    IF Len(ns) = 1 THEN Insert(f, ns[1])
    ELSE [Insert(f, ns[2]) EXCEPT !.utxos = @ \cup {ns[1]}]

\* Grouping by shard keeps the order of the notes within each shard, so it comes
\* to inserting one or two receivers one by one.
InsertAll(f, ns) ==
    IF Len(ns) = 1 THEN Insert(f, ns[1]) ELSE Insert(Insert(f, ns[1]), ns[2])

Written(ns) == InsertAll([trees |-> trees, shards |-> shards, utxos |-> utxoSet], ns)

RootOf(ts, s) == [shard |-> s, leaves |-> Leaves(ts[s])]

\* Mistake: the root is taken over the tree as it was read
StaleRoots(ts, ns) == {RootOf(trees, ShardOf[n]) : n \in NotesOf(ns)}

\* one root for each shard a leaf was added to, over all that were added
NextRoots(ts, ns) == {RootOf(ts, ShardOf[n]) : n \in NotesOf(ns)}

\* Mistake: room for one note is taken to be room for all
HasRoomForOne(ns) == \A i \in DOMAIN ns : Leaves(trees[ShardOf[ns[i]]]) < Capacity

\* MerkleTreeCapacityError otherwise
HasRoom(ns) ==
    \A s \in Shard :
        Leaves(trees[s]) + Cardinality({i \in DOMAIN ns : ShardOf[ns[i]] = s}) <= Capacity

RegisterAll(ns) ==
    LET w == Written(ns) IN
    /\ trees' = w.trees
    /\ shards' = w.shards
    /\ utxoSet' = w.utxos
    /\ outputs' = outputs \cup NextRoots(w.trees, ns)

-----------------------------------------------------------------------------
(* The public side *)

\* a transfer that keeps the source alive, to an account it brings to life or finds alive
CanTransfer(a, from, to, v) ==
    /\ balance[a][from] >= v + MinBalance
    /\ balance[a][to] + v >= MinBalance

Transferred(a, from, to, v) ==
    IF from = to THEN balance
    ELSE [balance EXCEPT ![a][from] = @ - v, ![a][to] = @ + v]

\* FungibleLedger::can_withdraw and can_deposit, as the two checks of a post ask them
SourceValid(a, who, v) == balance[a][who] >= v + MinBalance
SinkValid(a, who, v) == balance[a][who] + v >= MinBalance

-----------------------------------------------------------------------------
(* Posts: `in` public value and the senders' notes become the receivers' and `out` *)

\* the proof of a post: one asset, nothing gained or lost
Proven(a, in, senders, receivers, out) ==
    /\ \A n \in NotesOf(senders) \cup NotesOf(receivers) : AssetOf[n] = a
    /\ in + Worth(NotesOf(senders)) = Worth(NotesOf(receivers)) + out

\* a sender's note is a leaf below the root it names, unless it is worth nothing
Member(n, r) ==
    \/ ValueOf[n] = 0
    \/ \E i \in 0 .. r.leaves - 1 :
        <<r.shard, i>> \in DOMAIN shards /\ shards[<<r.shard, i>>] = n

SenderValid(n) == IsUnspent(n) /\ \E r \in Root : HasMatchingOutput(r) /\ Member(n, r)

\* DuplicateSpend, DuplicateRegister
Distinct(ns) == \A i, j \in DOMAIN ns : ns[i] = ns[j] => i = j

\* the two senders of a post that spends, once checked
Pair == Note \X Note
ValidSenders == {ns \in Pair : Distinct(ns) /\ \A n \in NotesOf(ns) : SenderValid(n)}

\* all that is checked of a post besides its accounts and senders
Postable(a, in, senders, receivers, out) ==
    /\ Distinct(receivers)
    /\ \A n \in NotesOf(receivers) : IsNotRegistered(n)
    /\ HasRoom(receivers)
    /\ Proven(a, in, senders, receivers, out)

-----------------------------------------------------------------------------
(* Calls *)

\* to_private: one source, one receiver
ToPrivate(who, n) ==
    LET a == AssetOf[n]
        v == ValueOf[n]
    IN  /\ v > 0
        /\ SourceValid(a, who, v)
        /\ Postable(a, v, <<>>, <<n>>, 0)
        /\ CanTransfer(a, who, Pool, v)
        /\ RegisterAll(<<n>>)
        /\ balance' = Transferred(a, who, Pool, v)
        /\ UNCHANGED spent

\* what to_public asks, of a post with valid senders, before it writes: it has two
\* senders, one receiver and one sink
AcceptsToPublic(who, senders, change, v) ==
    LET a == AssetOf[change] IN
    /\ v > 0
    /\ SinkValid(a, who, v)
    /\ Postable(a, 0, senders, <<change>>, v)

ToPublic(who, senders, change, v) ==
    LET a == AssetOf[change] IN
    /\ AcceptsToPublic(who, senders, change, v)
    /\ CanTransfer(a, Pool, who, v)    \* the expect of update_public_balances
    /\ SpendAll(senders)
    /\ RegisterAll(<<change>>)
    /\ balance' = Transferred(a, Pool, who, v)

\* private_transfer: two senders, two receivers.  private_transfer_asset asks in
\* addition that its caller names the zk-address registered for some asset.
PrivateTransfer(senders, receivers) ==
    /\ Postable(AssetOf[senders[1]], 0, senders, receivers, 0)
    /\ SpendAll(senders)
    /\ RegisterAll(receivers)
    /\ UNCHANGED balance

PublicTransfer(a, who, to, v) ==
    /\ CanTransfer(a, who, to, v)
    /\ balance' = Transferred(a, who, to, v)
    /\ UNCHANGED <<received, spent>>

\* nobody signs for the pallet's account
Signer == Account \ {Pool}
Payable == 1 .. Worth(Note)

Next ==
    \/ \E who \in Signer, n \in Note : ToPrivate(who, n)
    \/ \E senders \in ValidSenders :
        \/ \E who \in Signer, change \in Note, v \in Payable :
            ToPublic(who, senders, change, v)
        \/ \E receivers \in Pair : PrivateTransfer(senders, receivers)
    \/ \E a \in Asset, who \in Signer, to \in Account :
        \E v \in 0 .. balance[a][who] : PublicTransfer(a, who, to, v)

Spec == Init /\ [][Next]_ledger
=============================================================================
