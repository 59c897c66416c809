------------------------- MODULE MantaPayProperties -------------------------
(***************************************************************************)
(* What the ledger of private notes promises.                              *)
(***************************************************************************)
EXTENDS MantaPay

(***************************************************************************)
(* The three records of what was spent agree: the insertion order lists    *)
(* every nullifier of the set at exactly one of the indices below the      *)
(* size.  Wallets pull by index and stop at the first that is missing, so  *)
(* a gap hides all later spends from them, and an index used twice one.    *)
(***************************************************************************)
SpentIsInOrder ==
    /\ DOMAIN spentOrder = 0 .. spentSize - 1
    /\ nullifiers = {spentOrder[i] : i \in DOMAIN spentOrder}
    /\ \A i, j \in DOMAIN spentOrder : spentOrder[i] = spentOrder[j] => i = j

(***************************************************************************)
(* The shards hold every registered note exactly once, in the shard its    *)
(* hash falls into, at indices that leave no gap and end at the last leaf  *)
(* of the shard's tree.  (The set is written next to the shards, and the   *)
(* trees once after all leaves of a shard.)                                *)
(***************************************************************************)
ShardsHoldUtxos ==
    /\ DOMAIN shards = {k \in Slot : k[2] < Leaves(trees[k[1]])}
    /\ utxoSet = {shards[k] : k \in DOMAIN shards}
    /\ \A k, l \in DOMAIN shards : shards[k] = shards[l] => k = l
    /\ \A k \in DOMAIN shards : ShardOf[shards[k]] = k[1]

\* notes of an asset that are on the ledger, worth something and not spent
Unspent(a) ==
    {n \in utxoSet \ nullifiers : AssetOf[n] = a /\ ValueOf[n] > 0}

(***************************************************************************)
(* No note is ever locked in: one that is on the ledger and was not spent  *)
(* can be proved a member of a tree whose root the ledger accepts, however *)
(* many notes came in with it or after it.  Only one root per shard and    *)
(* post is stored.                                                         *)
(***************************************************************************)
UnspentCanBeSpent == \A n \in utxoSet \ nullifiers : SenderValid(n)

(***************************************************************************)
(* No payout panics: the ledger writes nullifiers, leaves and roots of a   *)
(* post before it pays, and then expects the transfer out of the pallet's  *)
(* account, which must stay alive, to succeed.                             *)
(***************************************************************************)
PayoutsSucceed ==
    \A who \in Signer, senders \in ValidSenders, change \in Note, v \in Payable :
        AcceptsToPublic(who, senders, change, v) =>
            CanTransfer(AssetOf[change], Pool, who, v)

(***************************************************************************)
(* What the notes of an asset are worth is there, in the pallet's account, *)
(* besides what that account was endowed with.                             *)
(***************************************************************************)
PoolBacksNotes ==
    \A a \in Asset : balance[a][Pool] >= Endowment[a][Pool] + Worth(Unspent(a))

(***************************************************************************)
(* The ledger is one of notes made once, spent at most once, and conserved *)
(* value: every call is a step of PrivatePool on the notes worth something.*)
(***************************************************************************)
Abstract == INSTANCE PrivatePool WITH
    unspent <- {n \in utxoSet \ nullifiers : ValueOf[n] > 0},
    spentNotes <- {n \in nullifiers : ValueOf[n] > 0},
    public <- balance

ImplementsPool == Abstract!Spec
=============================================================================
