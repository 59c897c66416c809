--------------------------- MODULE FungibleLedger ---------------------------
(***************************************************************************)
(* primitives/manta/src/assets.rs, NativeAndNonNative: one interface to    *)
(* the native currency (pallet_balances) and to the registered assets      *)
(* (pallet_assets), which tells them apart by the id of the asset.         *)
(*                                                                         *)
(* A ledger is [issued, balances]: the ids pallet_assets knows and what    *)
(* every account has of every id.  The two pallets are outside src/ and    *)
(* modelled as far as the interface calls them, with one smallest balance  *)
(* an account may be left with in place of each asset's own.  Locks,       *)
(* freezes and accounts kept alive by other references are left out.       *)
(***************************************************************************)
EXTENDS StorageMaps

CONSTANTS
    Account,
    NativeId, StartId,  \* NativeAssetId, StartNonNativeAssetId
    MaxId,              \* bound: ids the registry hands out
    Minimum             \* existential deposit and min_balance

AssetIds == {NativeId} \cup (StartId .. MaxId)

ASSUME LedgerConstants ==
    /\ IsFiniteSet(Account)
    /\ NativeId \in Nat /\ StartId \in Nat /\ MaxId \in Nat
    /\ NativeId < StartId
    /\ Minimum \in Nat \ {0}

Ledger == [issued : SUBSET AssetIds, balances : [AssetIds -> [Account -> Nat]]]

EmptyLedger == [issued |-> {}, balances |-> [id \in AssetIds |-> [a \in Account |-> 0]]]

EnsureValid(id) == id >= StartId \/ id = NativeId

\* the currency's id is not one of pallet_assets
Exists(ledger, id) == id = NativeId \/ id \in ledger.issued

\* can_deposit: DepositConsequence::Success
CanDeposit(ledger, id, who, amount) ==
    /\ EnsureValid(id)
    /\ Exists(ledger, id)
    /\ amount = 0 \/ ledger.balances[id][who] + amount >= Minimum

Credit(ledger, id, who, amount) ==
    [ledger EXCEPT !.balances[id][who] = @ + amount]

\* what is left below the minimum dies with the account
Debit(ledger, id, who, amount) ==
    LET left == ledger.balances[id][who] - amount IN
    [ledger EXCEPT !.balances[id][who] = IF left < Minimum THEN 0 ELSE left]

\* reducible_balance, of an account that may die
Reducible(ledger, id, who) == IF Exists(ledger, id) THEN ledger.balances[id][who] ELSE 0

CanWithdraw(ledger, id, who, amount) ==
    /\ EnsureValid(id)
    /\ Reducible(ledger, id, who) >= amount

\* deposit_minting_with_check, after CanDeposit
Deposited(ledger, id, who, amount) == Credit(ledger, id, who, amount)

\* withdraw_burning, after CanWithdraw
Withdrawn(ledger, id, who, amount) == Debit(ledger, id, who, amount)

InAccounts(ledger, id) == SumOf(ledger.balances[id])
=============================================================================
