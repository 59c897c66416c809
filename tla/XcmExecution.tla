----------------------------- MODULE XcmExecution -----------------------------
(***************************************************************************)
(* Messages of other chains on the registered assets: primitives/manta/    *)
(* src/xcm.rs (the trader that sells weight for the first asset offered,   *)
(* the transactor between locations and the ledger, the barrier) in the    *)
(* configuration of runtime/dolphin/src/xcm_config.rs.                     *)
(*                                                                         *)
(* The executor is outside src/ and modelled as it calls these parts: the  *)
(* holding register, the weight limit the barrier writes into the first    *)
(* BuyExecution, surplus weight and its refund, and at the end, be it for  *)
(* an error, the refund of what is left, the drop of the trader and the    *)
(* trap for what nobody took.  Calls of this chain wait for a message to   *)
(* end.  The trader for the native currency under Here, the claims of what *)
(* was trapped and messages that do not pay are left out.                  *)
(***************************************************************************)
EXTENDS AssetManager

CONSTANTS
    Relay,             \* the relay chain, beside the parachains
    Treasury,          \* XcmFeesAccount
    Sender,            \* accounts governance mints to and messages act for
    Weight,            \* what a message may weigh
    Limit,             \* limits of the BuyExecutions after the first
    WeightPerSecond,   \* WEIGHT_PER_SECOND, scaled down
    Amount,            \* what a message moves at once
    MaxValue           \* bound: units of an asset that come here, or are around when a message comes

Chain == ParaId \cup {Relay}

Least(a, b) == IF a <= b THEN a ELSE b

\* what a message of this weight costs at this rate, rounded down
Price(rate, weight) == (rate * weight) \div WeightPerSecond

ASSUME ExecutionConstants ==
    /\ Relay \notin ParaId
    /\ Treasury \in Account /\ Sender \subseteq Account
    /\ Weight \subseteq Nat \ {0} /\ Limit \subseteq Nat
    /\ WeightPerSecond \in Nat \ {0}
    /\ Amount \subseteq Nat \ {0}
    /\ MaxValue \in Nat

VARIABLES
    message,    \* the message in execution
    entered     \* ghost: units of each asset that were minted or sent here

Nowhere == [l \in Location |-> 0]

NoFees == [location |-> NativeLocation, amount |-> 0, rate |-> 0]

NoMessage ==
    [stage |-> "none", origin |-> OwnPara, sender |-> Treasury, weight |-> 0,
     holding |-> Nowhere, surplus |-> 0, refunded |-> 0,
     bought |-> 0, pays |-> FALSE, cache |-> NoFees,
     free |-> FALSE]   \* ghost: the first purchase cost nothing

vars == <<registry, ledger, message, entered>>

InitExecution ==
    /\ Init
    /\ message = NoMessage
    /\ entered = [id \in AssetIds |-> 0]

-----------------------------------------------------------------------------
(* Which asset a location names *)

\* Reserve for MultiAsset: the chain a location lies on
ReserveOf(location) == IF ParaOf[location] = NoPara THEN Relay ELSE ParaOf[location]

\* IsNativeConcrete
IsNative(location) == location = NativeLocation

\* match_asset_and_location knows the asset
Matches(location) == IsNative(location) \/ location \in DOMAIN locationAssetId

AssetAt(location) == IF IsNative(location) THEN NativeId ELSE locationAssetId[location]

-----------------------------------------------------------------------------
(* FirstAssetTrader *)

\* the first asset offered is registered under its location and has a rate
HasRate(location) ==
    /\ location \in DOMAIN locationAssetId
    /\ locationAssetId[location] \in DOMAIN unitsPerSecond

Cost(location, weight) == Price(unitsPerSecond[locationAssetId[location]], weight)

\* the cache takes fees of the asset that paid first, and counts their weight again
Cached(m, location, weight) ==
    IF ~m.pays
    THEN [m EXCEPT !.pays = TRUE, !.bought = @ + 2 * weight,
                   !.cache = [location |-> location, amount |-> Cost(location, weight),
                              rate |-> unitsPerSecond[locationAssetId[location]]]]
    ELSE IF m.cache.location = location
    THEN [m EXCEPT !.bought = @ + 2 * weight, !.cache.amount = @ + Cost(location, weight)]
    ELSE [m EXCEPT !.bought = @ + weight]

\* buy_weight, of a payment the holding covers
BuyWeight(m, location, weight) ==
    IF Cost(location, weight) = 0 THEN m
    ELSE [Cached(m, location, weight) EXCEPT !.holding[location] = @ - Cost(location, weight)]

\* Mistake (NothingIsMade must notice): the refund is not taken off the fees
RefundKeepingFees(m, weight) ==
    LET given == Price(m.cache.rate, Least(weight, m.bought)) IN
    IF ~m.pays THEN m
    ELSE [m EXCEPT !.bought = @ - Least(weight, m.bought),
                   !.holding[m.cache.location] = @ + given]

\* refund_weight
RefundWeight(m, weight) ==
    LET back == Least(weight, m.bought)
        given == Price(m.cache.rate, back)
    IN  IF ~m.pays THEN m
        ELSE [m EXCEPT !.bought = @ - back,
                       !.cache.amount = Sub(@, given),
                       !.holding[m.cache.location] = @ + given]

\* refund_surplus of the executor
Refunded(m) ==
    IF m.surplus > m.refunded
    THEN [RefundWeight(m, m.surplus - m.refunded) EXCEPT !.refunded = m.surplus] ELSE m

\* drop, take_revenue: minted to the treasury, if pallet_assets will have it
RevenueTaken(m) ==
    IF m.cache.amount > 0 /\ m.cache.location \in DOMAIN locationAssetId
       /\ locationAssetId[m.cache.location] \in ledger.issued
       /\ CanDeposit(ledger, locationAssetId[m.cache.location], Treasury, m.cache.amount)
    THEN Deposited(ledger, locationAssetId[m.cache.location], Treasury, m.cache.amount)
    ELSE ledger

-----------------------------------------------------------------------------
(* The executor *)

Idle == message.stage = "none"

\* a message of another chain, on behalf of the chain or, after DescendOrigin, of an
\* account of this chain that stands for the sender there
Receive(origin, sender, weight) ==
    /\ Idle /\ Migrated
    /\ \A id \in AssetIds : InAccounts(ledger, id) <= MaxValue
    /\ message' = [NoMessage EXCEPT !.stage = "started", !.origin = origin,
                                    !.sender = sender, !.weight = weight]
    /\ UNCHANGED <<registry, ledger, entered>>

\* where a message comes from decides its first instruction only, and is forgotten then
Unplaced(m) == [m EXCEPT !.origin = OwnPara]

\* WithdrawAsset: withdraw_asset of the transactor
WithdrawAsset(location, amount) ==
    /\ message.stage \in {"started", "paid"}
    /\ Matches(location)
    /\ CanWithdraw(ledger, AssetAt(location), message.sender, amount)
    /\ ledger' = Withdrawn(ledger, AssetAt(location), message.sender, amount)
    /\ message' = [Unplaced(message) EXCEPT
                        !.holding[location] = @ + amount,
                        !.stage = IF @ = "started" THEN "funded" ELSE @]
    /\ UNCHANGED <<registry, entered>>

\* ReserveAssetDeposited, of a chain that MultiNativeAsset trusts with the asset
ReserveAssetDeposited(location, amount) ==
    /\ message.stage = "started"
    /\ ReserveOf(location) = message.origin
    /\ message' = [Unplaced(message) EXCEPT !.holding[location] = @ + amount, !.stage = "funded"]
    /\ entered' = IF Matches(location)
                  THEN [entered EXCEPT ![AssetAt(location)] = @ + amount] ELSE entered
    /\ UNCHANGED <<registry, ledger>>

\* nothing is affordable from nothing, though it be free: no asset is offered
Affordable(location, weight) ==
    /\ message.holding[location] > 0
    /\ HasRate(location)
    /\ Cost(location, weight) <= message.holding[location]

IsFree(location, weight) == message.stage = "funded" /\ Cost(location, weight) = 0

\* BuyExecution: the barriers give the first one the weight of the message as its limit,
\* and refuse a message whose own limit is less; later ones buy what they say
BuyExecution(location, weight) ==
    /\ \/ message.stage = "funded" /\ weight = message.weight
       \/ message.stage = "paid" /\ weight \in Limit
    /\ Affordable(location, weight)
    /\ message' = [BuyWeight(message, location, weight) EXCEPT
                        !.stage = "paid", !.free = @ \/ IsFree(location, weight)]
    /\ UNCHANGED <<registry, ledger, entered>>

\* Transact needed less weight than it was given
SurplusOfTransact(surplus) ==
    /\ message.stage = "paid"
    /\ surplus \in (message.surplus + 1) .. (message.weight - 1)
    /\ message' = [message EXCEPT !.surplus = surplus]
    /\ UNCHANGED <<registry, ledger, entered>>

RefundSurplus ==
    /\ message.stage = "paid"
    /\ message.surplus > message.refunded
    /\ message' = Refunded(message)
    /\ UNCHANGED <<registry, ledger, entered>>

\* DepositAsset: deposit_asset of the transactor
DepositAsset(location, who, amount) ==
    /\ message.stage = "paid"
    /\ message.holding[location] >= amount
    /\ Matches(location)
    /\ CanDeposit(ledger, AssetAt(location), who, amount)
    /\ ledger' = Deposited(ledger, AssetAt(location), who, amount)
    /\ message' = [message EXCEPT !.holding[location] = @ - amount]
    /\ UNCHANGED <<registry, entered>>

\* the last instruction is done, or one failed and what follows it is surplus
End(surplus) ==
    /\ ~Idle
    /\ surplus \in message.surplus .. (message.weight - 1)
    /\ ledger' = RevenueTaken(Refunded([message EXCEPT !.surplus = surplus]))
    /\ message' = NoMessage
    /\ UNCHANGED <<registry, entered>>

-----------------------------------------------------------------------------
(* Calls of this chain, between messages *)

Mint(id, who, amount) ==
    /\ Idle
    /\ entered[id] + amount <= MaxValue
    /\ ForceMintAsset(id, who, amount)
    /\ entered' = [entered EXCEPT ![id] = @ + amount]
    /\ UNCHANGED message

\* orml_xtokens: what a user sends back to the chain it came from leaves the ledger
SendBack(id, who, amount) ==
    /\ Idle /\ Migrated
    /\ id \in DOMAIN assetIdLocation
    /\ assetIdLocation[id] # NativeLocation
    /\ DestinationAllowed(ParaOf[assetIdLocation[id]])
    /\ CanWithdraw(ledger, id, who, amount)
    /\ ledger' = Withdrawn(ledger, id, who, amount)
    /\ entered' = [entered EXCEPT ![id] = Sub(@, amount)]
    /\ UNCHANGED <<registry, message>>

Instruction ==
    \/ \E location \in Location, amount \in Amount :
        \/ WithdrawAsset(location, amount)
        \/ /\ Matches(location) => entered[AssetAt(location)] + amount <= MaxValue
           /\ ReserveAssetDeposited(location, amount)
        \/ \E who \in Account : DepositAsset(location, who, amount)
    \/ \E location \in Location, weight \in Weight \cup Limit : BuyExecution(location, weight)
    \/ \E surplus \in 1 .. message.weight : SurplusOfTransact(surplus)
    \/ RefundSurplus

Next ==
    \/ RuntimeUpgrade /\ Idle /\ UNCHANGED <<message, entered>>
    \/ RegistryCall /\ Idle /\ UNCHANGED <<message, entered>>
    \/ \E origin \in Chain, sender \in Sender, weight \in Weight :
        Receive(origin, sender, weight)
    \/ Instruction
    \/ \E surplus \in 0 .. message.weight : End(surplus)
    \/ \E id \in AssetIds, who \in Sender, amount \in Amount : SendBack(id, who, amount)
    \/ \E id \in AssetIds, who \in Sender, amount \in MintAmount : Mint(id, who, amount)

Spec == InitExecution /\ [][Next]_vars
=============================================================================
