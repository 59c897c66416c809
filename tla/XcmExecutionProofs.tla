-------------------------- MODULE XcmExecutionProofs --------------------------
(***************************************************************************)
(* The registry stays consistent and its identifiers keep their meaning,   *)
(* whatever the locations, the parachains, the ids, the messages and the   *)
(* chain it started from.  Locations and ids must point to each other in   *)
(* both directions for that: only then does the migration, which walks     *)
(* over the locations, count every asset of a parachain once, and only     *)
(* then does a move take the location of no other asset away.              *)
(*                                                                         *)
(* The units of an asset grow by what is minted or sent here: messages     *)
(* move units, and where weight is bought and refunded the fees kept cover *)
(* what is given back, as the first purchase paid for the whole message.   *)
(* Only a message that paid nothing first can be given back more, and then *)
(* no more than its whole weight is worth.                                 *)
(***************************************************************************)
EXTENDS XcmExecutionProperties, StorageMapsProofs

Fees == [location : Location, amount : Nat, rate : Nat]

Message ==
    [stage : {"none", "started", "funded", "paid"}, origin : Chain, sender : Account,
     weight : Nat, holding : [Location -> Nat], surplus : Nat, refunded : Nat,
     bought : Nat, pays : BOOLEAN, cache : Fees, free : BOOLEAN]

MessageOK == message \in Message

\* The next id is new to every map.
IdsWereTaken ==
    /\ \A id \in DOMAIN assetIdLocation : id < nextAssetId
    /\ \A i \in DOMAIN registeredAssetId : registeredAssetId[i] < nextAssetId

IdentifiersDiffer ==
    \A i, j \in DOMAIN registeredAssetId : registeredAssetId[i] = registeredAssetId[j] => i = j

\* Assets of this chain share the native location; every other one has its own.
IdsPointBack ==
    \A id \in DOMAIN assetIdLocation :
        ParaOf[assetIdLocation[id]] # OwnPara =>
            /\ assetIdLocation[id] \in DOMAIN locationAssetId
            /\ locationAssetId[assetIdLocation[id]] = id

NotYetCounted == ~Migrated => allowedDestParaIds = NoEntries

RegistryInv ==
    /\ IdsWereTaken
    /\ IdentifiersDiffer
    /\ LocationsPointBack
    /\ IdsPointBack
    /\ FungiblesExist
    /\ NotYetCounted
    /\ CountsAreExact

IInv == TypeOK /\ MessageOK /\ RegistryInv

\* What every step does to the ledger: assets stay known to pallet_assets.
LedgerStep == ledger' \in Ledger /\ ledger.issued \subseteq ledger'.issued

-----------------------------------------------------------------------------
(* The ledger *)

\* A balance is a whole number of units of an asset.
LEMMA BalanceInNat ==
    ASSUME NEW l \in Ledger, NEW id \in AssetIds, NEW who \in Account
    PROVE  l.balances[id][who] \in Nat
BY DEF Ledger

\* Nobody's balance decides which assets pallet_assets knows.
LEMMA RebalancedIsLedger ==
    ASSUME NEW l \in Ledger, NEW id \in AssetIds, NEW who \in Account, NEW n \in Nat
    PROVE  /\ [l EXCEPT !.balances[id][who] = n] \in Ledger
           /\ [l EXCEPT !.balances[id][who] = n].issued = l.issued
<1> DEFINE row == [l.balances[id] EXCEPT ![who] = n]
           table == [l.balances EXCEPT ![id] = row]
<1>1. l.balances \in [AssetIds -> [Account -> Nat]] /\ l.issued \subseteq AssetIds
  BY DEF Ledger
<1>2. row \in [Account -> Nat]
  BY <1>1
<1> HIDE DEF row
<1>3. table \in [AssetIds -> [Account -> Nat]]
  BY <1>1, <1>2
<1> HIDE DEF table
<1>4. [l EXCEPT !.balances = table] \in Ledger /\ [l EXCEPT !.balances = table].issued = l.issued
  BY <1>1, <1>3 DEF Ledger
<1>5. [l EXCEPT !.balances[id][who] = n] = [l EXCEPT !.balances = table]
  BY DEF table, row
<1> QED BY <1>4, <1>5

\* deposit_minting_with_check makes no asset known and forgets none.
LEMMA DepositedIsLedger ==
    ASSUME NEW l \in Ledger, NEW id \in AssetIds, NEW who \in Account, NEW amount \in Nat
    PROVE  /\ Deposited(l, id, who, amount) \in Ledger
           /\ Deposited(l, id, who, amount).issued = l.issued
<1>1. l.balances[id][who] + amount \in Nat
  BY BalanceInNat
<1>2. Deposited(l, id, who, amount)
        = [l EXCEPT !.balances[id][who] = l.balances[id][who] + amount]
  BY DEF Deposited, Credit
<1> QED BY <1>1, <1>2, RebalancedIsLedger

\* withdraw_burning never leaves less than nothing: CanWithdraw saw the balance.
LEMMA WithdrawnIsLedger ==
    ASSUME NEW l \in Ledger, NEW id \in AssetIds, NEW who \in Account, NEW amount \in Nat,
           CanWithdraw(l, id, who, amount)
    PROVE  /\ Withdrawn(l, id, who, amount) \in Ledger
           /\ Withdrawn(l, id, who, amount).issued = l.issued
<1> DEFINE left == l.balances[id][who] - amount
           new == IF left < Minimum THEN 0 ELSE left
<1>1. l.balances[id][who] \in Nat
  BY BalanceInNat
<1>2. l.balances[id][who] >= amount
  BY <1>1 DEF CanWithdraw, Reducible
<1>3. new \in Nat
  BY <1>1, <1>2
<1>4. Withdrawn(l, id, who, amount) = [l EXCEPT !.balances[id][who] = new]
  BY DEF Withdrawn, Debit
<1> HIDE DEF new
<1> QED BY <1>3, <1>4, RebalancedIsLedger

-----------------------------------------------------------------------------
(* The trader *)

\* A price is a whole number of units: the division rounds down.
LEMMA PriceInNat ==
    ASSUME NEW rate \in Nat, NEW weight \in Nat PROVE Price(rate, weight) \in Nat
<1>1. rate * weight \in Nat
  OBVIOUS
<1>2. \A x \in Nat : x \div WeightPerSecond \in Nat
  BY ExecutionConstants
<1> QED BY <1>1, <1>2 DEF Price

LEMMA LeastInNat ==
    ASSUME NEW a \in Nat, NEW b \in Nat PROVE Least(a, b) \in Nat /\ Least(a, b) <= a /\ Least(a, b) <= b
BY DEF Least

\* A smaller balance in its place keeps the holding register whole.
LEMMA HeldIsMessage ==
    ASSUME NEW m \in Message, NEW l \in Location, NEW n \in Nat
    PROVE  [m EXCEPT !.holding[l] = n] \in Message
<1> DEFINE held == [m.holding EXCEPT ![l] = n]
<1>1. held \in [Location -> Nat]
  BY DEF Message
<1> HIDE DEF held
<1>2. [m EXCEPT !.holding = held] \in Message
  BY <1>1 DEF Message
<1>3. [m EXCEPT !.holding[l] = n] = [m EXCEPT !.holding = held]
  BY DEF held
<1> QED BY <1>2, <1>3

\* The cost of a message is known where the trader has a rate for the asset.
LEMMA CostInNat ==
    ASSUME TypeOK, NEW l \in Location, HasRate(l), NEW weight \in Nat
    PROVE  Cost(l, weight) \in Nat /\ unitsPerSecond[locationAssetId[l]] \in Nat
<1>1. unitsPerSecond[locationAssetId[l]] \in Nat
  BY RegistryConstants DEF TypeOK, IsStorageMap, HasRate
<1> QED BY <1>1, PriceInNat DEF Cost

\* buy_weight takes no more out of the holding register than there is.
LEMMA BuyWeightIsMessage ==
    ASSUME TypeOK, NEW m \in Message, NEW l \in Location, NEW weight \in Nat,
           HasRate(l), Cost(l, weight) <= m.holding[l]
    PROVE  BuyWeight(m, l, weight) \in Message
<1> DEFINE cost == Cost(l, weight)
           rate == unitsPerSecond[locationAssetId[l]]
<1>1. cost \in Nat /\ rate \in Nat
  BY CostInNat
<1>2. m.holding[l] \in Nat /\ m.holding[l] - cost \in Nat
  BY <1>1 DEF Message
<1>3. Cached(m, l, weight) \in Message
  <2>1. m.bought \in Nat /\ m.cache \in Fees /\ m.cache.amount + cost \in Nat
    BY <1>1 DEF Message, Fees
  <2>2. m.bought + weight \in Nat /\ m.bought + 2 * weight \in Nat
    BY <2>1
  <2>3. [location |-> l, amount |-> cost, rate |-> rate] \in Fees
    BY <1>1 DEF Fees
  <2>4. [m.cache EXCEPT !.amount = m.cache.amount + cost] \in Fees
    BY <2>1 DEF Fees
  <2> HIDE DEF cost, rate
  <2>5. CASE ~m.pays
    BY <2>2, <2>3, <2>5 DEF Cached, Message, cost, rate
  <2>6. CASE m.pays /\ m.cache.location = l
    BY <2>2, <2>4, <2>6 DEF Cached, Message, cost
  <2>7. CASE m.pays /\ m.cache.location # l
    BY <2>2, <2>7 DEF Cached, Message
  <2> QED BY <2>5, <2>6, <2>7 DEF Message
<1>4. Cached(m, l, weight).holding = m.holding
  BY DEF Cached, Message
<1>5. [Cached(m, l, weight) EXCEPT !.holding[l] = m.holding[l] - cost] \in Message
  BY <1>2, <1>3, HeldIsMessage
<1>6. CASE cost = 0
  BY <1>6 DEF BuyWeight
<1>7. CASE cost # 0
  BY <1>4, <1>5, <1>7 DEF BuyWeight
<1> QED BY <1>6, <1>7

\* refund_weight gives back weight that was bought.
LEMMA RefundWeightIsMessage ==
    ASSUME NEW m \in Message, NEW weight \in Nat
    PROVE  RefundWeight(m, weight) \in Message
<1> DEFINE back == Least(weight, m.bought)
           given == Price(m.cache.rate, back)
           l == m.cache.location
           spent == [m EXCEPT !.bought = m.bought - back,
                              !.cache.amount = Sub(m.cache.amount, given)]
<1>1. m.bought \in Nat /\ m.cache \in Fees /\ m.holding \in [Location -> Nat]
  BY DEF Message
<1>2. back \in Nat /\ m.bought - back \in Nat
  <2>1. back \in Nat /\ back <= m.bought
    BY <1>1, LeastInNat
  <2> HIDE DEF back
  <2> QED BY <1>1, <2>1
<1>3. given \in Nat /\ Sub(m.cache.amount, given) \in Nat /\ l \in Location
  BY <1>1, <1>2, PriceInNat, SubInNat DEF Fees
<1> HIDE DEF back, given
<1>4. [m.cache EXCEPT !.amount = Sub(m.cache.amount, given)] \in Fees
  BY <1>1, <1>3 DEF Fees
<1>5. spent \in Message /\ spent.holding = m.holding
  BY <1>2, <1>4 DEF Message
<1>6. m.holding[l] + given \in Nat
  BY <1>1, <1>3
<1>7. [spent EXCEPT !.holding[l] = m.holding[l] + given] \in Message
  BY <1>3, <1>5, <1>6, HeldIsMessage
<1>8. CASE m.pays
  <2>1. RefundWeight(m, weight) =
          [m EXCEPT !.bought = m.bought - back,
                    !.cache.amount = Sub(m.cache.amount, given),
                    !.holding[l] = m.holding[l] + given]
    BY <1>8 DEF RefundWeight, back, given
  <2>2. RefundWeight(m, weight) = [spent EXCEPT !.holding[l] = m.holding[l] + given]
    BY <2>1 DEF Message
  <2> QED BY <1>7, <2>2
<1>9. CASE ~m.pays
  BY <1>9 DEF RefundWeight
<1> QED BY <1>8, <1>9

\* refund_surplus of the executor.
LEMMA RefundedIsMessage ==
    ASSUME NEW m \in Message PROVE Refunded(m) \in Message
<1>1. CASE m.surplus > m.refunded
  <2>1. m.surplus - m.refunded \in Nat /\ m.surplus \in Nat
    BY <1>1 DEF Message
  <2>2. RefundWeight(m, m.surplus - m.refunded) \in Message
    BY <2>1, RefundWeightIsMessage
  <2> QED BY <1>1, <2>1, <2>2 DEF Refunded, Message
<1>2. CASE ~(m.surplus > m.refunded)
  BY <1>2 DEF Refunded
<1> QED BY <1>1, <1>2

\* The fees end up as units of an asset pallet_assets knows, or are lost.
LEMMA RevenueIsLedger ==
    ASSUME TypeOK, NEW m \in Message
    PROVE  RevenueTaken(m) \in Ledger /\ RevenueTaken(m).issued = ledger.issued
<1> DEFINE l == m.cache.location
<1>1. m.cache.amount \in Nat /\ Treasury \in Account /\ ledger \in Ledger
  BY ExecutionConstants DEF Message, Fees, TypeOK
<1>2. l \in DOMAIN locationAssetId => locationAssetId[l] \in AssetIds
  BY DEF TypeOK, IsStorageMap
<1> QED BY <1>1, <1>2, DepositedIsLedger DEF RevenueTaken

-----------------------------------------------------------------------------
(* Messages and mints leave the registry alone *)

\* The asset a location names is an asset.
LEMMA AssetAtIsAsset ==
    ASSUME TypeOK, NEW l \in Location, Matches(l) PROVE AssetAt(l) \in AssetIds
BY DEF TypeOK, IsStorageMap, Matches, AssetAt, AssetIds

\* The instructions of a message, its arrival and its end, a mint and what users send back.
ExecutionStep ==
    \/ \E origin \in Chain, sender \in Sender, weight \in Weight :
        Receive(origin, sender, weight)
    \/ Instruction
    \/ \E surplus \in 0 .. message.weight : End(surplus)
    \/ \E id \in AssetIds, who \in Sender, amount \in Amount : SendBack(id, who, amount)
    \/ \E id \in AssetIds, who \in Sender, amount \in MintAmount : Mint(id, who, amount)

\* They move units between accounts, the message and the treasury, and nothing else.
LEMMA ExecutionSteps ==
    ASSUME TypeOK, MessageOK, ExecutionStep
    PROVE  MessageOK' /\ LedgerStep /\ UNCHANGED registry
<1> USE DEF MessageOK
<1>1. ledger \in Ledger
  BY DEF TypeOK
<1>2. Amount \subseteq Nat /\ MintAmount \subseteq Nat /\ Weight \subseteq Nat
      /\ Limit \subseteq Nat /\ Sender \subseteq Account
  BY ExecutionConstants, RegistryConstants
<1>3. ASSUME NEW origin \in Chain, NEW sender \in Sender, NEW weight \in Weight,
             Receive(origin, sender, weight)
      PROVE  MessageOK' /\ LedgerStep /\ UNCHANGED registry
  <2>1. NoMessage \in Message
    BY ExecutionConstants, RegistryConstants
       DEF Message, NoMessage, Chain, Nowhere, NoFees, Fees
  <2> QED BY <1>1, <1>2, <1>3, <2>1 DEF Receive, LedgerStep, Message
<1>4. ASSUME NEW l \in Location, NEW amount \in Amount, WithdrawAsset(l, amount)
      PROVE  MessageOK' /\ LedgerStep /\ UNCHANGED registry
  <2>1. AssetAt(l) \in AssetIds
    BY <1>4, AssetAtIsAsset DEF WithdrawAsset
  <2>2. amount \in Nat /\ message.sender \in Account
    BY <1>2 DEF Message
  <2>3. LedgerStep
    BY <1>1, <1>4, <2>1, <2>2, WithdrawnIsLedger DEF WithdrawAsset, LedgerStep
  <2>4. [message EXCEPT !.holding[l] = @ + amount] \in Message
    BY <2>2, HeldIsMessage DEF Message
  <2> QED BY <1>4, <2>3, <2>4, RegistryConstants DEF WithdrawAsset, Unplaced, Message, Chain
<1>5. ASSUME NEW l \in Location, NEW amount \in Amount, ReserveAssetDeposited(l, amount)
      PROVE  MessageOK' /\ LedgerStep /\ UNCHANGED registry
  <2>1. message.holding[l] + amount \in Nat
    BY <1>2 DEF Message
  <2>2. [message EXCEPT !.holding[l] = message.holding[l] + amount] \in Message
    BY <2>1, HeldIsMessage
  <2> QED BY <1>1, <1>5, <2>2, RegistryConstants
      DEF ReserveAssetDeposited, Unplaced, LedgerStep, Message, Chain
<1>6. ASSUME NEW l \in Location, NEW amount \in Amount, NEW who \in Account,
             DepositAsset(l, who, amount)
      PROVE  MessageOK' /\ LedgerStep /\ UNCHANGED registry
  <2>1. AssetAt(l) \in AssetIds
    BY <1>6, AssetAtIsAsset DEF DepositAsset
  <2>2. message.holding[l] - amount \in Nat
    BY <1>2, <1>6 DEF DepositAsset, Message
  <2>3. [message EXCEPT !.holding[l] = message.holding[l] - amount] \in Message
    BY <2>2, HeldIsMessage
  <2>4. LedgerStep
    BY <1>1, <1>2, <1>6, <2>1, DepositedIsLedger DEF DepositAsset, LedgerStep
  <2> QED BY <1>6, <2>3, <2>4 DEF DepositAsset
<1>7. ASSUME NEW l \in Location, NEW weight \in Weight \cup Limit, BuyExecution(l, weight)
      PROVE  MessageOK' /\ LedgerStep /\ UNCHANGED registry
  <2>1. BuyWeight(message, l, weight) \in Message
    BY <1>2, <1>7, BuyWeightIsMessage DEF BuyExecution, Affordable
  <2> DEFINE r == BuyWeight(message, l, weight)
             free == r.free \/ IsFree(l, weight)
  <2>2. free \in BOOLEAN
    OBVIOUS
  <2>3. message' = [r EXCEPT !.stage = "paid", !.free = free]
    BY <1>7 DEF BuyExecution
  <2> HIDE DEF r, free
  <2>4. MessageOK'
    <3>1. r \in Message
      BY <2>1 DEF r
    <3> QED BY <2>2, <2>3, <3>1 DEF Message
  <2> QED BY <1>1, <1>7, <2>4 DEF BuyExecution, LedgerStep
<1>8. ASSUME NEW surplus \in 1 .. message.weight, SurplusOfTransact(surplus)
      PROVE  MessageOK' /\ LedgerStep /\ UNCHANGED registry
  <2>1. surplus \in Nat
    BY DEF Message
  <2> QED BY <1>1, <1>8, <2>1 DEF SurplusOfTransact, LedgerStep, Message
<1>9. ASSUME RefundSurplus
      PROVE  MessageOK' /\ LedgerStep /\ UNCHANGED registry
  BY <1>1, <1>9, RefundedIsMessage DEF RefundSurplus, LedgerStep
<1>10. ASSUME NEW surplus \in 0 .. message.weight, End(surplus)
       PROVE  MessageOK' /\ LedgerStep /\ UNCHANGED registry
  <2>1. surplus \in Nat
    BY DEF Message
  <2>2. [message EXCEPT !.surplus = surplus] \in Message
    BY <2>1 DEF Message
  <2>3. Refunded([message EXCEPT !.surplus = surplus]) \in Message
    BY <2>2, RefundedIsMessage
  <2>4. LedgerStep
    BY <1>10, <2>3, RevenueIsLedger DEF End, LedgerStep
  <2>5. NoMessage \in Message
    BY ExecutionConstants, RegistryConstants
       DEF Message, NoMessage, Chain, Nowhere, NoFees, Fees
  <2> QED BY <1>10, <2>4, <2>5 DEF End
<1>11. ASSUME NEW id \in AssetIds, NEW who \in Sender, NEW amount \in Amount,
              SendBack(id, who, amount)
       PROVE  MessageOK' /\ LedgerStep /\ UNCHANGED registry
  <2>1. LedgerStep
    BY <1>1, <1>2, <1>11, WithdrawnIsLedger DEF SendBack, LedgerStep
  <2> QED BY <1>11, <2>1 DEF SendBack
<1>12. ASSUME NEW id \in AssetIds, NEW who \in Sender, NEW amount \in MintAmount,
              Mint(id, who, amount)
       PROVE  MessageOK' /\ LedgerStep /\ UNCHANGED registry
  <2>1. LedgerStep
    BY <1>1, <1>2, <1>12, DepositedIsLedger DEF Mint, ForceMintAsset, LedgerStep
  <2> QED BY <1>12, <2>1 DEF Mint, ForceMintAsset
<1> QED
  BY <1>3, <1>4, <1>5, <1>6, <1>7, <1>8, <1>9, <1>10, <1>11, <1>12
     DEF ExecutionStep, Instruction

\* What the invariant says of the registry survives every step that leaves it alone.
LEMMA LedgerStepKeepsInv ==
    ASSUME TypeOK, RegistryInv, LedgerStep, UNCHANGED registry
    PROVE  TypeOK' /\ RegistryInv'
<1> USE DEF registry, locations, identities
<1>1. TypeOK'
  BY DEF TypeOK, LedgerStep
<1>2. IdsWereTaken' /\ IdentifiersDiffer' /\ LocationsPointBack' /\ IdsPointBack'
  BY DEF RegistryInv, IdsWereTaken, IdentifiersDiffer, LocationsPointBack, IdsPointBack
<1>3. NotYetCounted' /\ CountsAreExact'
  BY DEF RegistryInv, NotYetCounted, CountsAreExact, FromPara, Migrated
<1>4. FungiblesExist'
  BY DEF RegistryInv, FungiblesExist, Exists, LedgerStep
<1> QED BY <1>1, <1>2, <1>3, <1>4 DEF RegistryInv

-----------------------------------------------------------------------------
(* Counting the assets of a parachain *)

\* There are finitely many ids, so the assets of a parachain can be counted.
LEMMA FromParaIsFinite ==
    ASSUME NEW S, S \subseteq AssetIds PROVE IsFiniteSet(S)
<1>1. IsFiniteSet(StartId .. MaxId)
  BY LedgerConstants, FS_Interval
<1>2. IsFiniteSet({NativeId})
  BY FS_Singleton
<1>3. IsFiniteSet(AssetIds)
  BY <1>1, <1>2, FS_Union DEF AssetIds
<1> QED BY <1>3, FS_Subset

\* A count says how many elements a set has; no entry says that it has none.
Counts(counts, para, S) ==
    /\ para \in DOMAIN counts <=> S # {}
    /\ para \in DOMAIN counts => counts[para] = Cardinality(S)

\* increase_count_of_associated_assets counts one asset more for its parachain alone.
LEMMA IncreaseCounts ==
    ASSUME NEW counts, NEW at, NEW para, para # NoPara,
           NEW S, IsFiniteSet(S), NEW id, id \notin S, Counts(counts, para, S)
    PROVE  Counts(IncreaseCount(counts, at), para, IF at = para THEN S \cup {id} ELSE S)
<1>1. Cardinality(S) \in Nat
  BY FS_CardinalityType
<1>2. Cardinality(S \cup {id}) = Cardinality(S) + 1
  BY FS_AddElement
<1>3. S = {} => Cardinality(S) = 0
  BY FS_EmptySet
<1>4. CASE at # para
  BY <1>4 DEF IncreaseCount, Counts, Put
<1>5. CASE at = para
  <2>1. at # NoPara
    BY <1>5
  <2>2. CASE para \in DOMAIN counts
    BY <1>1, <1>2, <1>5, <2>1, <2>2 DEF IncreaseCount, Counts, Put
  <2>3. CASE para \notin DOMAIN counts
    BY <1>1, <1>2, <1>3, <1>5, <2>1, <2>3 DEF IncreaseCount, Counts, Put
  <2> QED BY <2>2, <2>3
<1> QED BY <1>4, <1>5

\* update_asset_location takes the asset off the count of the parachain it leaves, and the
\* entry away with the last one.
LEMMA DecreaseCounts ==
    ASSUME NEW counts, NEW at, NEW para, para # NoPara,
           NEW S, IsFiniteSet(S), NEW id, at = para <=> id \in S, Counts(counts, para, S)
    PROVE  Counts(DecreaseCount(counts, at), para, S \ {id})
<1>1. Cardinality(S) \in Nat /\ IsFiniteSet(S \ {id})
  BY FS_CardinalityType, FS_RemoveElement
<1>2. Cardinality(S \ {id}) = IF id \in S THEN Cardinality(S) - 1 ELSE Cardinality(S)
  BY FS_RemoveElement
<1>3. Cardinality(S \ {id}) = 0 <=> S \ {id} = {}
  BY <1>1, FS_EmptySet
<1>4. CASE at # para
  <2>1. S \ {id} = S
    BY <1>4
  <2> QED BY <1>4, <2>1 DEF DecreaseCount, Counts, Put, Drop
<1>5. CASE at = para
  <2>1. at # NoPara /\ id \in S /\ para \in DOMAIN counts /\ counts[para] = Cardinality(S)
    BY <1>5 DEF Counts
  <2>2. CASE Cardinality(S) <= 1
    <3>1. S \ {id} = {}
      BY <1>1, <1>2, <1>3, <2>1, <2>2, FS_CardinalityType
    <3> QED BY <1>5, <2>1, <2>2, <3>1 DEF DecreaseCount, Counts, Drop
  <2>3. CASE ~(Cardinality(S) <= 1)
    <3>1. S \ {id} # {} /\ Cardinality(S \ {id}) = Cardinality(S) - 1
      BY <1>1, <1>2, <1>3, <2>1, <2>3
    <3>2. DecreaseCount(counts, at) = Put(counts, para, Cardinality(S) - 1)
      BY <1>5, <2>1, <2>3 DEF DecreaseCount
    <3> QED BY <3>1, <3>2 DEF Counts, Put
  <2> QED BY <2>2, <2>3
<1> QED BY <1>4, <1>5

\* Counts of the parachains after a migrated step, one parachain at a time.
LEMMA CountOne ==
    ASSUME TypeOK, CountsAreExact, Migrated, NEW para \in ParaId \ {OwnPara}
    PROVE  /\ Counts(allowedDestParaIds, para, FromPara(para))
           /\ IsFiniteSet(FromPara(para))
           /\ FromPara(para) \subseteq DOMAIN assetIdLocation
           /\ para # NoPara
<1>1. FromPara(para) \subseteq DOMAIN assetIdLocation
  BY DEF FromPara
<1>2. FromPara(para) \subseteq AssetIds
  BY <1>1 DEF TypeOK, IsStorageMap
<1> QED BY <1>1, <1>2, FromParaIsFinite, RegistryConstants DEF CountsAreExact, Counts

-----------------------------------------------------------------------------
(* Calls of the registry *)

\* register_asset: the new asset shares the native location, which points to no other.
LEMMA RegisterAssetKeepsInv ==
    ASSUME TypeOK, RegistryInv, NEW meta \in Metadata, RegisterAsset(meta)
    PROVE  TypeOK' /\ RegistryInv'
<1> USE DEF RegisterAsset, TakesNextId
<1>1. nextAssetId \in AssetIds /\ nextAssetId \in Nat /\ nextAssetId + 1 \in StartId .. (MaxId + 1)
      /\ nextAssetId # NativeId /\ storageVersion' = storageVersion
  BY LedgerConstants DEF TypeOK, AssetIds
<1>2. ledger' \in Ledger /\ ledger.issued \subseteq ledger'.issued
      /\ (meta.kind = "Fungible" => nextAssetId \in ledger'.issued)
  BY <1>1 DEF Created, TypeOK, Ledger
<1>3. NativeLocation \in Location /\ Mapping(meta) \in Identifiers
  BY RegistryConstants DEF Identifiers
<1>4. nextAssetId \notin DOMAIN assetIdLocation
  BY <1>1 DEF RegistryInv, IdsWereTaken
<1>5. IsStorageMap(assetIdLocation', AssetIds, Location)
      /\ IsStorageMap(assetIdMetadata', AssetIds, Metadata \cup {NativeMetadata})
      /\ IsStorageMap(registeredAssetId', Identifiers, AssetIds)
  BY <1>1, <1>3, PutStorage DEF TypeOK
<1>6. TypeOK'
  BY <1>1, <1>2, <1>5 DEF TypeOK
<1>7. IdsWereTaken'
  <2>1. \A id \in DOMAIN assetIdLocation : id \in Nat
    BY LedgerConstants DEF TypeOK, IsStorageMap, AssetIds
  <2>2. \A i \in DOMAIN registeredAssetId : registeredAssetId[i] \in Nat
    BY LedgerConstants DEF TypeOK, IsStorageMap, AssetIds
  <2> QED BY <1>1, <2>1, <2>2 DEF RegistryInv, IdsWereTaken, Put
<1>8. IdentifiersDiffer'
  <2>1. \A i \in DOMAIN registeredAssetId : registeredAssetId[i] # nextAssetId
    BY <1>1 DEF RegistryInv, IdsWereTaken
  <2> QED BY <2>1 DEF RegistryInv, IdentifiersDiffer, Put
<1>9. LocationsPointBack'
  BY <1>4 DEF RegistryInv, LocationsPointBack, Put
<1>10. IdsPointBack'
  BY <1>4, RegistryConstants DEF RegistryInv, IdsPointBack, Put
<1>11. FungiblesExist'
  BY <1>2 DEF RegistryInv, FungiblesExist, Exists, Put
<1>12. NotYetCounted' /\ CountsAreExact'
  <2>1. ASSUME NEW para \in ParaId \ {OwnPara} PROVE FromPara(para)' = FromPara(para)
    BY <1>4, RegistryConstants DEF FromPara, Put
  <2> QED BY <2>1 DEF RegistryInv, NotYetCounted, CountsAreExact, Migrated
<1> QED BY <1>6, <1>7, <1>8, <1>9, <1>10, <1>11, <1>12 DEF RegistryInv

\* force_register_asset: the new asset is the only one at its location.
LEMMA ForceRegisterAssetKeepsInv ==
    ASSUME TypeOK, RegistryInv, NEW location \in Foreign, NEW meta \in Metadata,
           ForceRegisterAsset(location, meta)
    PROVE  TypeOK' /\ RegistryInv'
<1> USE DEF ForceRegisterAsset, TakesNextId
<1>1. nextAssetId \in AssetIds /\ nextAssetId \in Nat /\ nextAssetId + 1 \in StartId .. (MaxId + 1)
      /\ nextAssetId # NativeId /\ storageVersion' = storageVersion
  BY LedgerConstants DEF TypeOK, AssetIds
<1>2. ledger' \in Ledger /\ ledger.issued \subseteq ledger'.issued
      /\ (meta.kind = "Fungible" => nextAssetId \in ledger'.issued)
  BY <1>1 DEF Created, TypeOK, Ledger
<1>3. location \in Location /\ location \notin DOMAIN locationAssetId
      /\ ParaOf[location] \in ParaId \cup {NoPara}
  BY RegistryConstants
<1>4. nextAssetId \notin DOMAIN assetIdLocation
  BY <1>1 DEF RegistryInv, IdsWereTaken
<1>5. IsStorageMap(assetIdLocation', AssetIds, Location)
      /\ IsStorageMap(assetIdMetadata', AssetIds, Metadata \cup {NativeMetadata})
      /\ IsStorageMap(locationAssetId', Location, AssetIds)
  BY <1>1, <1>3, PutStorage DEF TypeOK
<1>6. IsStorageMap(allowedDestParaIds', ParaId, Nat \ {0})
  <2>1. CASE ParaOf[location] = NoPara
    BY <2>1 DEF IncreaseCount, TypeOK
  <2>2. CASE ParaOf[location] # NoPara
    <3> DEFINE para == ParaOf[location]
               n == IF para \in DOMAIN allowedDestParaIds
                    THEN allowedDestParaIds[para] + 1 ELSE 1
    <3>1. para \in ParaId /\ n \in Nat \ {0}
      BY <1>3, <2>2 DEF TypeOK, IsStorageMap
    <3>2. allowedDestParaIds' = Put(allowedDestParaIds, para, n)
      BY <2>2 DEF IncreaseCount
    <3> HIDE DEF para, n
    <3> QED BY <3>1, <3>2 DEF TypeOK, IsStorageMap, Put
  <2> QED BY <2>1, <2>2
<1>7. TypeOK'
  BY <1>1, <1>2, <1>5, <1>6 DEF TypeOK
<1>8. IdsWereTaken'
  <2>1. \A id \in DOMAIN assetIdLocation : id \in Nat
    BY LedgerConstants DEF TypeOK, IsStorageMap, AssetIds
  <2>2. \A i \in DOMAIN registeredAssetId : registeredAssetId[i] \in Nat
    BY LedgerConstants DEF TypeOK, IsStorageMap, AssetIds
  <2> QED BY <1>1, <2>1, <2>2 DEF RegistryInv, IdsWereTaken, Put
<1>9. IdentifiersDiffer'
  BY DEF RegistryInv, IdentifiersDiffer
<1>10. LocationsPointBack'
  BY <1>3, <1>4 DEF RegistryInv, LocationsPointBack, Put
<1>11. IdsPointBack'
  BY <1>3, <1>4 DEF RegistryInv, IdsPointBack, Put
<1>12. FungiblesExist'
  BY <1>2 DEF RegistryInv, FungiblesExist, Exists, Put
<1>13. NotYetCounted'
  BY DEF NotYetCounted, Migrated
<1>14. ASSUME NEW para \in ParaId \ {OwnPara}
       PROVE  Counts(allowedDestParaIds', para, FromPara(para)')
  <2>1. FromPara(para)' = IF ParaOf[location] = para
                          THEN FromPara(para) \cup {nextAssetId} ELSE FromPara(para)
    BY <1>4 DEF FromPara, Put
  <2>2. CountsAreExact /\ Migrated
    BY DEF RegistryInv
  <2>3. nextAssetId \notin FromPara(para)
    BY <1>4 DEF FromPara
  <2>4. /\ Counts(allowedDestParaIds, para, FromPara(para))
        /\ IsFiniteSet(FromPara(para)) /\ para # NoPara
    BY <2>2, CountOne
  <2>5. Counts(IncreaseCount(allowedDestParaIds, ParaOf[location]), para,
               IF ParaOf[location] = para THEN FromPara(para) \cup {nextAssetId} ELSE FromPara(para))
    BY <2>3, <2>4, IncreaseCounts
  <2> QED BY <2>1, <2>5
<1>15. CountsAreExact'
  BY <1>14 DEF CountsAreExact, Counts
<1> QED BY <1>7, <1>8, <1>9, <1>10, <1>11, <1>12, <1>13, <1>15 DEF RegistryInv

\* update_asset_location: the asset leaves one location, that nobody else has, for a free one.
LEMMA UpdateAssetLocationKeepsInv ==
    ASSUME TypeOK, RegistryInv, NEW id \in AssetIds, NEW location \in Foreign,
           UpdateAssetLocation(id, location)
    PROVE  TypeOK' /\ RegistryInv'
<1> USE DEF UpdateAssetLocation
<1> DEFINE old == assetIdLocation[id]
           from == ParaOf[old]
           to == ParaOf[location]
           fewer == DecreaseCount(allowedDestParaIds, from)
<1>1. old \in Location /\ from \in ParaId \cup {NoPara}
      /\ location \in Location /\ to \in ParaId \cup {NoPara}
  BY RegistryConstants DEF TypeOK, IsStorageMap
<1>2. location \notin DOMAIN locationAssetId /\ id \in DOMAIN assetIdLocation
  OBVIOUS
<1> HIDE DEF old
<1>3. /\ IsStorageMap(assetIdLocation', AssetIds, Location)
      /\ DOMAIN assetIdLocation' = DOMAIN assetIdLocation
  BY <1>1, <1>2 DEF TypeOK, IsStorageMap, Put
<1>4. IsStorageMap(locationAssetId', Location, AssetIds)
  BY <1>1, PutStorage, DropStorage DEF TypeOK, Moved
<1> HIDE DEF from, to
<1>5. IsStorageMap(fewer, ParaId, Nat \ {0})
  <2>1. CASE from = NoPara
    BY <2>1 DEF DecreaseCount, TypeOK
  <2>2. CASE from # NoPara /\ (from \notin DOMAIN allowedDestParaIds \/ allowedDestParaIds[from] <= 1)
    BY <2>2, DropStorage DEF DecreaseCount, TypeOK
  <2>3. CASE from # NoPara /\ ~(from \notin DOMAIN allowedDestParaIds \/ allowedDestParaIds[from] <= 1)
    <3>1. allowedDestParaIds[from] - 1 \in Nat \ {0} /\ from \in ParaId
      BY <1>1, <2>3 DEF TypeOK, IsStorageMap
    <3>2. fewer = Put(allowedDestParaIds, from, allowedDestParaIds[from] - 1)
      BY <2>3 DEF DecreaseCount
    <3> HIDE DEF fewer
    <3> QED BY <3>1, <3>2, PutStorage DEF TypeOK
  <2> QED BY <2>1, <2>2, <2>3
<1>6. allowedDestParaIds' = IncreaseCount(fewer, to)
  BY DEF from, to, old
<1> HIDE DEF fewer
<1>7. IsStorageMap(allowedDestParaIds', ParaId, Nat \ {0})
  <2>1. CASE to = NoPara
    BY <1>5, <1>6, <2>1 DEF IncreaseCount
  <2>2. CASE to # NoPara
    <3> DEFINE n == IF to \in DOMAIN fewer THEN fewer[to] + 1 ELSE 1
    <3>1. to \in ParaId /\ n \in Nat \ {0}
      BY <1>1, <1>5, <2>2 DEF IsStorageMap
    <3>2. allowedDestParaIds' = Put(fewer, to, n)
      BY <1>6, <2>2 DEF IncreaseCount
    <3> HIDE DEF n
    <3> QED BY <1>5, <3>1, <3>2 DEF IsStorageMap, Put
  <2> QED BY <2>1, <2>2
<1>8. TypeOK'
  BY <1>3, <1>4, <1>7 DEF TypeOK, identities
<1>9. IdsWereTaken' /\ IdentifiersDiffer' /\ FungiblesExist'
  BY <1>3 DEF RegistryInv, IdsWereTaken, IdentifiersDiffer, FungiblesExist, Exists, identities
<1>10. LocationsPointBack'
  BY <1>2 DEF RegistryInv, LocationsPointBack, Moved, Put, Drop
<1>11. IdsPointBack'
  BY <1>2 DEF RegistryInv, IdsPointBack, Moved, Put, Drop
<1>12. NotYetCounted'
  BY DEF NotYetCounted, Migrated
<1>13. ASSUME NEW para \in ParaId \ {OwnPara}
       PROVE  Counts(allowedDestParaIds', para, FromPara(para)')
  <2>1. CountsAreExact /\ Migrated
    BY DEF RegistryInv
  <2>2. from = para <=> id \in FromPara(para)
    BY <1>2 DEF FromPara, from, old
  <2>3. Counts(fewer, para, FromPara(para) \ {id})
    BY <2>1, <2>2, CountOne, DecreaseCounts DEF fewer
  <2>4. IsFiniteSet(FromPara(para) \ {id})
    BY <2>1, CountOne, FS_RemoveElement
  <2>5. FromPara(para)' = IF to = para THEN (FromPara(para) \ {id}) \cup {id}
                          ELSE FromPara(para) \ {id}
    BY <1>2 DEF FromPara, Put, to
  <2>6. id \notin FromPara(para) \ {id} /\ para # NoPara
    BY RegistryConstants
  <2> DEFINE others == FromPara(para) \ {id}
  <2> HIDE DEF others
  <2>7. Counts(IncreaseCount(fewer, to), para, IF to = para THEN others \cup {id} ELSE others)
    BY <2>3, <2>4, <2>6, IncreaseCounts DEF others
  <2> QED BY <1>6, <2>5, <2>7 DEF others
<1>14. CountsAreExact'
  BY <1>13 DEF CountsAreExact, Counts
<1> QED BY <1>8, <1>9, <1>10, <1>11, <1>12, <1>14 DEF RegistryInv

\* force_update_asset_metadata: pallet_assets refuses to describe an asset it does not know.
LEMMA ForceUpdateAssetMetadataKeepsInv ==
    ASSUME TypeOK, RegistryInv, NEW id \in AssetIds, NEW meta \in Metadata,
           ForceUpdateAssetMetadata(id, meta)
    PROVE  TypeOK' /\ RegistryInv'
<1> USE DEF ForceUpdateAssetMetadata, locations
<1>1. IsStorageMap(assetIdMetadata', AssetIds, Metadata \cup {NativeMetadata})
  BY PutStorage DEF TypeOK
<1>2. TypeOK'
  BY <1>1 DEF TypeOK
<1>3. IdsWereTaken' /\ IdentifiersDiffer' /\ LocationsPointBack' /\ IdsPointBack'
  BY DEF RegistryInv, IdsWereTaken, IdentifiersDiffer, LocationsPointBack, IdsPointBack
<1>4. NotYetCounted' /\ CountsAreExact'
  BY DEF RegistryInv, NotYetCounted, CountsAreExact, FromPara, Migrated
<1>5. FungiblesExist'
  BY DEF RegistryInv, FungiblesExist, Exists, UpdatesMetadata, Put
<1> QED BY <1>2, <1>3, <1>4, <1>5 DEF RegistryInv

\* set_units_per_second.
LEMMA SetUnitsPerSecondKeepsInv ==
    ASSUME TypeOK, RegistryInv, NEW id \in AssetIds, NEW rate \in Rate,
           SetUnitsPerSecond(id, rate)
    PROVE  TypeOK' /\ RegistryInv'
<1> USE DEF SetUnitsPerSecond, locations, identities
<1>1. IsStorageMap(unitsPerSecond', AssetIds, Rate)
  BY PutStorage DEF TypeOK
<1>2. TypeOK'
  BY <1>1 DEF TypeOK
<1>3. IdsWereTaken' /\ IdentifiersDiffer' /\ LocationsPointBack' /\ IdsPointBack'
  BY DEF RegistryInv, IdsWereTaken, IdentifiersDiffer, LocationsPointBack, IdsPointBack
<1>4. NotYetCounted' /\ CountsAreExact' /\ FungiblesExist'
  BY DEF RegistryInv, NotYetCounted, CountsAreExact, FromPara, Migrated, FungiblesExist, Exists
<1> QED BY <1>2, <1>3, <1>4 DEF RegistryInv

\* The migration counts locations; there is one for every asset of another parachain.
LEMMA RuntimeUpgradeKeepsInv ==
    ASSUME TypeOK, RegistryInv, RuntimeUpgrade
    PROVE  TypeOK' /\ RegistryInv'
<1> USE DEF RuntimeUpgrade, identities
<1>1. CASE Migrated
  <2>1. storageVersion \in Nat /\ ~(storageVersion < 1)
    BY <1>1 DEF TypeOK, Migrated
  <2>2. UNCHANGED registry /\ LedgerStep
    BY <2>1 DEF registry, locations, LedgerStep, TypeOK
  <2> QED BY <2>2, LedgerStepKeepsInv
<1>2. CASE ~Migrated
  <2> DEFINE paras == {ParaOf[l] : l \in DOMAIN locationAssetId} \ {NoPara, OwnPara}
             At(para) == {l \in DOMAIN locationAssetId : ParaOf[l] = para}
  <2>1. storageVersion < 1 /\ allowedDestParaIds = NoEntries
    BY <1>2 DEF TypeOK, Migrated, RegistryInv, NotYetCounted
  <2>2. allowedDestParaIds' =
          [para \in paras |-> Counted(para) + (IF para \in DOMAIN allowedDestParaIds
                                               THEN allowedDestParaIds[para] ELSE 0)]
        /\ storageVersion' = 1
    BY <2>1
  <2>3. DOMAIN locationAssetId \subseteq Location /\ paras \subseteq ParaId
    BY RegistryConstants DEF TypeOK, IsStorageMap
  <2>4. ASSUME NEW para \in ParaId \ {OwnPara}
        PROVE  /\ IsFiniteSet(At(para))
               /\ Cardinality(At(para)) = Cardinality(FromPara(para))
               /\ At(para) = {} <=> FromPara(para) = {}
    <3> DEFINE back == [id \in FromPara(para) |-> assetIdLocation[id]]
    <3>1. IsFiniteSet(FromPara(para))
      <4>1. FromPara(para) \subseteq AssetIds
        BY DEF FromPara, TypeOK, IsStorageMap
      <4> QED BY <4>1, FromParaIsFinite
    <3>2. back \in [FromPara(para) -> At(para)]
      BY DEF RegistryInv, IdsPointBack, FromPara
    <3>3. \A i, j \in FromPara(para) : back[i] = back[j] => i = j
      BY DEF RegistryInv, IdsPointBack, FromPara
    <3>4. \A l \in At(para) : \E id \in FromPara(para) : back[id] = l
      BY DEF RegistryInv, LocationsPointBack, FromPara
    <3>5. At(para) = {} <=> FromPara(para) = {}
      BY <3>2, <3>4
    <3> HIDE DEF back, At
    <3>6. back \in Bijection(FromPara(para), At(para))
      <4>1. DOMAIN back = FromPara(para)
        BY <3>2
      <4> QED BY <3>2, <3>3, <3>4, <4>1, Zenon DEF Bijection, Injection, IsInjective, Surjection
    <3>7. ExistsBijection(FromPara(para), At(para))
      BY <3>6 DEF ExistsBijection
    <3> QED BY <3>1, <3>5, <3>7, FS_Bijection
  <2>5. ASSUME NEW para \in ParaId \ {OwnPara}
        PROVE  /\ para \in paras <=> FromPara(para) # {}
               /\ para \in paras => allowedDestParaIds'[para] = Cardinality(FromPara(para))
    <3>1. para # NoPara
      BY RegistryConstants
    <3>2. para \in paras <=> At(para) # {}
      BY <3>1
    <3>3. Counted(para) = Cardinality(FromPara(para)) /\ Cardinality(At(para)) \in Nat
      BY <2>4, FS_CardinalityType DEF Counted
    <3>4. para \in paras => allowedDestParaIds'[para] = Counted(para) + 0
      BY <2>1, <2>2 DEF NoEntries
    <3>5. /\ Cardinality(At(para)) = Cardinality(FromPara(para))
          /\ At(para) = {} <=> FromPara(para) = {}
      BY <2>4
    <3> HIDE DEF At, paras
    <3> QED BY <3>2, <3>3, <3>4, <3>5
  <2>6. CountsAreExact'
    <3>1. \A para : FromPara(para)' = FromPara(para)
      BY DEF FromPara
    <3> QED BY <2>2, <2>5, <3>1 DEF CountsAreExact
  <2>7. IsStorageMap(allowedDestParaIds', ParaId, Nat \ {0})
    <3>1. ASSUME NEW para \in paras PROVE allowedDestParaIds'[para] \in Nat \ {0}
      <4>1. para \in ParaId \ {OwnPara}
        BY <2>3
      <4>2. FromPara(para) # {} /\ allowedDestParaIds'[para] = Cardinality(FromPara(para))
        BY <2>5, <4>1
      <4>3. IsFiniteSet(At(para)) /\ At(para) # {}
            /\ Cardinality(At(para)) = Cardinality(FromPara(para))
        BY <2>4, <4>1, <4>2
      <4>4. Cardinality(At(para)) \in Nat /\ Cardinality(At(para)) # 0
        BY <4>3, FS_CardinalityType, FS_EmptySet
      <4> QED BY <4>2, <4>3, <4>4
    <3> HIDE DEF paras
    <3>2. DOMAIN allowedDestParaIds' = paras
      BY <2>2
    <3> QED BY <2>2, <2>3, <3>1, <3>2 DEF IsStorageMap
  <2>8. TypeOK'
    BY <2>2, <2>7 DEF TypeOK
  <2>9. IdsWereTaken' /\ IdentifiersDiffer' /\ LocationsPointBack' /\ IdsPointBack'
    BY DEF RegistryInv, IdsWereTaken, IdentifiersDiffer, LocationsPointBack, IdsPointBack
  <2>10. FungiblesExist' /\ NotYetCounted'
    BY <2>2 DEF RegistryInv, FungiblesExist, Exists, NotYetCounted, Migrated
  <2> QED BY <2>6, <2>8, <2>9, <2>10 DEF RegistryInv
<1> QED BY <1>1, <1>2

-----------------------------------------------------------------------------
(* The invariant *)

\* A chain starts with the native asset, and one from before the counts with the assets
\* governance had registered, each at a location of its own.
LEMMA InitWithInv ==
    ASSUME NEW old, NEW meta, NEW version \in 0 .. 2,
           IsStorageMap(old, StartId .. MaxId, Foreign),
           IsFiniteSet(DOMAIN old), StartId + Cardinality(DOMAIN old) <= MaxId + 1,
           \A id \in DOMAIN old : id < StartId + Cardinality(DOMAIN old),
           \A i, j \in DOMAIN old : old[i] = old[j] => i = j,
           version >= 1 => DOMAIN old = {},
           meta \in Metadata \cup {NativeMetadata},
           InitWith(old, meta, version)
    PROVE  TypeOK /\ RegistryInv
<1> DEFINE ids == Put(old, NativeId, NativeLocation)
<1>1. /\ NativeId \in AssetIds /\ NativeId \notin DOMAIN old
      /\ NativeLocation \in Location /\ Foreign \subseteq Location \ {NativeLocation}
      /\ StartId .. MaxId \subseteq AssetIds
  BY LedgerConstants, RegistryConstants DEF AssetIds, IsStorageMap
<1>2. Cardinality(DOMAIN old) \in Nat
  BY FS_CardinalityType
<1>3. /\ assetIdLocation = ids
      /\ locationAssetId = [l \in {ids[id] : id \in DOMAIN ids} |-> IdAt(ids, l)]
      /\ allowedDestParaIds = NoEntries
      /\ assetIdMetadata = [id \in DOMAIN ids |-> IF id = NativeId THEN NativeMetadata ELSE meta]
      /\ registeredAssetId = NoEntries
      /\ nextAssetId = StartId + Cardinality(DOMAIN old)
      /\ unitsPerSecond = NoEntries
      /\ storageVersion = version
      /\ ledger = [EmptyLedger EXCEPT !.issued = DOMAIN old]
  BY DEF InitWith
<1>4. /\ DOMAIN ids = DOMAIN old \cup {NativeId}
      /\ ids[NativeId] = NativeLocation
      /\ \A id \in DOMAIN old : ids[id] = old[id] /\ ids[id] \in Foreign
  BY <1>1 DEF Put, IsStorageMap
<1>5. IsStorageMap(ids, AssetIds, Location)
  BY <1>1 DEF Put, IsStorageMap
<1>6. \A i, j \in DOMAIN ids : ids[i] = ids[j] => i = j
  BY <1>1, <1>4
<1> HIDE DEF ids
<1>7. ASSUME NEW id \in DOMAIN ids PROVE IdAt(ids, ids[id]) = id
  BY <1>6 DEF IdAt
<1>8. /\ \A l \in DOMAIN locationAssetId :
            locationAssetId[l] \in DOMAIN ids /\ ids[locationAssetId[l]] = l
      /\ \A id \in DOMAIN ids :
            ids[id] \in DOMAIN locationAssetId /\ locationAssetId[ids[id]] = id
  BY <1>3, <1>7
<1>9. TypeOK
  <2>1. IsStorageMap(locationAssetId, Location, AssetIds)
    <3>1. \A id \in DOMAIN ids : id \in AssetIds /\ ids[id] \in Location
      BY <1>5 DEF IsStorageMap
    <3>2. DOMAIN locationAssetId = {ids[id] : id \in DOMAIN ids}
          /\ locationAssetId = [l \in DOMAIN locationAssetId |-> locationAssetId[l]]
      BY <1>3
    <3>3. DOMAIN locationAssetId \subseteq Location
      BY <3>1, <3>2
    <3>4. \A l \in DOMAIN locationAssetId : locationAssetId[l] \in AssetIds
      BY <1>8, <3>1
    <3> QED BY <3>2, <3>3, <3>4 DEF IsStorageMap
  <2>2. IsStorageMap(assetIdMetadata, AssetIds, Metadata \cup {NativeMetadata})
    BY <1>3, <1>5 DEF IsStorageMap
  <2>3. /\ IsStorageMap(registeredAssetId, Identifiers, AssetIds)
        /\ IsStorageMap(unitsPerSecond, AssetIds, Rate)
        /\ IsStorageMap(allowedDestParaIds, ParaId, Nat \ {0})
    BY <1>3 DEF IsStorageMap, NoEntries
  <2>4. nextAssetId \in StartId .. (MaxId + 1)
    BY <1>2, <1>3, LedgerConstants
  <2>5. ledger \in Ledger
    <3>1. DOMAIN old \subseteq AssetIds
      BY <1>1 DEF IsStorageMap
    <3> QED BY <1>3, <3>1 DEF EmptyLedger, Ledger
  <2> QED BY <1>3, <1>5, <2>1, <2>2, <2>3, <2>4, <2>5 DEF TypeOK
<1>10. IdsWereTaken
  <2>1. NativeId < StartId + Cardinality(DOMAIN old)
    BY <1>2, LedgerConstants
  <2> QED BY <1>3, <1>4, <2>1 DEF IdsWereTaken, NoEntries
<1>11. IdentifiersDiffer
  BY <1>3 DEF IdentifiersDiffer, NoEntries
<1>12. LocationsPointBack /\ IdsPointBack
  BY <1>3, <1>8 DEF LocationsPointBack, IdsPointBack
<1>13. FungiblesExist
  <2>1. ledger.issued = DOMAIN old
    BY <1>3 DEF EmptyLedger
  <2> QED BY <1>3, <1>4, <2>1 DEF FungiblesExist, Exists
<1>14. NotYetCounted /\ CountsAreExact
  <2>1. CASE ~Migrated
    BY <1>3, <2>1 DEF NotYetCounted, CountsAreExact
  <2>2. CASE Migrated
    <3>1. DOMAIN ids = {NativeId}
      BY <1>3, <1>4, <2>2 DEF Migrated
    <3>2. \A para \in ParaId \ {OwnPara} : FromPara(para) = {}
      BY <1>3, <1>4, <3>1, RegistryConstants DEF FromPara
    <3> QED BY <1>3, <2>2, <3>2 DEF NotYetCounted, CountsAreExact, NoEntries
  <2> QED BY <2>1, <2>2
<1> QED BY <1>9, <1>10, <1>11, <1>12, <1>13, <1>14 DEF RegistryInv

LEMMA InitInv == InitExecution => IInv
<1> SUFFICES ASSUME InitExecution PROVE IInv
  OBVIOUS
<1>1. MessageOK
  BY ExecutionConstants, RegistryConstants
     DEF InitExecution, MessageOK, Message, NoMessage, Chain, Nowhere, NoFees, Fees
<1>2. CASE InitWith(NoEntries, NativeMetadata, 2)
  <2>1. DOMAIN NoEntries = {} /\ IsFiniteSet(DOMAIN NoEntries) /\ Cardinality(DOMAIN NoEntries) = 0
    BY FS_EmptySet DEF NoEntries
  <2>2. StartId + 0 <= MaxId + 1
    <3>1. Cardinality(OldLocations) \in Nat /\ StartId + Cardinality(OldLocations) <= MaxId + 1
      BY RegistryConstants, FS_CardinalityType
    <3> QED BY <3>1, LedgerConstants
  <2>3. IsStorageMap(NoEntries, StartId .. MaxId, Foreign)
    BY <2>1 DEF IsStorageMap
  <2> QED BY <1>1, <1>2, <2>1, <2>2, <2>3, InitWithInv DEF IInv
<1>3. ASSUME NEW old \in OldAssets, NEW meta \in Metadata, InitWith(old, meta, 0) PROVE IInv
  <2> DEFINE n == Cardinality(OldLocations)
             span == StartId .. (StartId + n - 1)
  <2>1. n \in Nat /\ StartId + n <= MaxId + 1 /\ OldLocations \subseteq Foreign
    BY RegistryConstants, FS_CardinalityType
  <2>2. old \in [span -> OldLocations] /\ \A i, j \in DOMAIN old : old[i] = old[j] => i = j
    BY DEF OldAssets
  <2> HIDE DEF n
  <2>3. IsFiniteSet(span) /\ Cardinality(span) = n
    <3>1. StartId \in Int /\ StartId + n - 1 \in Int
      BY <2>1, LedgerConstants
    <3>2. \A b \in Int :
            /\ IsFiniteSet(StartId .. b)
            /\ Cardinality(StartId .. b) = IF StartId > b THEN 0 ELSE b - StartId + 1
      BY <3>1, FS_Interval
    <3> QED BY <2>1, <3>1, <3>2, LedgerConstants
  <2>4. span \subseteq StartId .. MaxId /\ \A id \in span : id < StartId + n
    BY <2>1, LedgerConstants
  <2> HIDE DEF span
  <2>5. DOMAIN old = span
    BY <2>2
  <2>6. IsStorageMap(old, StartId .. MaxId, Foreign)
    BY <2>1, <2>2, <2>4, <2>5 DEF IsStorageMap
  <2> QED BY <1>1, <1>3, <2>1, <2>2, <2>3, <2>4, <2>5, <2>6, InitWithInv DEF IInv
<1> QED BY <1>2, <1>3 DEF InitExecution, Init

LEMMA NextInv == IInv /\ [Next]_vars => IInv'
<1> SUFFICES ASSUME IInv, [Next]_vars PROVE IInv'
  OBVIOUS
<1> USE DEF IInv
<1>1. CASE UNCHANGED vars
  <2>1. UNCHANGED registry /\ LedgerStep /\ MessageOK'
    BY <1>1 DEF vars, LedgerStep, TypeOK, MessageOK
  <2> QED BY <2>1, LedgerStepKeepsInv
<1>2. CASE ExecutionStep
  BY <1>2, ExecutionSteps, LedgerStepKeepsInv
<1>3. CASE RuntimeUpgrade /\ UNCHANGED message
  <2>1. MessageOK'
    BY <1>3 DEF MessageOK
  <2> QED BY <1>3, <2>1, RuntimeUpgradeKeepsInv
<1>4. CASE RegistryCall /\ UNCHANGED message
  <2>1. MessageOK'
    BY <1>4 DEF MessageOK
  <2>2. TypeOK' /\ RegistryInv'
    BY <1>4, RegisterAssetKeepsInv, ForceRegisterAssetKeepsInv, UpdateAssetLocationKeepsInv,
       ForceUpdateAssetMetadataKeepsInv, SetUnitsPerSecondKeepsInv, RegistryConstants
       DEF RegistryCall
  <2> QED BY <2>1, <2>2
<1> QED BY <1>1, <1>2, <1>3, <1>4 DEF Next, ExecutionStep

LEMMA InvHolds == Spec => []IInv
BY InitInv, NextInv, PTL DEF Spec

-----------------------------------------------------------------------------
(* The theorems *)

\* Every map of the registry keeps its type: no id is handed out beyond the bound, no count
\* of zero keeps a parachain open as a destination, and no balance is below nothing.
THEOREM RegistryTypeCorrect == Spec => []TypeOK
<1>1. IInv => TypeOK
  BY DEF IInv
<1> QED BY <1>1, InvHolds, PTL

\* Locations lead to the assets that have them and the destinations allowed are the
\* parachains assets come from, counted exactly, from every start and after every move.
THEOREM RegistryStaysInAgreement == Spec => []RegistryAgrees
<1>1. IInv => RegistryAgrees
  BY DEF IInv, RegistryInv, RegistryAgrees
<1> QED BY <1>1, InvHolds, PTL

\* The registry never calls an asset fungible that pallet_assets does not know.
THEOREM FungiblesStayKnown == Spec => []FungiblesExist
<1>1. IInv => FungiblesExist
  BY DEF IInv, RegistryInv
<1> QED BY <1>1, InvHolds, PTL

\* An identifier given to an asset is never given to another, nor taken away.
THEOREM IdentifiersStayForEver == Spec => IdentifiersAreForEver
<1> DEFINE Kept ==
        \A i \in DOMAIN registeredAssetId :
            /\ i \in DOMAIN registeredAssetId'
            /\ registeredAssetId'[i] = registeredAssetId[i]
            /\ \A j \in DOMAIN registeredAssetId' :
                registeredAssetId'[j] = registeredAssetId[i] => i = j
<1>1. ASSUME IInv, [Next]_vars PROVE [Kept]_vars
  <2>1. CASE registeredAssetId' = registeredAssetId
    BY <1>1, <2>1 DEF IInv, RegistryInv, IdentifiersDiffer
  <2>2. ASSUME NEW meta \in Metadata, RegisterAsset(meta) PROVE Kept
    <3>1. \A i \in DOMAIN registeredAssetId : registeredAssetId[i] # nextAssetId
      <4>1. nextAssetId \in Nat
        BY <1>1, LedgerConstants DEF IInv, TypeOK
      <4> QED BY <1>1, <4>1 DEF IInv, RegistryInv, IdsWereTaken
    <3> QED BY <1>1, <2>2, <3>1
            DEF IInv, RegistryInv, IdentifiersDiffer, RegisterAsset, RegistersFirst, Put
  <2>3. registeredAssetId' = registeredAssetId \/ \E meta \in Metadata : RegisterAsset(meta)
    <3>1. CASE UNCHANGED vars
      BY <3>1 DEF vars, registry, identities
    <3>2. CASE ExecutionStep
      <4>1. UNCHANGED registry
        BY <1>1, <3>2, ExecutionSteps DEF IInv
      <4> QED BY <4>1 DEF registry, identities
    <3>3. CASE RuntimeUpgrade
      BY <3>3 DEF RuntimeUpgrade, identities
    <3>4. CASE RegistryCall
      BY <3>4 DEF RegistryCall, ForceRegisterAsset, UpdateAssetLocation,
                  ForceUpdateAssetMetadata, SetUnitsPerSecond, identities
    <3> QED BY <1>1, <3>1, <3>2, <3>3, <3>4 DEF Next, ExecutionStep
  <2> QED BY <2>1, <2>2, <2>3
<1>2. Spec => [][Kept]_vars
  BY <1>1, InvHolds, PTL DEF Spec
<1> QED BY <1>2 DEF IdentifiersAreForEver

-----------------------------------------------------------------------------
(* Prices *)

\* A quotient is the greatest whole number of times the divisor fits.
LEMMA Quotient ==
    ASSUME NEW x \in Nat
    PROVE  LET q == x \div WeightPerSecond IN
           q \in Nat /\ WeightPerSecond * q <= x /\ x < WeightPerSecond * q + WeightPerSecond
BY ExecutionConstants

\* A multiple within one divisor of another is not greater.
LEMMA FitsWithin ==
    ASSUME NEW p \in Nat, NEW q \in Nat,
           WeightPerSecond * p < WeightPerSecond * q + WeightPerSecond
    PROVE  p <= q
<1> DEFINE W == WeightPerSecond
<1>1. W \in Nat \ {0}
  BY ExecutionConstants
<1> HIDE DEF W
<1>2. SUFFICES ASSUME p >= q + 1 PROVE FALSE
  OBVIOUS
<1>3. W * p >= W * (q + 1)
  BY <1>1, <1>2
<1>4. W * (q + 1) = W * q + W
  BY <1>1
<1>5. W * p \in Nat /\ W * q \in Nat
  BY <1>1
<1>6. W * p < W * q + W
  BY DEF W
<1> QED BY <1>1, <1>3, <1>4, <1>5, <1>6

\* Weight bought or given back in parts is never worth more than at once: every part is
\* rounded down.
LEMMA PartsCostLess ==
    ASSUME NEW rate \in Nat, NEW a \in Nat, NEW b \in Nat
    PROVE  Price(rate, a) + Price(rate, b) <= Price(rate, a + b)
<1> DEFINE W == WeightPerSecond
           x == rate * a
           y == rate * b
           p == x \div W
           q == y \div W
           r == (x + y) \div W
<1>1. x \in Nat /\ y \in Nat /\ rate * (a + b) = x + y
  OBVIOUS
<1>2. W \in Nat
  BY ExecutionConstants
<1> HIDE DEF x, y
<1>3. /\ p \in Nat /\ W * p <= x
      /\ q \in Nat /\ W * q <= y
      /\ r \in Nat /\ x + y < W * r + W
  BY <1>1, Quotient
<1>4. Price(rate, a) = p /\ Price(rate, b) = q /\ Price(rate, a + b) = r
  BY <1>1 DEF Price, x, y
<1> HIDE DEF p, q, r, W
<1>5. W * (p + q) = W * p + W * q
  BY <1>2, <1>3
<1>6. W * p \in Nat /\ W * q \in Nat /\ W * r \in Nat
  BY <1>2, <1>3
<1>7. W * (p + q) < W * r + W
  BY <1>1, <1>2, <1>3, <1>5, <1>6
<1>8. p + q <= r
  BY <1>3, <1>7, FitsWithin DEF W
<1> QED BY <1>4, <1>8

-----------------------------------------------------------------------------
(* The units of an asset: in accounts, in the holding register and in fees *)

\* the locations under which a message finds an asset
NamesOf(id) == {l \in Location : Matches(l) /\ AssetAt(l) = id}

\* the units of the asset in a holding register
Stock(holding, id) == SumOf([l \in NamesOf(id) |-> holding[l]])

\* the fees kept of the asset
FeesOf(m, id) ==
    IF m.pays /\ locationAssetId[m.cache.location] = id THEN m.cache.amount ELSE 0

\* An asset has one location at most, besides the native one.
LEMMA NamesAreFew ==
    ASSUME TypeOK, RegistryInv, NEW id PROVE IsFiniteSet(NamesOf(id))
<1> DEFINE few == {NativeLocation} \cup {assetIdLocation[id]}
<1>1. IsFiniteSet(few)
  BY FS_Singleton, FS_Union
<1>2. NamesOf(id) \subseteq few
  BY DEF NamesOf, Matches, AssetAt, IsNative, RegistryInv, LocationsPointBack
<1> QED BY <1>1, <1>2, FS_Subset

\* The units of an asset in a register are counted.
LEMMA StockInNat ==
    ASSUME TypeOK, RegistryInv, NEW id, NEW h \in [Location -> Nat]
    PROVE  Stock(h, id) \in Nat
<1> DEFINE f == [l \in NamesOf(id) |-> h[l]]
<1>1. IsFiniteSet(NamesOf(id)) /\ NamesOf(id) \subseteq Location
  BY NamesAreFew DEF NamesOf
<1>2. DOMAIN f = NamesOf(id) /\ f \in [DOMAIN f -> Nat]
  BY <1>1
<1> HIDE DEF f
<1>3. SumOf(f) \in Nat
  BY <1>1, <1>2, SumInNat
<1> QED BY <1>3 DEF Stock, f

\* a holding register with so many units under a location
Entry(h, l, v) == [h EXCEPT ![l] = v]

\* What goes into the register under one location counts for the asset of that name.
LEMMA StockMore ==
    ASSUME TypeOK, RegistryInv, NEW id, NEW h \in [Location -> Nat], NEW l \in Location,
           NEW v \in Nat
    PROVE  /\ Stock(Entry(h, l, v), id) \in Nat /\ Stock(h, id) \in Nat /\ h[l] \in Nat
           /\ l \in NamesOf(id) => Stock(Entry(h, l, v), id) + h[l] = Stock(h, id) + v
           /\ l \notin NamesOf(id) => Stock(Entry(h, l, v), id) = Stock(h, id)
<1> DEFINE g == Entry(h, l, v)
           N == NamesOf(id)
           f == [x \in N |-> h[x]]
           e == [x \in N |-> g[x]]
<1>0. g = [h EXCEPT ![l] = v]
  BY DEF Entry
<1> HIDE DEF g
<1>1. IsFiniteSet(N) /\ N \subseteq Location
  BY NamesAreFew DEF NamesOf
<1>2. g \in [Location -> Nat] /\ h[l] \in Nat
  BY <1>0
<1>3. Stock(g, id) \in Nat /\ Stock(h, id) \in Nat
  BY <1>2, StockInNat
<1>4. Stock(h, id) = SumOf(f) /\ Stock(g, id) = SumOf(e)
  BY DEF Stock
<1> HIDE DEF N
<1>5. DOMAIN f = N /\ f \in [DOMAIN f -> Nat]
  BY <1>1
<1>6. CASE l \in N
  <2>1. e = Put(f, l, v) /\ f[l] = h[l]
    BY <1>0, <1>1, <1>6 DEF Put
  <2>2. l \in DOMAIN f
    BY <1>5, <1>6
  <2> HIDE DEF f, e
  <2>3. SumOf(Put(f, l, v)) + f[l] = SumOf(f) + v
    BY <1>1, <1>5, <2>2, SumOfPutOld
  <2> QED BY <1>2, <1>3, <1>4, <1>6, <2>1, <2>3 DEF N, g
<1>7. CASE l \notin N
  <2>1. e = f
    BY <1>0, <1>1, <1>7
  <2> QED BY <1>2, <1>3, <1>4, <1>7, <2>1 DEF N, g
<1> QED BY <1>6, <1>7

\* One balance is written: the units in accounts change by that much.
LEMMA AccountsWritten ==
    ASSUME NEW l \in Ledger, NEW id \in AssetIds, NEW who \in Account, NEW n \in Nat,
           NEW new, new = [l EXCEPT !.balances[id][who] = n]
    PROVE  /\ InAccounts(l, id) \in Nat /\ InAccounts(new, id) \in Nat
           /\ InAccounts(new, id) + l.balances[id][who] = InAccounts(l, id) + n
           /\ \A x \in AssetIds : x # id => InAccounts(new, x) = InAccounts(l, x)
<1> DEFINE f == l.balances[id]
           g == new.balances[id]
<1>1. l.balances \in [AssetIds -> [Account -> Nat]]
  BY DEF Ledger
<1>2. DOMAIN f = Account /\ f \in [DOMAIN f -> Nat] /\ IsFiniteSet(Account)
  BY <1>1, LedgerConstants
<1>3. new.balances = [l.balances EXCEPT ![id] = [f EXCEPT ![who] = n]]
  BY DEF Ledger
<1>4. g = [f EXCEPT ![who] = n] /\ \A x \in AssetIds : x # id => new.balances[x] = l.balances[x]
  BY <1>1, <1>3
<1>5. g = Put(f, who, n)
  BY <1>2, <1>4 DEF Put
<1>6. InAccounts(l, id) = SumOf(f) /\ InAccounts(new, id) = SumOf(g)
  BY DEF InAccounts
<1>7. \A x \in AssetIds : x # id => InAccounts(new, x) = InAccounts(l, x)
  BY <1>4 DEF InAccounts
<1>8. f[who] \in Nat /\ g \in [Account -> Nat] /\ DOMAIN g = Account
  BY <1>2, <1>4
<1> HIDE DEF f, g
<1>9. SumOf(Put(f, who, n)) + f[who] = SumOf(f) + n /\ SumOf(f) \in Nat /\ SumOf(g) \in Nat
  BY <1>2, <1>8, SumOfPutOld, SumInNat
<1> QED BY <1>5, <1>6, <1>7, <1>9 DEF f

\* A deposit adds units of its asset, and a withdrawal takes at least as many as it says:
\* what is left below the minimum dies with the account.
LEMMA DepositedUnits ==
    ASSUME NEW l \in Ledger, NEW id \in AssetIds, NEW who \in Account, NEW amount \in Nat
    PROVE  LET new == Deposited(l, id, who, amount) IN
           /\ InAccounts(l, id) \in Nat
           /\ InAccounts(new, id) = InAccounts(l, id) + amount
           /\ \A x \in AssetIds : x # id => InAccounts(new, x) = InAccounts(l, x)
<1> DEFINE old == l.balances[id][who]
           n == old + amount
           new == Deposited(l, id, who, amount)
<1>1. old \in Nat /\ n \in Nat
  BY BalanceInNat
<1>2. new = [l EXCEPT !.balances[id][who] = n]
  BY DEF Deposited, Credit
<1> HIDE DEF n, new
<1>3. /\ InAccounts(l, id) \in Nat /\ InAccounts(new, id) \in Nat
      /\ InAccounts(new, id) + old = InAccounts(l, id) + n
      /\ \A x \in AssetIds : x # id => InAccounts(new, x) = InAccounts(l, x)
  BY <1>1, <1>2, AccountsWritten
<1> HIDE DEF old
<1>4. InAccounts(new, id) = InAccounts(l, id) + amount
  BY <1>1, <1>3 DEF n
<1> QED BY <1>3, <1>4 DEF new

\* A withdrawal takes at least what it says out of the accounts.
LEMMA WithdrawnUnits ==
    ASSUME NEW l \in Ledger, NEW id \in AssetIds, NEW who \in Account, NEW amount \in Nat,
           CanWithdraw(l, id, who, amount)
    PROVE  LET new == Withdrawn(l, id, who, amount) IN
           /\ InAccounts(l, id) \in Nat /\ InAccounts(new, id) \in Nat
           /\ InAccounts(new, id) + amount <= InAccounts(l, id)
           /\ \A x \in AssetIds : x # id => InAccounts(new, x) = InAccounts(l, x)
<1> DEFINE old == l.balances[id][who]
           left == old - amount
           n == IF left < Minimum THEN 0 ELSE left
           new == Withdrawn(l, id, who, amount)
<1>1. old \in Nat
  BY BalanceInNat
<1>2. old >= amount
  BY <1>1 DEF CanWithdraw, Reducible
<1>3. new = [l EXCEPT !.balances[id][who] = n]
  BY DEF Withdrawn, Debit
<1>4. n \in Nat /\ n + amount <= old
  <2> HIDE DEF old
  <2> QED BY <1>1, <1>2, LedgerConstants
<1> HIDE DEF n, new
<1>5. /\ InAccounts(l, id) \in Nat /\ InAccounts(new, id) \in Nat
      /\ InAccounts(new, id) + old = InAccounts(l, id) + n
      /\ \A x \in AssetIds : x # id => InAccounts(new, x) = InAccounts(l, x)
  BY <1>3, <1>4, AccountsWritten
<1> HIDE DEF old
<1>6. InAccounts(new, id) + amount <= InAccounts(l, id)
  BY <1>1, <1>4, <1>5
<1> QED BY <1>5, <1>6 DEF new

-----------------------------------------------------------------------------
(* The units of a message: bought weight stays covered by the fees kept *)

\* The native location names the native asset, until governance takes its entry away.
NativeNames ==
    NativeLocation \in DOMAIN locationAssetId => locationAssetId[NativeLocation] = NativeId

\* The fees kept would pay for all the weight that was not refunded yet, at the rate it
\* was bought at, unless the first purchase was free.
Covered(m) ==
    /\ m.refunded <= m.surplus /\ m.surplus < m.weight
    /\ m.pays => m.cache.location \in DOMAIN locationAssetId
    /\ m.pays /\ ~m.free => Price(m.cache.rate, m.weight - m.refunded) <= m.cache.amount

FeesStand(m) ==
    /\ m.stage = "none" => m.holding = Nowhere
    /\ m.stage # "none" => Covered(m)
    /\ m.stage # "paid" => m.refunded = 0
    /\ m.stage = "paid" => m.pays \/ m.free
    /\ m.pays => m.stage = "paid"
    /\ ~m.pays => m.cache.amount = 0

EnteredOK == entered \in [AssetIds -> Nat]

UnitsInv == NativeNames /\ EnteredOK /\ FeesStand(message)

UnitsIn(m, id) == Stock(m.holding, id) + FeesOf(m, id)

\* What a message that paid nothing first may be given back beyond its fees.
Bonus(m) == IF m.free THEN Price(m.cache.rate, m.weight) ELSE 0

BonusOf(m, id) == IF m.pays /\ locationAssetId[m.cache.location] = id THEN Bonus(m) ELSE 0

\* The transactor and the trader mean the same asset by a registered location.
LEMMA NameOfRegistered ==
    ASSUME TypeOK, NativeNames, NEW l \in DOMAIN locationAssetId
    PROVE  /\ l \in Location /\ Matches(l) /\ AssetAt(l) = locationAssetId[l]
           /\ locationAssetId[l] \in AssetIds
           /\ \A id : l \in NamesOf(id) <=> locationAssetId[l] = id
<1>1. l \in Location /\ locationAssetId[l] \in AssetIds
  BY DEF TypeOK, IsStorageMap
<1>2. Matches(l) /\ AssetAt(l) = locationAssetId[l]
  BY DEF Matches, AssetAt, IsNative, NativeNames
<1> QED BY <1>1, <1>2 DEF NamesOf

\* What is in the message is what the property counts.
LEMMA UnitsOfMessage ==
    ASSUME NEW id
    PROVE  /\ Around(id) = InAccounts(ledger, id) + UnitsIn(message, id)
           /\ Unpaid(id) = BonusOf(message, id)
BY DEF Around, InMessage, UnitsIn, Stock, FeesOf, NamesOf, Unpaid, BonusOf, Bonus

LEMMA BonusInNat ==
    ASSUME NEW m \in Message PROVE Bonus(m) \in Nat /\ \A id : BonusOf(m, id) \in Nat
<1>1. m.cache.rate \in Nat /\ m.weight \in Nat
  BY DEF Message, Fees
<1>2. Bonus(m) \in Nat
  BY <1>1, PriceInNat DEF Bonus
<1> QED BY <1>2 DEF BonusOf

LEMMA UnitsInNat ==
    ASSUME TypeOK, RegistryInv, NEW m \in Message, NEW id
    PROVE  /\ Stock(m.holding, id) \in Nat /\ FeesOf(m, id) \in Nat
           /\ UnitsIn(m, id) = Stock(m.holding, id) + FeesOf(m, id)
           /\ UnitsIn(m, id) \in Nat
<1>1. m.holding \in [Location -> Nat] /\ m.cache.amount \in Nat
  BY DEF Message, Fees
<1>2. Stock(m.holding, id) \in Nat
  BY <1>1, StockInNat
<1>3. FeesOf(m, id) \in Nat
  BY <1>1 DEF FeesOf
<1> HIDE DEF UnitsIn
<1> QED BY <1>2, <1>3 DEF UnitsIn

\* What the refund does to a message, for any that pays.
RefundsTo(m, r, given, left) ==
    /\ r.holding = [m.holding EXCEPT ![m.cache.location] = m.holding[m.cache.location] + given]
    /\ r.cache = [m.cache EXCEPT !.amount = left]
    /\ r.pays = m.pays /\ r.stage = m.stage /\ r.weight = m.weight
    /\ r.surplus = m.surplus /\ r.refunded = m.refunded /\ r.free = m.free

\* Less weight costs no more.
LEMMA LessCostsLess ==
    ASSUME NEW rate \in Nat, NEW a \in Nat, NEW b \in Nat, a <= b
    PROVE  Price(rate, a) <= Price(rate, b)
<1> DEFINE more == b - a
<1>1. more \in Nat /\ a + more = b
  OBVIOUS
<1> HIDE DEF more
<1>2. Price(rate, a) + Price(rate, more) <= Price(rate, a + more)
  BY <1>1, PartsCostLess
<1>3. Price(rate, a) \in Nat /\ Price(rate, more) \in Nat /\ Price(rate, b) \in Nat
  BY <1>1, PriceInNat
<1> QED BY <1>1, <1>2, <1>3

\* refund_weight moves units from the fees to the holding register, and the fees still pay
\* for the rest of the weight: no refund meets the saturation of the subtraction.  Without
\* a first payment it may, and what it gives is worth the message at most.
LEMMA RefundWeightUnits ==
    ASSUME NEW m \in Message, m.pays, NEW weight \in Nat, NEW rest \in Nat,
           weight <= m.weight,
           ~m.free => Price(m.cache.rate, weight + rest) <= m.cache.amount
    PROVE  \E given \in Nat, left \in Nat :
              /\ given + left <= m.cache.amount + Bonus(m)
              /\ ~m.free => Price(m.cache.rate, rest) <= left
              /\ RefundsTo(m, RefundWeight(m, weight), given, left)
<1> DEFINE rate == m.cache.rate
           amount == m.cache.amount
           back == Least(weight, m.bought)
           given == Price(rate, back)
           left == Sub(amount, given)
           l == m.cache.location
<1>1. m.bought \in Nat /\ rate \in Nat /\ amount \in Nat /\ l \in Location
      /\ m.cache \in Fees /\ m.holding \in [Location -> Nat]
  BY DEF Message, Fees
<1>2. back \in Nat /\ back <= weight
  BY <1>1, LeastInNat
<1>3. ~m.free => Price(rate, weight + rest) <= amount
  OBVIOUS
<1>4. RefundsTo(m, RefundWeight(m, weight), given, left)
  <2>1. RefundWeight(m, weight) =
          [m EXCEPT !.bought = m.bought - back, !.cache.amount = left,
                    !.holding[l] = m.holding[l] + given]
    BY DEF RefundWeight
  <2> HIDE DEF back, given, left
  <2> QED BY <1>1, <2>1 DEF RefundsTo, Message, Fees
<1> HIDE DEF rate, amount, back
<1>5. given \in Nat
  BY <1>1, <1>2, PriceInNat
<1>6. ASSUME ~m.free
      PROVE  given + Price(rate, rest) <= amount /\ Price(rate, rest) \in Nat
  <2> DEFINE more == weight - back
  <2>1. more \in Nat /\ back + rest \in Nat /\ (back + rest) + more = weight + rest
    BY <1>2
  <2> HIDE DEF more
  <2>2. Price(rate, back) + Price(rate, rest) <= Price(rate, back + rest)
    BY <1>1, <1>2, PartsCostLess
  <2>3. Price(rate, back + rest) + Price(rate, more) <= Price(rate, (back + rest) + more)
    BY <1>1, <2>1, PartsCostLess
  <2>4. Price(rate, back) \in Nat /\ Price(rate, rest) \in Nat /\ Price(rate, more) \in Nat
        /\ Price(rate, back + rest) \in Nat /\ Price(rate, weight + rest) \in Nat
    <3>1. weight + rest \in Nat
      OBVIOUS
    <3> QED BY <1>1, <1>2, <2>1, <3>1, PriceInNat
  <2>5. Price(rate, back + rest) + Price(rate, more) <= Price(rate, weight + rest)
    BY <2>1, <2>3
  <2> QED BY <1>1, <1>3, <1>6, <2>2, <2>4, <2>5
<1>8. ASSUME m.free PROVE given <= Bonus(m) /\ Bonus(m) = Price(rate, m.weight)
  <2>1. m.weight \in Nat /\ back <= m.weight
    <3>1. m.weight \in Nat
      BY DEF Message
    <3> QED BY <1>2, <3>1
  <2>2. Price(rate, back) <= Price(rate, m.weight)
    BY <1>1, <1>2, <2>1, LessCostsLess
  <2> QED BY <1>8, <2>2 DEF Bonus, rate
<1>9. Bonus(m) \in Nat
  BY BonusInNat
<1> HIDE DEF given
<1>7. left \in Nat /\ given + left <= amount + Bonus(m)
      /\ (~m.free => Price(rate, rest) <= left)
  <2>1. CASE m.free
    BY <1>1, <1>5, <1>8, <1>9, <2>1 DEF Sub
  <2>2. CASE ~m.free
    BY <1>1, <1>5, <1>6, <1>9, <2>2 DEF Sub
  <2> QED BY <2>1, <2>2
<1> HIDE DEF left
<1> QED BY <1>4, <1>5, <1>7 DEF rate, amount

\* Units moved from the fees to the register, of the same asset, stay in the message, and
\* a bonus may come on top.
LEMMA RefundKeepsUnits ==
    ASSUME TypeOK, RegistryInv, NativeNames, NEW m \in Message, NEW r \in Message,
           m.pays, m.cache.location \in DOMAIN locationAssetId,
           NEW given \in Nat, NEW left \in Nat, given + left <= m.cache.amount + Bonus(m),
           RefundsTo(m, r, given, left), NEW id
    PROVE  UnitsIn(r, id) <= UnitsIn(m, id) + BonusOf(m, id)
<1> DEFINE l == m.cache.location
           h == m.holding
           g == r.holding
           v == h[l] + given
<1>1. l \in Location /\ (l \in NamesOf(id) <=> locationAssetId[l] = id)
  BY NameOfRegistered
<1>2. h \in [Location -> Nat] /\ v \in Nat /\ h[l] \in Nat
  BY <1>1 DEF Message
<1>3. g = Entry(h, l, v)
  BY DEF RefundsTo, Entry
<1>4. /\ FeesOf(m, id) = (IF l \in NamesOf(id) THEN m.cache.amount ELSE 0)
      /\ BonusOf(m, id) = (IF l \in NamesOf(id) THEN Bonus(m) ELSE 0)
  BY <1>1 DEF FeesOf, BonusOf
<1>9. m.cache.amount \in Nat /\ Bonus(m) \in Nat /\ given + left <= m.cache.amount + Bonus(m)
  BY BonusInNat DEF Message, Fees
<1>5. FeesOf(r, id) = (IF l \in NamesOf(id) THEN left ELSE 0)
  <2>1. r.cache.location = l /\ r.cache.amount = left /\ r.pays
    BY DEF RefundsTo, Message, Fees
  <2> QED BY <1>1, <2>1 DEF FeesOf
<1>6. UnitsIn(m, id) = Stock(h, id) + FeesOf(m, id) /\ UnitsIn(r, id) = Stock(g, id) + FeesOf(r, id)
  BY DEF UnitsIn
<1> DEFINE amount == m.cache.amount
           bonus == Bonus(m)
<1>10. FeesOf(m, id) = (IF l \in NamesOf(id) THEN amount ELSE 0)
       /\ BonusOf(m, id) = (IF l \in NamesOf(id) THEN bonus ELSE 0)
       /\ amount \in Nat /\ bonus \in Nat /\ given + left <= amount + bonus
  BY <1>4, <1>9
<1> HIDE DEF l, h, g, amount, bonus
<1>7. v = h[l] + given
  OBVIOUS
<1> HIDE DEF v
<1>8. /\ Stock(g, id) \in Nat /\ Stock(h, id) \in Nat
      /\ l \in NamesOf(id) => Stock(g, id) + h[l] = Stock(h, id) + v
      /\ l \notin NamesOf(id) => Stock(g, id) = Stock(h, id)
  BY <1>1, <1>2, <1>3, StockMore
<1> QED BY <1>2, <1>5, <1>6, <1>7, <1>8, <1>10

\* refund_surplus of the executor keeps the units of a message, but for the bonus, and its
\* fees still cover it.
LEMMA RefundedKeepsUnits ==
    ASSUME TypeOK, RegistryInv, NativeNames, NEW m \in Message, Covered(m)
    PROVE  /\ \A id : UnitsIn(Refunded(m), id) <= UnitsIn(m, id) + BonusOf(m, id)
           /\ Covered(Refunded(m)) /\ Refunded(m) \in Message
           /\ Refunded(m).pays = m.pays /\ Refunded(m).stage = m.stage
           /\ Refunded(m).free = m.free
           /\ ~m.pays => Refunded(m).cache = m.cache
<1> DEFINE r == Refunded(m)
           w == RefundWeight(m, m.surplus - m.refunded)
<1>1. m.surplus \in Nat /\ m.refunded \in Nat /\ m.weight \in Nat
      /\ m.refunded <= m.surplus /\ m.surplus < m.weight
  BY DEF Message, Covered
<1>2. r \in Message
  BY RefundedIsMessage
<1>5. \A id : UnitsIn(m, id) <= UnitsIn(m, id) + BonusOf(m, id)
  <2>1. ASSUME NEW id PROVE UnitsIn(m, id) \in Nat /\ BonusOf(m, id) \in Nat
    BY UnitsInNat, BonusInNat
  <2>2. ASSUME NEW id PROVE UnitsIn(m, id) <= UnitsIn(m, id) + BonusOf(m, id)
    BY <2>1
  <2> QED BY <2>2
<1>3. CASE ~(m.surplus > m.refunded)
  BY <1>2, <1>3, <1>5 DEF Refunded
<1>4. CASE m.surplus > m.refunded
  <2>1. w \in Message /\ m.surplus - m.refunded \in Nat
    <3>1. m.surplus - m.refunded \in Nat
      BY <1>1, <1>4
    <3> QED BY <3>1, RefundWeightIsMessage
  <2>2. r = [w EXCEPT !.refunded = m.surplus]
    BY <1>4 DEF Refunded
  <2>3. CASE ~m.pays
    <3>1. w = m
      BY <2>3 DEF RefundWeight
    <3>2. r.holding = m.holding /\ r.cache = m.cache /\ r.pays = m.pays /\ r.stage = m.stage
          /\ r.weight = m.weight /\ r.surplus = m.surplus /\ r.refunded = m.surplus
          /\ r.free = m.free
      BY <2>2, <3>1 DEF Message
    <3>3. Covered(r)
      BY <1>1, <2>3, <3>2 DEF Covered
    <3>4. \A id : UnitsIn(r, id) = UnitsIn(m, id)
      BY <2>3, <3>2 DEF UnitsIn, FeesOf
    <3>5. \A id : UnitsIn(r, id) <= UnitsIn(m, id) + BonusOf(m, id)
      BY <1>5, <3>4
    <3> QED BY <1>2, <2>3, <3>2, <3>3, <3>5
  <2>4. CASE m.pays
    <3> DEFINE back == m.surplus - m.refunded
               rest == m.weight - m.surplus
    <3>1. back \in Nat /\ rest \in Nat /\ back + rest = m.weight - m.refunded
      BY <1>1, <1>4
    <3>2. m.cache.location \in DOMAIN locationAssetId
          /\ (~m.free => Price(m.cache.rate, back + rest) <= m.cache.amount)
      BY <2>4, <3>1 DEF Covered
    <3>9. back <= m.weight
      BY <1>1
    <3> HIDE DEF rest
    <3>3. PICK given \in Nat, left \in Nat :
              /\ given + left <= m.cache.amount + Bonus(m)
              /\ ~m.free => Price(m.cache.rate, rest) <= left
              /\ RefundsTo(m, w, given, left)
      BY <2>4, <3>1, <3>2, <3>9, RefundWeightUnits
    <3>4. \A id : UnitsIn(w, id) <= UnitsIn(m, id) + BonusOf(m, id)
      BY <2>1, <2>4, <3>2, <3>3, RefundKeepsUnits
    <3> HIDE DEF w
    <3>5. r.holding = w.holding /\ r.cache = w.cache /\ r.pays = w.pays /\ r.stage = w.stage
          /\ r.weight = w.weight /\ r.surplus = w.surplus /\ r.refunded = m.surplus
          /\ r.free = w.free
      BY <2>1, <2>2 DEF Message
    <3>10. \A id : UnitsIn(r, id) = UnitsIn(w, id)
      BY <3>5 DEF UnitsIn, FeesOf
    <3>6. \A id : UnitsIn(r, id) <= UnitsIn(m, id) + BonusOf(m, id)
      BY <3>4, <3>10
    <3>7. w.pays = m.pays /\ w.stage = m.stage /\ w.weight = m.weight /\ w.surplus = m.surplus
          /\ w.cache.location = m.cache.location /\ w.cache.rate = m.cache.rate
          /\ w.cache.amount = left /\ w.free = m.free
      BY <3>3 DEF RefundsTo, Message, Fees
    <3>8. Covered(r)
      BY <1>1, <2>4, <3>2, <3>3, <3>5, <3>7 DEF Covered, rest
    <3> QED BY <1>2, <2>4, <3>5, <3>6, <3>7, <3>8
  <2> QED BY <2>3, <2>4
<1> QED BY <1>3, <1>4

-----------------------------------------------------------------------------
(* The units of a message, instruction by instruction *)

\* r is m with so many units under a location of the holding register
HoldsNow(m, r, l, v) ==
    r.holding = Entry(m.holding, l, v) /\ r.pays = m.pays /\ r.cache = m.cache

HeldAt(m, l) == m.holding[l]

\* A register with another number of units under one location is counted as well.
LEMMA HoldingIsCounted ==
    ASSUME TypeOK, RegistryInv, NEW m \in Message, NEW r, NEW l \in Location, NEW v \in Nat,
           HoldsNow(m, r, l, v), NEW id
    PROVE  UnitsIn(r, id) \in Nat
<1> DEFINE h == m.holding
<1>1. h \in [Location -> Nat] /\ FeesOf(m, id) \in Nat
  BY UnitsInNat DEF Message
<1>2. UnitsIn(r, id) = Stock(Entry(h, l, v), id) + FeesOf(m, id)
  BY DEF HoldsNow, UnitsIn, FeesOf
<1> HIDE DEF h
<1>3. Stock(Entry(h, l, v), id) \in Nat
  BY <1>1, StockMore
<1> QED BY <1>1, <1>2, <1>3

\* the units of an asset in m and in r, which has v of them under the location
UnitsChange(m, r, l, v, id) ==
    /\ HeldAt(m, l) \in Nat /\ UnitsIn(m, id) \in Nat
    /\ l \in NamesOf(id) => UnitsIn(r, id) + HeldAt(m, l) = UnitsIn(m, id) + v
    /\ l \notin NamesOf(id) => UnitsIn(r, id) = UnitsIn(m, id)

\* What the register gets or gives away is what the message has more or less.
LEMMA HoldingChanges ==
    ASSUME TypeOK, RegistryInv, NEW m \in Message, NEW r, NEW l \in Location, NEW v \in Nat,
           HoldsNow(m, r, l, v), NEW id
    PROVE  UnitsChange(m, r, l, v, id)
<1> DEFINE h == m.holding
           g == Entry(h, l, v)
           s == Stock(h, id)
           t == Stock(g, id)
           fees == FeesOf(m, id)
           had == h[l]
<1>1. h \in [Location -> Nat]
  BY DEF Message
<1>2. UnitsIn(m, id) = s + fees /\ UnitsIn(r, id) = t + fees
  BY DEF HoldsNow, UnitsIn, FeesOf
<1>3. fees \in Nat
  BY UnitsInNat
<1>4. UnitsIn(m, id) \in Nat
  BY UnitsInNat
<1> HIDE DEF h, fees
<1>5. /\ t \in Nat /\ s \in Nat /\ had \in Nat
      /\ l \in NamesOf(id) => t + had = s + v
      /\ l \notin NamesOf(id) => t = s
  BY <1>1, StockMore
<1> HIDE DEF s, t, had
<1>6. ASSUME l \in NamesOf(id) PROVE UnitsIn(r, id) + had = UnitsIn(m, id) + v
  BY <1>2, <1>3, <1>5, <1>6
<1>7. ASSUME l \notin NamesOf(id) PROVE UnitsIn(r, id) = UnitsIn(m, id)
  BY <1>2, <1>5, <1>7
<1> QED BY <1>4, <1>5, <1>6, <1>7 DEF h, had, HeldAt, UnitsChange

Gains(m, r, l, amount) == HoldsNow(m, r, l, m.holding[l] + amount)

Gives(m, r, l, amount) == HoldsNow(m, r, l, m.holding[l] - amount)

Affords(m, l, amount) == amount <= m.holding[l]

\* the part of an amount under a location that is of this asset
Share(l, id, amount) == IF l \in NamesOf(id) THEN amount ELSE 0

\* What enters the register is of the asset of its name, or of none.
LEMMA GainsUnits ==
    ASSUME TypeOK, RegistryInv, NEW m \in Message, NEW r, NEW l \in Location,
           NEW amount \in Nat, Gains(m, r, l, amount), NEW id
    PROVE  UnitsIn(m, id) \in Nat /\ UnitsIn(r, id) = UnitsIn(m, id) + Share(l, id, amount)
<1> DEFINE had == HeldAt(m, l)
           v == had + amount
<1>1. had \in Nat
  BY DEF Message, HeldAt
<1>2. HoldsNow(m, r, l, v)
  BY DEF Gains, HeldAt
<1> HIDE DEF had
<1>3. v \in Nat /\ v = had + amount
  BY <1>1
<1> HIDE DEF v
<1>4. /\ UnitsIn(m, id) \in Nat
      /\ l \in NamesOf(id) => UnitsIn(r, id) + had = UnitsIn(m, id) + v
      /\ l \notin NamesOf(id) => UnitsIn(r, id) = UnitsIn(m, id)
  <2>1. UnitsChange(m, r, l, v, id)
    BY <1>2, <1>3, HoldingChanges
  <2> QED BY <2>1 DEF UnitsChange, had
<1>5. UnitsIn(r, id) \in Nat
  BY <1>2, <1>3, HoldingIsCounted
<1>6. CASE l \in NamesOf(id)
  BY <1>1, <1>3, <1>4, <1>5, <1>6 DEF Share
<1>7. CASE l \notin NamesOf(id)
  BY <1>4, <1>7 DEF Share
<1> QED BY <1>4, <1>6, <1>7

\* What leaves the register is no more than there is of the asset of its name.
LEMMA GivesUnits ==
    ASSUME TypeOK, RegistryInv, NEW m \in Message, NEW r, NEW l \in Location,
           NEW amount \in Nat, Affords(m, l, amount), Gives(m, r, l, amount), NEW id
    PROVE  /\ UnitsIn(m, id) \in Nat /\ UnitsIn(r, id) \in Nat
           /\ UnitsIn(m, id) = UnitsIn(r, id) + Share(l, id, amount)
<1> DEFINE had == HeldAt(m, l)
           v == had - amount
<1>1. had \in Nat /\ amount <= had
  BY DEF Message, Affords, HeldAt
<1>2. HoldsNow(m, r, l, v)
  BY DEF Gives, HeldAt
<1> HIDE DEF had
<1>3. v \in Nat /\ v = had - amount
  BY <1>1
<1> HIDE DEF v
<1>4. /\ UnitsIn(m, id) \in Nat
      /\ l \in NamesOf(id) => UnitsIn(r, id) + had = UnitsIn(m, id) + v
      /\ l \notin NamesOf(id) => UnitsIn(r, id) = UnitsIn(m, id)
  <2>1. UnitsChange(m, r, l, v, id)
    BY <1>2, <1>3, HoldingChanges
  <2> QED BY <2>1 DEF UnitsChange, had
<1>5. UnitsIn(r, id) \in Nat
  BY <1>2, <1>3, HoldingIsCounted
<1>6. CASE l \in NamesOf(id)
  BY <1>1, <1>3, <1>4, <1>5, <1>6 DEF Share
<1>7. CASE l \notin NamesOf(id)
  BY <1>4, <1>7 DEF Share
<1> QED BY <1>4, <1>5, <1>6, <1>7

\* buy_weight: what a message pays goes to the fees it may get a refund of, or is lost to it.
LEMMA BuyWeightFees ==
    ASSUME TypeOK, RegistryInv, NativeNames, NEW m \in Message, NEW l \in Location,
           NEW weight \in Nat, HasRate(l), NEW id
    PROVE  /\ BuyWeight(m, l, weight).holding
                = Entry(m.holding, l, m.holding[l] - Cost(l, weight))
           /\ FeesOf(BuyWeight(m, l, weight), id)
                <= FeesOf(m, id) + IF l \in NamesOf(id) THEN Cost(l, weight) ELSE 0
<1> DEFINE cost == Cost(l, weight)
           r == BuyWeight(m, l, weight)
           c == Cached(m, l, weight)
           gain == IF l \in NamesOf(id) THEN cost ELSE 0
<1>1. cost \in Nat
  BY CostInNat
<1>2. FeesOf(m, id) \in Nat /\ m.holding \in [Location -> Nat] /\ m.cache \in Fees
  BY UnitsInNat DEF Message
<1>3. l \in NamesOf(id) <=> locationAssetId[l] = id
  BY NameOfRegistered DEF HasRate
<1>4. CASE cost = 0
  <2>1. r = m
    BY <1>4 DEF BuyWeight
  <2>2. Entry(m.holding, l, m.holding[l] - cost) = m.holding
    <3> HIDE DEF cost
    <3>1. m.holding[l] \in Nat /\ m.holding[l] - cost = m.holding[l]
      BY <1>2, <1>4
    <3> QED BY <1>2, <3>1 DEF Entry
  <2> HIDE DEF r, cost
  <2>3. FeesOf(m, id) <= FeesOf(m, id) + gain
    BY <1>1, <1>2
  <2> QED BY <2>1, <2>2, <2>3 DEF r, cost
<1>5. CASE cost # 0
  <2>1. r = [c EXCEPT !.holding[l] = c.holding[l] - cost]
    BY <1>5 DEF BuyWeight
  <2>2. c.holding = m.holding /\ DOMAIN c = DOMAIN m
    BY DEF Cached, Message
  <2>3. "holding" \in DOMAIN m /\ "pays" \in DOMAIN m /\ "cache" \in DOMAIN m
    BY DEF Message
  <2> HIDE DEF c
  <2>4. r.holding = Entry(m.holding, l, m.holding[l] - cost) /\ r.pays = c.pays /\ r.cache = c.cache
    BY <1>2, <2>1, <2>2, <2>3 DEF Entry
  <2>5. FeesOf(r, id) = FeesOf(c, id)
    BY <2>4 DEF FeesOf
  <2>6. FeesOf(c, id) <= FeesOf(m, id) + gain
    <3>1. CASE ~m.pays
      <4>1. c.pays /\ c.cache.location = l /\ c.cache.amount = cost
        BY <3>1 DEF c, Cached, Message
      <4> HIDE DEF cost
      <4> QED BY <1>1, <1>2, <1>3, <4>1 DEF FeesOf
    <3>2. CASE m.pays /\ m.cache.location = l
      <4>1. c.pays /\ c.cache.location = l /\ c.cache.amount = m.cache.amount + cost
        BY <3>2 DEF c, Cached, Message, Fees
      <4>2. m.cache.amount \in Nat
        BY <1>2 DEF Fees
      <4> HIDE DEF cost
      <4> QED BY <1>1, <1>2, <1>3, <3>2, <4>1, <4>2 DEF FeesOf
    <3>3. CASE m.pays /\ m.cache.location # l
      <4>1. c.pays = m.pays /\ c.cache = m.cache
        BY <3>3 DEF c, Cached, Message
      <4>2. FeesOf(c, id) = FeesOf(m, id)
        BY <4>1 DEF FeesOf
      <4> HIDE DEF cost
      <4> QED BY <1>1, <1>2, <4>2
    <3> QED BY <3>1, <3>2, <3>3
  <2> QED BY <2>4, <2>5, <2>6
<1> QED BY <1>4, <1>5

\* A payment the holding register covers makes nothing.
LEMMA BuyWeightUnits ==
    ASSUME TypeOK, RegistryInv, NativeNames, NEW m \in Message, NEW l \in Location,
           NEW weight \in Nat, HasRate(l), Cost(l, weight) <= m.holding[l], NEW id
    PROVE  UnitsIn(BuyWeight(m, l, weight), id) <= UnitsIn(m, id)
<1> DEFINE cost == Cost(l, weight)
           r == BuyWeight(m, l, weight)
           h == m.holding
           v == h[l] - cost
<1>1. r \in Message
  BY BuyWeightIsMessage
<1>2. cost \in Nat /\ h \in [Location -> Nat] /\ v \in Nat /\ h[l] \in Nat
  <2>1. cost \in Nat
    BY CostInNat
  <2>2. h \in [Location -> Nat] /\ cost <= h[l]
    BY DEF Message
  <2> HIDE DEF cost, h
  <2> QED BY <2>1, <2>2
<1>3. /\ r.holding = Entry(h, l, v)
      /\ FeesOf(r, id) <= FeesOf(m, id) + IF l \in NamesOf(id) THEN cost ELSE 0
  BY BuyWeightFees
<1>4. /\ Stock(h, id) \in Nat /\ FeesOf(m, id) \in Nat
      /\ UnitsIn(m, id) = Stock(h, id) + FeesOf(m, id)
  BY UnitsInNat
<1> HIDE DEF r
<1>5. /\ Stock(r.holding, id) \in Nat /\ FeesOf(r, id) \in Nat
      /\ UnitsIn(r, id) = Stock(r.holding, id) + FeesOf(r, id)
  BY <1>1, UnitsInNat
<1> HIDE DEF h, cost
<1>6. v = h[l] - cost
  OBVIOUS
<1> HIDE DEF v
<1>7. /\ l \in NamesOf(id) => Stock(Entry(h, l, v), id) + h[l] = Stock(h, id) + v
      /\ l \notin NamesOf(id) => Stock(Entry(h, l, v), id) = Stock(h, id)
  BY <1>2, StockMore
<1>8. UnitsIn(r, id) <= UnitsIn(m, id)
  BY <1>2, <1>3, <1>4, <1>5, <1>6, <1>7
<1> QED BY <1>8 DEF r

\* The first BuyExecution fills the fees for the whole weight of the message, if it costs
\* anything, and later ones only add to them.
LEMMA BuyWeightCovers ==
    ASSUME TypeOK, RegistryInv, NativeNames, NEW m \in Message, NEW l \in Location,
           NEW weight \in Nat, HasRate(l), Covered(m),
           ~m.pays /\ ~m.free => weight = m.weight /\ m.refunded = 0
    PROVE  /\ Covered(BuyWeight(m, l, weight))
           /\ Cost(l, weight) # 0 => BuyWeight(m, l, weight).pays
<1> DEFINE cost == Cost(l, weight)
           rate == unitsPerSecond[locationAssetId[l]]
           r == BuyWeight(m, l, weight)
           c == Cached(m, l, weight)
<1>1. cost \in Nat /\ cost = Price(rate, weight)
  BY CostInNat DEF Cost
<1>2. m.refunded \in Nat /\ m.surplus \in Nat /\ m.weight \in Nat /\ m.cache \in Fees
      /\ m.refunded <= m.surplus /\ m.surplus < m.weight
  BY DEF Message, Covered
<1>3. l \in DOMAIN locationAssetId
  BY DEF HasRate
<1>4. c.refunded = m.refunded /\ c.surplus = m.surplus /\ c.weight = m.weight
      /\ c.free = m.free
  BY DEF Cached, Message
<1>5. Covered(c) /\ c.pays
  <2>1. CASE ~m.pays
    <3>1. c.pays /\ c.cache.location = l /\ c.cache.amount = cost /\ c.cache.rate = rate
      BY <2>1 DEF Cached, Message
    <3>2. ~m.free => weight = m.weight /\ m.refunded = 0
      BY <2>1
    <3> HIDE DEF c, cost, rate
    <3>3. ~m.free => m.weight - m.refunded = weight
      BY <1>2, <3>2
    <3> QED BY <1>1, <1>2, <1>3, <1>4, <3>1, <3>3 DEF Covered
  <2>2. CASE m.pays /\ m.cache.location = l
    <3>1. c.pays /\ c.cache.location = l /\ c.cache.amount = m.cache.amount + cost
          /\ c.cache.rate = m.cache.rate
      BY <2>2 DEF Cached, Message, Fees
    <3>2. m.cache.amount \in Nat
          /\ (~m.free => Price(m.cache.rate, m.weight - m.refunded) <= m.cache.amount)
      BY <1>2, <2>2 DEF Covered, Fees
    <3>3. Price(m.cache.rate, m.weight - m.refunded) \in Nat
      <4>1. m.weight - m.refunded \in Nat /\ m.cache.rate \in Nat
        BY <1>2 DEF Fees
      <4> QED BY <4>1, PriceInNat
    <3> HIDE DEF c, cost
    <3>4. Price(c.cache.rate, c.weight - c.refunded) = Price(m.cache.rate, m.weight - m.refunded)
      BY <1>4, <3>1
    <3>5. ~m.free => Price(c.cache.rate, c.weight - c.refunded) <= c.cache.amount
      BY <1>1, <3>1, <3>2, <3>3, <3>4
    <3> QED BY <1>2, <1>3, <1>4, <3>1, <3>5 DEF Covered
  <2>3. CASE m.pays /\ m.cache.location # l
    <3>1. c.pays = m.pays /\ c.cache = m.cache
      BY <2>3 DEF Cached, Message
    <3> HIDE DEF c
    <3> QED BY <1>4, <2>3, <3>1 DEF Covered
  <2> QED BY <2>1, <2>2, <2>3
<1>6. CASE cost # 0
  <2>1. r = [c EXCEPT !.holding[l] = c.holding[l] - cost]
    BY <1>6 DEF BuyWeight
  <2>2. DOMAIN c = DOMAIN m
    BY DEF Cached, Message
  <2>3. {"holding", "pays", "cache", "refunded", "surplus", "weight", "free"} \subseteq DOMAIN m
    BY DEF Message
  <2> HIDE DEF c
  <2>4. r.pays = c.pays /\ r.cache = c.cache /\ r.refunded = c.refunded
        /\ r.surplus = c.surplus /\ r.weight = c.weight /\ r.free = c.free
    BY <2>1, <2>2, <2>3
  <2> HIDE DEF r
  <2>5. Covered(r) /\ r.pays
    BY <1>5, <2>4 DEF Covered
  <2> QED BY <2>5 DEF r
<1>7. CASE cost = 0
  BY <1>7 DEF BuyWeight
<1> QED BY <1>6, <1>7

-----------------------------------------------------------------------------
(* Step by step: no units are made but for the bonus *)

LEMMA AccountsInNat ==
    ASSUME NEW l \in Ledger, NEW id \in AssetIds PROVE InAccounts(l, id) \in Nat
<1> DEFINE f == l.balances[id]
<1>1. f \in [Account -> Nat] /\ IsFiniteSet(Account)
  BY LedgerConstants DEF Ledger
<1> HIDE DEF f
<1>2. DOMAIN f = Account
  BY <1>1
<1>3. IsFiniteSet(DOMAIN f) /\ f \in [DOMAIN f -> Nat]
  BY <1>1, <1>2
<1>4. SumOf(f) \in Nat
  BY <1>3, SumInNat
<1> QED BY <1>4 DEF InAccounts, f

\* Before every step the units of an asset are counted.
LEMMA CountedNow ==
    ASSUME TypeOK, MessageOK, RegistryInv, UnitsInv, NEW id \in AssetIds
    PROVE  /\ InAccounts(ledger, id) \in Nat /\ UnitsIn(message, id) \in Nat
           /\ entered[id] \in Nat /\ BonusOf(message, id) \in Nat
<1>1. InAccounts(ledger, id) \in Nat
  BY AccountsInNat DEF TypeOK
<1>2. UnitsIn(message, id) \in Nat
  BY UnitsInNat DEF MessageOK
<1>3. entered[id] \in Nat
  BY DEF UnitsInv, EnteredOK
<1>4. BonusOf(message, id) \in Nat
  BY BonusInNat DEF MessageOK
<1> QED BY <1>1, <1>2, <1>3, <1>4

\* a step that leaves the registry alone makes no more than the bonus
MadeNext(id) ==
    InAccounts(ledger', id) + UnitsIn(message', id) + entered[id]
        <= InAccounts(ledger, id) + UnitsIn(message, id) + entered'[id] + BonusOf(message, id)

UnitsNext == EnteredOK' /\ FeesStand(message') /\ \A id \in AssetIds : MadeNext(id)

\* what NothingIsMade says of a step
MadeLittle ==
    \A id \in AssetIds : Around(id)' + entered[id] <= Around(id) + entered'[id] + Unpaid(id)

\* A message finds its assets under the same names until it ends.
LEMMA UnitsNextKeeps ==
    ASSUME UnitsInv, UNCHANGED registry, UnitsNext PROVE UnitsInv' /\ MadeLittle
<1> USE DEF registry, locations, identities
<1>1. NativeNames'
  BY DEF UnitsInv, NativeNames
<1>2. FeesStand(message)'
  BY DEF UnitsNext, FeesStand, Covered
<1>3. \A id : UnitsIn(message', id) = UnitsIn(message, id)'
  BY DEF UnitsIn, Stock, FeesOf, NamesOf, Matches, AssetAt
<1>4. \A id : UnitsIn(message, id)' = InMessage(id)'
  BY DEF InMessage, UnitsIn, Stock, FeesOf, NamesOf
<1>5. \A id : InAccounts(ledger', id) = InAccounts(ledger, id)'
  BY DEF InAccounts
<1>6. MadeLittle
  <2>1. ASSUME NEW id \in AssetIds
        PROVE  Around(id)' + entered[id] <= Around(id) + entered'[id] + Unpaid(id)
    <3>1. Around(id)' = InAccounts(ledger', id) + UnitsIn(message', id)
      BY <1>3, <1>4, <1>5 DEF Around
    <3>2. MadeNext(id)
      BY DEF UnitsNext
    <3>3. Around(id) = InAccounts(ledger, id) + UnitsIn(message, id)
          /\ Unpaid(id) = BonusOf(message, id)
      BY UnitsOfMessage
    <3> QED BY <3>1, <3>2, <3>3 DEF MadeNext
  <2> QED BY <2>1 DEF MadeLittle
<1> QED BY <1>1, <1>2, <1>6 DEF UnitsInv, UnitsNext

\* A message that has nothing yet, or nothing left, has no units.
LEMMA NoneInNothing ==
    ASSUME NEW m, m.holding = Nowhere, ~m.pays, NEW id PROVE UnitsIn(m, id) = 0
<1> DEFINE f == [l \in NamesOf(id) |-> m.holding[l]]
<1>1. \A l \in DOMAIN f : f[l] = 0
  BY DEF Nowhere, NamesOf
<1>2. SumOf(f) = 0
  <2> HIDE DEF f
  <2> QED BY <1>1, SumOfZeros
<1> QED BY <1>2 DEF UnitsIn, Stock, FeesOf

\* The message is the next one, with nothing in it.
LEMMA StartsWithNothing ==
    ASSUME TypeOK, MessageOK, RegistryInv, UnitsInv, UNCHANGED <<ledger, entered>>,
           message'.holding = Nowhere, ~message'.pays, FeesStand(message')
    PROVE  UnitsNext
<1>1. ASSUME NEW id \in AssetIds PROVE MadeNext(id)
  <2>1. UnitsIn(message', id) = 0
    BY NoneInNothing
  <2>2. InAccounts(ledger', id) = InAccounts(ledger, id) /\ entered'[id] = entered[id]
    OBVIOUS
  <2>3. /\ InAccounts(ledger, id) \in Nat /\ UnitsIn(message, id) \in Nat
        /\ entered[id] \in Nat /\ BonusOf(message, id) \in Nat
    BY CountedNow
  <2> QED BY <2>1, <2>2, <2>3 DEF MadeNext
<1> QED BY <1>1 DEF UnitsNext, UnitsInv, EnteredOK

LEMMA ReceiveUnits ==
    ASSUME TypeOK, MessageOK, RegistryInv, UnitsInv,
           NEW origin \in Chain, NEW sender \in Sender, NEW weight \in Weight,
           Receive(origin, sender, weight)
    PROVE  UnitsNext
<1>1. UNCHANGED <<ledger, entered>> /\ message'.holding = Nowhere /\ ~message'.pays
  BY DEF Receive, NoMessage
<1>2. weight \in Nat \ {0}
  BY ExecutionConstants
<1>3. message'.stage = "started" /\ message'.weight = weight /\ message'.surplus = 0
      /\ message'.refunded = 0 /\ message'.cache.amount = 0
  BY DEF Receive, NoMessage, NoFees
<1>4. FeesStand(message')
  BY <1>1, <1>2, <1>3 DEF FeesStand, Covered
<1> QED BY <1>1, <1>4, StartsWithNothing

\* WithdrawAsset: what leaves the account is in the register, dust is lost.
LEMMA WithdrawUnits ==
    ASSUME TypeOK, MessageOK, RegistryInv, UnitsInv,
           NEW l \in Location, NEW amount \in Amount, WithdrawAsset(l, amount)
    PROVE  UnitsNext
<1> DEFINE a == AssetAt(l)
<1>1. a \in AssetIds /\ amount \in Nat /\ message.sender \in Account /\ ledger \in Ledger
      /\ message \in Message
  BY AssetAtIsAsset, ExecutionConstants DEF WithdrawAsset, MessageOK, Message, TypeOK
<1>2. CanWithdraw(ledger, a, message.sender, amount)
      /\ ledger' = Withdrawn(ledger, a, message.sender, amount)
      /\ entered' = entered /\ Matches(l)
  BY DEF WithdrawAsset
<1>3. Gains(message, message', l, amount)
  BY <1>1 DEF WithdrawAsset, Unplaced, Gains, HoldsNow, Entry, Message
<1>4. FeesStand(message')
  BY <1>1 DEF WithdrawAsset, Unplaced, UnitsInv, FeesStand, Covered, Message
<1>5. ASSUME NEW id \in AssetIds PROVE MadeNext(id)
  <2> DEFINE was == InAccounts(ledger, id)
             is == InAccounts(ledger', id)
             share == Share(l, id, amount)
  <2>1. UnitsIn(message, id) \in Nat /\ UnitsIn(message', id) = UnitsIn(message, id) + share
    BY <1>1, <1>3, GainsUnits
  <2>2. is \in Nat /\ is + share <= was
    <3>1. /\ InAccounts(ledger, a) \in Nat /\ InAccounts(ledger', a) \in Nat
          /\ InAccounts(ledger', a) + amount <= InAccounts(ledger, a)
          /\ \A x \in AssetIds : x # a => InAccounts(ledger', x) = InAccounts(ledger, x)
      BY <1>1, <1>2, WithdrawnUnits
    <3>2. l \in NamesOf(id) <=> id = a
      BY <1>2 DEF NamesOf
    <3>3. was \in Nat
      BY CountedNow
    <3> QED BY <3>1, <3>2, <3>3 DEF Share
  <2>3. was \in Nat /\ entered[id] \in Nat /\ BonusOf(message, id) \in Nat
    BY CountedNow
  <2>4. share \in Nat
    BY <1>1 DEF Share
  <2>5. entered'[id] = entered[id]
    BY <1>2
  <2> HIDE DEF was, is, share
  <2>6. is + UnitsIn(message', id) + entered[id]
            <= was + UnitsIn(message, id) + entered'[id] + BonusOf(message, id)
    BY <2>1, <2>2, <2>3, <2>4, <2>5
  <2> QED BY <2>6 DEF MadeNext, was, is
<1> QED BY <1>2, <1>4, <1>5 DEF UnitsNext, UnitsInv, EnteredOK

\* ReserveAssetDeposited: the units that come in are counted as entered.
LEMMA ReserveUnits ==
    ASSUME TypeOK, MessageOK, RegistryInv, UnitsInv,
           NEW l \in Location, NEW amount \in Amount, ReserveAssetDeposited(l, amount)
    PROVE  UnitsNext
<1>1. amount \in Nat /\ message \in Message /\ entered \in [AssetIds -> Nat]
  BY ExecutionConstants DEF MessageOK, UnitsInv, EnteredOK
<1>2. Gains(message, message', l, amount) /\ ledger' = ledger
  BY <1>1 DEF ReserveAssetDeposited, Unplaced, Gains, HoldsNow, Entry, Message
<1>3. FeesStand(message')
  BY <1>1 DEF ReserveAssetDeposited, Unplaced, UnitsInv, FeesStand, Covered, Message
<1>4. EnteredOK' /\ \A id \in AssetIds : entered'[id] = entered[id] + Share(l, id, amount)
  <2>1. CASE Matches(l)
    <3>1. AssetAt(l) \in AssetIds
      BY <2>1, AssetAtIsAsset
    <3>2. entered' = [entered EXCEPT ![AssetAt(l)] = entered[AssetAt(l)] + amount]
      BY <2>1 DEF ReserveAssetDeposited
    <3>3. \A id : l \in NamesOf(id) <=> id = AssetAt(l)
      BY <2>1 DEF NamesOf
    <3> QED BY <1>1, <3>1, <3>2, <3>3 DEF EnteredOK, Share
  <2>2. CASE ~Matches(l)
    BY <1>1, <2>2 DEF ReserveAssetDeposited, Unplaced, NamesOf, EnteredOK, Share
  <2> QED BY <2>1, <2>2
<1>5. ASSUME NEW id \in AssetIds PROVE MadeNext(id)
  <2> DEFINE was == InAccounts(ledger, id)
             share == Share(l, id, amount)
  <2>1. UnitsIn(message, id) \in Nat /\ UnitsIn(message', id) = UnitsIn(message, id) + share
    BY <1>1, <1>2, GainsUnits
  <2>2. was \in Nat /\ entered[id] \in Nat /\ BonusOf(message, id) \in Nat
    BY CountedNow
  <2>3. share \in Nat
    BY <1>1 DEF Share
  <2>4. entered'[id] = entered[id] + share /\ InAccounts(ledger', id) = was
    BY <1>2, <1>4
  <2>5. InAccounts(ledger, id) = was
    OBVIOUS
  <2> HIDE DEF was, share
  <2> QED BY <2>1, <2>2, <2>3, <2>4, <2>5 DEF MadeNext
<1> QED BY <1>3, <1>4, <1>5 DEF UnitsNext

\* DepositAsset: what leaves the register is in the account.
LEMMA DepositUnits ==
    ASSUME TypeOK, MessageOK, RegistryInv, UnitsInv, NEW l \in Location,
           NEW who \in Account, NEW amount \in Amount, DepositAsset(l, who, amount)
    PROVE  UnitsNext
<1> DEFINE a == AssetAt(l)
<1>1. a \in AssetIds /\ amount \in Nat /\ ledger \in Ledger /\ message \in Message
  BY AssetAtIsAsset, ExecutionConstants DEF DepositAsset, MessageOK, TypeOK
<1>2. ledger' = Deposited(ledger, a, who, amount) /\ entered' = entered /\ Matches(l)
  BY DEF DepositAsset
<1>3. Affords(message, l, amount) /\ Gives(message, message', l, amount)
  <2>1. message.holding[l] \in Nat
    BY <1>1 DEF Message
  <2>2. Affords(message, l, amount)
    BY <1>1, <2>1 DEF DepositAsset, Affords
  <2>3. Gives(message, message', l, amount)
    BY <1>1 DEF DepositAsset, Gives, HoldsNow, Entry, Message
  <2> QED BY <2>2, <2>3
<1>4. FeesStand(message')
  BY <1>1 DEF DepositAsset, UnitsInv, FeesStand, Covered, Message
<1>5. ASSUME NEW id \in AssetIds PROVE MadeNext(id)
  <2> DEFINE was == InAccounts(ledger, id)
             is == InAccounts(ledger', id)
             share == Share(l, id, amount)
  <2>1. UnitsIn(message', id) \in Nat /\ UnitsIn(message, id) = UnitsIn(message', id) + share
    BY <1>1, <1>3, GivesUnits
  <2>2. was \in Nat /\ entered[id] \in Nat /\ BonusOf(message, id) \in Nat
    BY CountedNow
  <2>3. is = was + share
    <3>1. /\ InAccounts(ledger', a) = InAccounts(ledger, a) + amount
          /\ \A x \in AssetIds : x # a => InAccounts(ledger', x) = InAccounts(ledger, x)
      BY <1>1, <1>2, DepositedUnits
    <3>2. l \in NamesOf(id) <=> id = a
      BY <1>2 DEF NamesOf
    <3> QED BY <2>2, <3>1, <3>2 DEF Share
  <2>4. share \in Nat /\ entered'[id] = entered[id]
    BY <1>1, <1>2 DEF Share
  <2> HIDE DEF was, is, share
  <2>5. is + UnitsIn(message', id) + entered[id]
            <= was + UnitsIn(message, id) + entered'[id] + BonusOf(message, id)
    BY <2>1, <2>2, <2>3, <2>4
  <2> QED BY <2>5 DEF MadeNext, was, is
<1> QED BY <1>2, <1>4, <1>5 DEF UnitsNext, UnitsInv, EnteredOK

\* What a step inside the message makes there is all it makes.
LEMMA InsideUnits ==
    ASSUME TypeOK, MessageOK, RegistryInv, UnitsInv, UNCHANGED <<ledger, entered>>,
           message' \in Message, FeesStand(message'),
           \A id : UnitsIn(message', id) <= UnitsIn(message, id) + BonusOf(message, id)
    PROVE  UnitsNext
<1>1. ASSUME NEW id \in AssetIds PROVE MadeNext(id)
  <2> DEFINE was == InAccounts(ledger, id)
  <2>1. was \in Nat /\ UnitsIn(message, id) \in Nat /\ entered[id] \in Nat
        /\ BonusOf(message, id) \in Nat
    BY CountedNow
  <2>2. UnitsIn(message', id) \in Nat
    BY UnitsInNat
  <2>3. UnitsIn(message', id) <= UnitsIn(message, id) + BonusOf(message, id)
    OBVIOUS
  <2>4. InAccounts(ledger', id) = was /\ entered'[id] = entered[id]
        /\ InAccounts(ledger, id) = was
    OBVIOUS
  <2> HIDE DEF was
  <2> QED BY <2>1, <2>2, <2>3, <2>4 DEF MadeNext
<1> QED BY <1>1 DEF UnitsNext, UnitsInv, EnteredOK

\* A step inside the message that makes no units there makes none.
LEMMA InsideNothing ==
    ASSUME TypeOK, MessageOK, RegistryInv, UnitsInv, UNCHANGED <<ledger, entered>>,
           message' \in Message, FeesStand(message'),
           \A id : UnitsIn(message', id) <= UnitsIn(message, id)
    PROVE  UnitsNext
<1>1. ASSUME NEW id
      PROVE  UnitsIn(message', id) <= UnitsIn(message, id) + BonusOf(message, id)
  <2>1. UnitsIn(message', id) \in Nat /\ UnitsIn(message, id) \in Nat
        /\ BonusOf(message, id) \in Nat
    BY UnitsInNat, BonusInNat DEF MessageOK
  <2>2. UnitsIn(message', id) <= UnitsIn(message, id)
    OBVIOUS
  <2> QED BY <2>1, <2>2
<1> QED BY <1>1, InsideUnits

\* BuyExecution: the first one covers the whole message, or is free.
LEMMA BuyUnits ==
    ASSUME TypeOK, MessageOK, RegistryInv, UnitsInv, MessageOK',
           NEW l \in Location, NEW weight \in Weight \cup Limit, BuyExecution(l, weight)
    PROVE  UnitsNext
<1> DEFINE r == BuyWeight(message, l, weight)
<1>1. message \in Message /\ message' \in Message /\ weight \in Nat
  BY ExecutionConstants DEF MessageOK
<1>2. HasRate(l) /\ Cost(l, weight) <= message.holding[l] /\ NativeNames
      /\ UNCHANGED <<ledger, entered>>
  BY DEF BuyExecution, Affordable, UnitsInv
<1>3. r \in Message
  BY <1>1, <1>2, BuyWeightIsMessage
<1>4. \A id : UnitsIn(r, id) <= UnitsIn(message, id)
  BY <1>1, <1>2, BuyWeightUnits
<1>5. Covered(message)
  BY DEF BuyExecution, UnitsInv, FeesStand
<1>6. ~message.pays /\ ~message.free => weight = message.weight /\ message.refunded = 0
  BY DEF BuyExecution, UnitsInv, FeesStand
<1>7. Covered(r) /\ (Cost(l, weight) # 0 => r.pays)
  BY <1>1, <1>2, <1>5, <1>6, BuyWeightCovers
<1>12. r.free = message.free /\ (Cost(l, weight) = 0 => r = message)
       /\ (r.pays \/ r.cache = message.cache)
  BY <1>1 DEF r, BuyWeight, Cached, Message
<1> DEFINE free == message.free \/ IsFree(l, weight)
<1>8. message' = [r EXCEPT !.stage = "paid", !.free = free]
  BY <1>12 DEF BuyExecution
<1>13. Cost(l, weight) = 0 => message.pays \/ free
  BY DEF BuyExecution, IsFree, UnitsInv, FeesStand
<1>14. message.free => free
  OBVIOUS
<1> HIDE DEF r, free
<1>9. message'.holding = r.holding /\ message'.pays = r.pays /\ message'.cache = r.cache
      /\ message'.refunded = r.refunded /\ message'.surplus = r.surplus
      /\ message'.weight = r.weight /\ message'.stage = "paid" /\ message'.free = free
  BY <1>3, <1>8 DEF Message
<1>10. FeesStand(message')
  <2>1. Covered(message')
    BY <1>7, <1>9, <1>12, <1>14 DEF Covered
  <2>2. message'.pays \/ message'.free
    BY <1>7, <1>9, <1>12, <1>13
  <2>3. ~message.pays => message.cache.amount = 0
    BY DEF UnitsInv, FeesStand
  <2>4. ~message'.pays => message'.cache.amount = 0
    <3>1. message.pays => r.pays
      BY <1>1 DEF r, BuyWeight, Cached, Message
    <3> QED BY <1>9, <1>12, <2>3, <3>1
  <2> QED BY <1>9, <2>1, <2>2, <2>4 DEF FeesStand
<1>11. \A id : UnitsIn(message', id) <= UnitsIn(message, id)
  <2>1. \A id : UnitsIn(message', id) = UnitsIn(r, id)
    BY <1>9 DEF UnitsIn, FeesOf
  <2> QED BY <1>4, <2>1
<1> QED BY <1>1, <1>2, <1>10, <1>11, InsideNothing

LEMMA SurplusUnits ==
    ASSUME TypeOK, MessageOK, RegistryInv, UnitsInv, MessageOK',
           NEW surplus \in 1 .. message.weight, SurplusOfTransact(surplus)
    PROVE  UnitsNext
<1>1. message \in Message /\ message' \in Message /\ surplus \in Nat
      /\ message.surplus \in Nat /\ message.weight \in Nat /\ message.refunded \in Nat
  BY DEF MessageOK, Message
<1>2. surplus > message.surplus /\ surplus < message.weight /\ message.stage = "paid"
  BY <1>1 DEF SurplusOfTransact
<1>3. message'.holding = message.holding /\ message'.pays = message.pays
      /\ message'.cache = message.cache /\ message'.refunded = message.refunded
      /\ message'.surplus = surplus /\ message'.weight = message.weight
      /\ message'.stage = message.stage /\ message'.free = message.free
      /\ UNCHANGED <<ledger, entered>>
  BY <1>1 DEF SurplusOfTransact, Message
<1>4. FeesStand(message')
  BY <1>1, <1>2, <1>3 DEF UnitsInv, FeesStand, Covered
<1>5. \A id : UnitsIn(message', id) <= UnitsIn(message, id)
  <2>1. ASSUME NEW id PROVE UnitsIn(message', id) <= UnitsIn(message, id)
    <3>1. UnitsIn(message', id) = UnitsIn(message, id)
      BY <1>3 DEF UnitsIn, FeesOf
    <3>2. UnitsIn(message, id) \in Nat
      BY <1>1, UnitsInNat
    <3> QED BY <3>1, <3>2
  <2> QED BY <2>1
<1> QED BY <1>1, <1>3, <1>4, <1>5, InsideNothing

\* RefundSurplus: the fees lose what the register gets, but for the bonus.
LEMMA RefundUnits ==
    ASSUME TypeOK, MessageOK, RegistryInv, UnitsInv, MessageOK', RefundSurplus
    PROVE  UnitsNext
<1>1. message \in Message /\ message' \in Message /\ message' = Refunded(message)
      /\ message.stage = "paid" /\ UNCHANGED <<ledger, entered>>
  BY DEF MessageOK, RefundSurplus
<1>2. Covered(message) /\ NativeNames /\ (message.pays \/ message.free)
      /\ (~message.pays => message.cache.amount = 0)
  BY <1>1 DEF UnitsInv, FeesStand
<1>3. /\ \A id : UnitsIn(message', id) <= UnitsIn(message, id) + BonusOf(message, id)
      /\ Covered(message') /\ message'.pays = message.pays /\ message'.stage = message.stage
      /\ message'.free = message.free
      /\ ~message.pays => message'.cache = message.cache
  BY <1>1, <1>2, RefundedKeepsUnits
<1>4. FeesStand(message')
  BY <1>1, <1>2, <1>3 DEF FeesStand
<1> QED BY <1>1, <1>3, <1>4, InsideUnits

\* The fees a message leaves become units of its asset in the treasury, or are lost.
LEMMA RevenueUnits ==
    ASSUME TypeOK, NativeNames, NEW m \in Message, NEW id \in AssetIds,
           ~m.pays => m.cache.amount = 0
    PROVE  /\ InAccounts(RevenueTaken(m), id) \in Nat /\ InAccounts(ledger, id) \in Nat
           /\ InAccounts(RevenueTaken(m), id) <= InAccounts(ledger, id) + FeesOf(m, id)
<1> DEFINE l == m.cache.location
           amount == m.cache.amount
           a == locationAssetId[l]
           was == InAccounts(ledger, id)
           fees == FeesOf(m, id)
<1>1. was \in Nat /\ ledger \in Ledger
  BY AccountsInNat DEF TypeOK
<1>2. amount \in Nat /\ fees \in Nat
  BY DEF Message, Fees, FeesOf
<1>3. CASE RevenueTaken(m) = ledger
  <2> HIDE DEF was, fees
  <2>1. was <= was + fees
    BY <1>1, <1>2
  <2> QED BY <1>1, <1>3, <2>1 DEF was, fees
<1>4. CASE amount > 0 /\ l \in DOMAIN locationAssetId
           /\ RevenueTaken(m) = Deposited(ledger, a, Treasury, amount)
  <2>1. a \in AssetIds /\ Treasury \in Account
    BY <1>4, NameOfRegistered, ExecutionConstants
  <2>2. m.pays
    BY <1>4
  <2>3. fees = IF id = a THEN amount ELSE 0
    BY <2>2 DEF FeesOf
  <2> DEFINE new == Deposited(ledger, a, Treasury, amount)
  <2> HIDE DEF a, amount
  <2>4. /\ InAccounts(ledger, a) \in Nat
        /\ InAccounts(new, a) = InAccounts(ledger, a) + amount
        /\ \A x \in AssetIds : x # a => InAccounts(new, x) = InAccounts(ledger, x)
    BY <1>1, <1>2, <2>1, DepositedUnits
  <2> HIDE DEF new
  <2>5. InAccounts(new, id) = was + fees
    <3> HIDE DEF fees
    <3>1. CASE id = a
      BY <2>3, <2>4, <3>1
    <3>2. CASE id # a
      BY <1>1, <2>3, <2>4, <3>2
    <3> QED BY <3>1, <3>2
  <2>6. RevenueTaken(m) = new
    BY <1>4 DEF new
  <2> HIDE DEF was, fees
  <2>7. InAccounts(new, id) \in Nat /\ InAccounts(new, id) <= was + fees
    BY <1>1, <1>2, <2>5
  <2> QED BY <1>1, <2>6, <2>7 DEF was, fees
<1> QED BY <1>3, <1>4 DEF RevenueTaken

LEMMA NothingStands == FeesStand(NoMessage) /\ NoMessage.holding = Nowhere /\ ~NoMessage.pays
BY DEF FeesStand, NoMessage, NoFees

\* The end of a message: refund, fees to the treasury, and what nobody took is trapped.
LEMMA EndUnits ==
    ASSUME TypeOK, MessageOK, RegistryInv, UnitsInv,
           NEW surplus \in 0 .. message.weight, End(surplus)
    PROVE  UnitsNext
<1> DEFINE m == [message EXCEPT !.surplus = surplus]
           r == Refunded(m)
<1>1. message \in Message /\ message.surplus \in Nat /\ message.weight \in Nat
      /\ message.refunded \in Nat /\ surplus \in Nat
  BY DEF MessageOK, Message
<1>2. message.surplus <= surplus /\ surplus < message.weight /\ message.stage # "none"
      /\ ledger' = RevenueTaken(r) /\ message' = NoMessage /\ entered' = entered
  BY <1>1 DEF End, Idle
<1>3. m \in Message /\ m.surplus = surplus /\ m.holding = message.holding
      /\ m.pays = message.pays /\ m.cache = message.cache /\ m.weight = message.weight
      /\ m.refunded = message.refunded /\ m.free = message.free
  BY <1>1 DEF Message
<1>4. Covered(message) /\ NativeNames /\ (~message.pays => message.cache.amount = 0)
  BY <1>2 DEF UnitsInv, FeesStand
<1> HIDE DEF m
<1>5. Covered(m)
  BY <1>1, <1>2, <1>3, <1>4 DEF Covered
<1>6. /\ \A id : UnitsIn(r, id) <= UnitsIn(m, id) + BonusOf(m, id)
      /\ r \in Message /\ r.pays = m.pays
      /\ ~m.pays => r.cache = m.cache
  BY <1>3, <1>4, <1>5, RefundedKeepsUnits
<1>7. ~r.pays => r.cache.amount = 0
  BY <1>3, <1>4, <1>6
<1> HIDE DEF r
<1>8. ASSUME NEW id \in AssetIds PROVE MadeNext(id)
  <2> DEFINE was == InAccounts(ledger, id)
             is == InAccounts(RevenueTaken(r), id)
             fees == FeesOf(r, id)
             stock == Stock(r.holding, id)
  <2>1. is \in Nat /\ is <= was + fees
    BY <1>4, <1>6, <1>7, RevenueUnits
  <2>2. stock \in Nat /\ fees \in Nat /\ UnitsIn(r, id) = stock + fees
    BY <1>6, UnitsInNat
  <2>3. UnitsIn(r, id) <= UnitsIn(message, id) + BonusOf(message, id)
    <3>1. UnitsIn(m, id) = UnitsIn(message, id) /\ BonusOf(m, id) = BonusOf(message, id)
      BY <1>3 DEF UnitsIn, FeesOf, BonusOf, Bonus
    <3> QED BY <1>6, <3>1
  <2>4. was \in Nat /\ entered[id] \in Nat /\ UnitsIn(message, id) \in Nat
        /\ BonusOf(message, id) \in Nat
    BY CountedNow
  <2>5. UnitsIn(message', id) = 0
    BY <1>2, NothingStands, NoneInNothing
  <2>7. InAccounts(ledger', id) = is /\ entered'[id] = entered[id]
        /\ InAccounts(ledger, id) = was
    BY <1>2
  <2> HIDE DEF was, is, fees, stock
  <2>6. is <= was + UnitsIn(message, id) + BonusOf(message, id)
    BY <2>1, <2>2, <2>3, <2>4
  <2> QED BY <2>1, <2>4, <2>5, <2>6, <2>7 DEF MadeNext
<1> QED BY <1>2, <1>8, NothingStands DEF UnitsNext, UnitsInv, EnteredOK

\* What users send back leaves the count as well.
LEMMA SendBackUnits ==
    ASSUME TypeOK, MessageOK, RegistryInv, UnitsInv, NEW a \in AssetIds,
           NEW who \in Sender, NEW amount \in Amount, SendBack(a, who, amount)
    PROVE  UnitsNext
<1>1. amount \in Nat /\ who \in Account /\ ledger \in Ledger /\ entered \in [AssetIds -> Nat]
  BY ExecutionConstants DEF TypeOK, UnitsInv, EnteredOK
<1>2. CanWithdraw(ledger, a, who, amount) /\ ledger' = Withdrawn(ledger, a, who, amount)
      /\ entered' = [entered EXCEPT ![a] = Sub(entered[a], amount)] /\ message' = message
  BY DEF SendBack
<1>3. Sub(entered[a], amount) \in Nat
  BY <1>1, SubInNat
<1>4. EnteredOK'
  BY <1>1, <1>2, <1>3 DEF EnteredOK
<1>5. FeesStand(message')
  BY <1>2 DEF UnitsInv
<1>6. ASSUME NEW id \in AssetIds PROVE MadeNext(id)
  <2> DEFINE was == InAccounts(ledger, id)
             is == InAccounts(ledger', id)
  <2>1. was \in Nat /\ UnitsIn(message, id) \in Nat /\ entered[id] \in Nat
        /\ BonusOf(message, id) \in Nat
    BY CountedNow
  <2>2. /\ InAccounts(ledger, a) \in Nat /\ InAccounts(ledger', a) \in Nat
        /\ InAccounts(ledger', a) + amount <= InAccounts(ledger, a)
        /\ \A x \in AssetIds : x # a => InAccounts(ledger', x) = InAccounts(ledger, x)
    BY <1>1, <1>2, WithdrawnUnits
  <2>3. UnitsIn(message', id) = UnitsIn(message, id)
    BY <1>2 DEF UnitsIn, FeesOf
  <2>4. CASE id = a
    <3>1. is \in Nat /\ is + amount <= was
      BY <2>2, <2>4
    <3>2. entered'[id] = Sub(entered[id], amount)
      BY <1>1, <1>2, <2>4
    <3> HIDE DEF was, is
    <3>3. Sub(entered[id], amount) \in Nat /\ entered[id] <= Sub(entered[id], amount) + amount
      BY <1>1, <2>1 DEF Sub
    <3>4. is + UnitsIn(message', id) + entered[id]
              <= was + UnitsIn(message, id) + entered'[id] + BonusOf(message, id)
      BY <1>1, <2>1, <2>3, <3>1, <3>2, <3>3
    <3> QED BY <3>4 DEF MadeNext, was, is
  <2>5. CASE id # a
    <3>1. is = was /\ entered'[id] = entered[id]
      BY <1>1, <1>2, <2>2, <2>5
    <3> QED BY <2>1, <2>3, <3>1 DEF MadeNext
  <2> QED BY <2>4, <2>5
<1> QED BY <1>4, <1>5, <1>6 DEF UnitsNext

LEMMA MintUnits ==
    ASSUME TypeOK, MessageOK, RegistryInv, UnitsInv, NEW a \in AssetIds,
           NEW who \in Sender, NEW amount \in MintAmount, Mint(a, who, amount)
    PROVE  UnitsNext
<1>1. amount \in Nat /\ who \in Account /\ ledger \in Ledger /\ entered \in [AssetIds -> Nat]
  BY ExecutionConstants, RegistryConstants DEF TypeOK, UnitsInv, EnteredOK
<1>2. ledger' = Deposited(ledger, a, who, amount)
      /\ entered' = [entered EXCEPT ![a] = entered[a] + amount] /\ message' = message
  BY DEF Mint, ForceMintAsset
<1>3. EnteredOK'
  BY <1>1, <1>2 DEF EnteredOK
<1>4. FeesStand(message')
  BY <1>2 DEF UnitsInv
<1>5. ASSUME NEW id \in AssetIds PROVE MadeNext(id)
  <2> DEFINE was == InAccounts(ledger, id)
             is == InAccounts(ledger', id)
             more == IF id = a THEN amount ELSE 0
  <2>1. was \in Nat /\ UnitsIn(message, id) \in Nat /\ entered[id] \in Nat
        /\ BonusOf(message, id) \in Nat
    BY CountedNow
  <2>2. /\ InAccounts(ledger', a) = InAccounts(ledger, a) + amount
        /\ \A x \in AssetIds : x # a => InAccounts(ledger', x) = InAccounts(ledger, x)
    BY <1>1, <1>2, DepositedUnits
  <2>3. UnitsIn(message', id) = UnitsIn(message, id)
    BY <1>2 DEF UnitsIn, FeesOf
  <2>4. is = was + more
    BY <2>1, <2>2
  <2>5. entered'[id] = entered[id] + more /\ more \in Nat
    BY <1>1, <1>2, <2>1
  <2> HIDE DEF was, is, more
  <2>6. is + UnitsIn(message', id) + entered[id]
            <= was + UnitsIn(message, id) + entered'[id] + BonusOf(message, id)
    BY <2>1, <2>3, <2>4, <2>5
  <2> QED BY <2>6 DEF MadeNext, was, is
<1> QED BY <1>3, <1>4, <1>5 DEF UnitsNext

LEMMA ExecutionUnits ==
    ASSUME TypeOK, MessageOK, RegistryInv, UnitsInv, ExecutionStep
    PROVE  UnitsInv' /\ MadeLittle
<1>1. MessageOK' /\ UNCHANGED registry
  BY ExecutionSteps
<1>2. UnitsNext
  BY <1>1, ReceiveUnits, WithdrawUnits, ReserveUnits, DepositUnits, BuyUnits, SurplusUnits,
     RefundUnits, EndUnits, SendBackUnits, MintUnits DEF ExecutionStep, Instruction
<1> QED BY <1>1, <1>2, UnitsNextKeeps

-----------------------------------------------------------------------------
(* The registry changes while no message is under way *)

\* No call of the registry touches a balance, and none gives another asset the native
\* location: governance only moves assets to locations of other chains.
LEMMA RegistryCallsKeep ==
    ASSUME NativeNames, RuntimeUpgrade \/ RegistryCall
    PROVE  ledger'.balances = ledger.balances /\ NativeNames'
<1>1. NativeLocation \notin Foreign
  BY RegistryConstants
<1>2. CASE RuntimeUpgrade
  BY <1>2 DEF RuntimeUpgrade, NativeNames
<1>3. ASSUME NEW meta \in Metadata, RegisterAsset(meta)
      PROVE  ledger'.balances = ledger.balances /\ NativeNames'
  BY <1>3 DEF RegisterAsset, Created, NativeNames
<1>4. ASSUME NEW l \in Foreign, NEW meta \in Metadata, ForceRegisterAsset(l, meta)
      PROVE  ledger'.balances = ledger.balances /\ NativeNames'
  BY <1>1, <1>4 DEF ForceRegisterAsset, Created, NativeNames, Put
<1>5. ASSUME NEW id \in AssetIds, NEW l \in Foreign, UpdateAssetLocation(id, l)
      PROVE  ledger'.balances = ledger.balances /\ NativeNames'
  BY <1>1, <1>5 DEF UpdateAssetLocation, Moved, NativeNames, Put, Drop
<1>6. ASSUME NEW id \in AssetIds, NEW meta \in Metadata, ForceUpdateAssetMetadata(id, meta)
      PROVE  ledger'.balances = ledger.balances /\ NativeNames'
  BY <1>6 DEF ForceUpdateAssetMetadata, locations, NativeNames
<1>7. ASSUME NEW id \in AssetIds, NEW rate \in Rate, SetUnitsPerSecond(id, rate)
      PROVE  ledger'.balances = ledger.balances /\ NativeNames'
  BY <1>7 DEF SetUnitsPerSecond, locations, NativeNames
<1> QED BY <1>2, <1>3, <1>4, <1>5, <1>6, <1>7, RegistryConstants DEF RegistryCall

\* Where the message has nothing, only the accounts count.
LEMMA IdleCounts ==
    ASSUME message.holding = Nowhere, ~message.pays, NEW id PROVE InMessage(id) = 0
BY NoneInNothing DEF InMessage, UnitsIn, Stock, FeesOf, NamesOf

LEMMA RegistryUnits ==
    ASSUME TypeOK, MessageOK, RegistryInv, UnitsInv,
           (RuntimeUpgrade \/ RegistryCall) /\ Idle /\ UNCHANGED <<message, entered>>
    PROVE  UnitsInv' /\ MadeLittle
<1>1. ledger'.balances = ledger.balances /\ NativeNames'
  BY RegistryCallsKeep DEF UnitsInv
<1>2. message.holding = Nowhere /\ ~message.pays /\ message.stage = "none"
  BY DEF UnitsInv, FeesStand, Idle
<1>3. FeesStand(message)' /\ EnteredOK'
  BY <1>2 DEF UnitsInv, FeesStand, EnteredOK
<1>4. ASSUME NEW id \in AssetIds
      PROVE  Around(id)' + entered[id] <= Around(id) + entered'[id] + Unpaid(id)
  <2> DEFINE f == [l \in {l \in Location : Matches(l) /\ AssetAt(l) = id} |-> message.holding[l]]'
  <2>1. \A l \in DOMAIN f : f[l] = 0
    BY <1>2 DEF Nowhere
  <2>2. SumOf(f) = 0
    <3> HIDE DEF f
    <3> QED BY <2>1, SumOfZeros
  <2>3. InMessage(id)' = 0
    BY <1>2, <2>2 DEF InMessage
  <2>4. InAccounts(ledger, id)' = InAccounts(ledger, id) /\ entered'[id] = entered[id]
    BY <1>1 DEF InAccounts
  <2>5. InAccounts(ledger, id) \in Nat /\ entered[id] \in Nat /\ Unpaid(id) \in Nat
        /\ InMessage(id) = 0
    BY <1>2, CountedNow, UnitsOfMessage, IdleCounts
  <2> QED BY <2>3, <2>4, <2>5 DEF Around
<1> QED BY <1>1, <1>3, <1>4 DEF UnitsInv, MadeLittle

-----------------------------------------------------------------------------
(* The start, and the theorem *)

\* On a new chain and on an old one the native location names the native asset alone.
LEMMA InitNativeNames ==
    ASSUME NEW old, NEW meta, NEW version, InitWith(old, meta, version),
           \A id \in DOMAIN old : old[id] \in Foreign
    PROVE  NativeNames
<1> DEFINE ids == Put(old, NativeId, NativeLocation)
<1>1. NativeLocation \notin Foreign
  BY RegistryConstants
<1>2. NativeId \in DOMAIN ids /\ ids[NativeId] = NativeLocation
  BY DEF Put
<1>3. \A id \in DOMAIN ids : ids[id] = NativeLocation => id = NativeId
  BY <1>1 DEF Put
<1>4. locationAssetId = [l \in {ids[id] : id \in DOMAIN ids} |-> IdAt(ids, l)]
  BY DEF InitWith
<1> HIDE DEF ids
<1>5. IdAt(ids, NativeLocation) = NativeId
  BY <1>2, <1>3 DEF IdAt
<1>6. locationAssetId[NativeLocation] = NativeId
  BY <1>2, <1>4, <1>5
<1> QED BY <1>6 DEF NativeNames

LEMMA InitUnits == InitExecution => UnitsInv
<1> SUFFICES ASSUME InitExecution PROVE UnitsInv
  OBVIOUS
<1>1. NativeNames
  <2>1. CASE InitWith(NoEntries, NativeMetadata, 2)
    <3>1. \A id \in DOMAIN NoEntries : NoEntries[id] \in Foreign
      BY DEF NoEntries
    <3>2. NativeNames
      BY <2>1, <3>1, InitNativeNames
    <3> QED BY <3>2
  <2>2. ASSUME NEW old \in OldAssets, NEW meta \in Metadata, InitWith(old, meta, 0)
        PROVE  NativeNames
    <3>1. \A id \in DOMAIN old : old[id] \in Foreign
      BY RegistryConstants DEF OldAssets
    <3>2. NativeNames
      BY <2>2, <3>1, InitNativeNames
    <3> QED BY <3>2
  <2> QED BY <2>1, <2>2 DEF InitExecution, Init
<1>2. message = NoMessage /\ entered = [id \in AssetIds |-> 0]
  BY DEF InitExecution
<1>3. FeesStand(message)
  BY <1>2, NothingStands
<1> QED BY <1>1, <1>2, <1>3 DEF UnitsInv, EnteredOK

\* Every step keeps the fees covered, and makes no more than the bonus.
LEMMA NextUnits == IInv /\ UnitsInv /\ [Next]_vars => UnitsInv' /\ [MadeLittle]_vars
<1> SUFFICES ASSUME IInv, UnitsInv, [Next]_vars PROVE UnitsInv' /\ [MadeLittle]_vars
  OBVIOUS
<1> USE DEF IInv
<1>1. CASE UNCHANGED vars
  <2>1. UNCHANGED registry /\ UNCHANGED <<ledger, message, entered>>
    BY <1>1 DEF vars
  <2>2. NativeNames'
    BY <2>1 DEF UnitsInv, NativeNames, registry, locations
  <2>3. FeesStand(message)' /\ EnteredOK'
    BY <2>1 DEF UnitsInv, FeesStand, Covered, EnteredOK, registry, locations
  <2> QED BY <1>1, <2>2, <2>3 DEF UnitsInv
<1>2. CASE ExecutionStep
  BY <1>2, ExecutionUnits
<1>3. CASE (RuntimeUpgrade \/ RegistryCall) /\ Idle /\ UNCHANGED <<message, entered>>
  BY <1>3, RegistryUnits
<1> QED BY <1>1, <1>2, <1>3 DEF Next, ExecutionStep

\* No message, refund or revenue makes units of an asset, whatever the rates and weights,
\* however often weight is bought and given back, and in whatever order: rounding and the
\* fees kept always lose to what was paid, if the first purchase of a message was paid for.
\* If it was free, a step makes no more than the price of the whole message.
THEOREM NothingIsEverMade == Spec => NothingIsMade
<1>1. Spec => []UnitsInv
  BY InitUnits, NextUnits, InvHolds, PTL DEF Spec
<1>2. IInv /\ UnitsInv /\ [Next]_vars => [MadeLittle]_vars
  BY NextUnits
<1>3. Spec => [][MadeLittle]_vars
  BY <1>1, <1>2, InvHolds, PTL DEF Spec
<1> QED BY <1>3, PTL DEF NothingIsMade, MadeLittle
=============================================================================
