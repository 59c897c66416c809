------------------------ MODULE XcmExecutionProperties ------------------------
(***************************************************************************)
(* What the registry of assets and the messages that use it promise.       *)
(***************************************************************************)
EXTENDS XcmExecution

\* Wherever a location leads, the asset found there has that location: update_asset_location
\* takes the old entry away before anything else can be registered in its place.
LocationsPointBack ==
    \A l \in DOMAIN locationAssetId :
        /\ locationAssetId[l] \in DOMAIN assetIdLocation
        /\ assetIdLocation[locationAssetId[l]] = l

FromPara(para) == {id \in DOMAIN assetIdLocation : ParaOf[assetIdLocation[id]] = para}

\* The count of every other parachain is the number of assets registered from it, however
\* they were registered and moved, and there is an entry, which opens the parachain as a
\* destination, exactly when there is such an asset.  This chain's own count says nothing:
\* its native asset and the assets of its users are not counted (lib.rs:331).
CountsAreExact ==
    Migrated => \A para \in ParaId \ {OwnPara} :
        /\ para \in DOMAIN allowedDestParaIds <=> FromPara(para) # {}
        /\ para \in DOMAIN allowedDestParaIds =>
            allowedDestParaIds[para] = Cardinality(FromPara(para))

\* What asset-manager keeps about an asset in several maps and a counter agrees, whatever
\* was registered, moved and moved back in between.
RegistryAgrees == LocationsPointBack /\ CountsAreExact

\* What the registry calls a fungible asset exists in pallet_assets, through every change of
\* metadata: a mint or a message never meets an asset that only the registry knows.
FungiblesExist ==
    \A id \in DOMAIN assetIdMetadata :
        assetIdMetadata[id].kind = "Fungible" => Exists(ledger, id)

\* An identifier of the private ledger means the same asset for ever, and no other
\* identifier means it too: notes made of it long ago stay what they were.
IdentifiersAreForEver ==
    [][\A i \in DOMAIN registeredAssetId :
        /\ i \in DOMAIN registeredAssetId'
        /\ registeredAssetId'[i] = registeredAssetId[i]
        /\ \A j \in DOMAIN registeredAssetId' :
            registeredAssetId'[j] = registeredAssetId[i] => i = j]_vars

\* units of an asset in the holding register and in the fees not yet given to the treasury
InMessage(id) ==
    SumOf([l \in {l \in Location : Matches(l) /\ AssetAt(l) = id} |-> message.holding[l]])
    + IF message.pays /\ locationAssetId[message.cache.location] = id
      THEN message.cache.amount ELSE 0

Around(id) == InAccounts(ledger, id) + InMessage(id)

\* What the trader may give back beyond what it took: of the asset it keeps fees of, the
\* price of the message, and only if the message's first purchase cost nothing.
Unpaid(id) ==
    IF message.free /\ message.pays /\ locationAssetId[message.cache.location] = id
    THEN Price(message.cache.rate, message.weight) ELSE 0

\* Units of an asset are not made by messages: what accounts have, the message holds and the
\* trader keeps, for a refund or the treasury, grows by what is minted or sent here, and by
\* no more than Unpaid: weight is counted twice and given back at another time and for
\* another asset than it was bought for.
NothingIsMade ==
    [][\A id \in AssetIds : Around(id)' + entered[id] <= Around(id) + entered'[id]
                                        + Unpaid(id)]_vars
=============================================================================
