----------------------------- MODULE AssetManager -----------------------------
(***************************************************************************)
(* pallets/asset-manager: the registry of assets.  Governance registers    *)
(* the assets of other chains under the location they come from; anybody   *)
(* registers assets and NFTs of this chain.  Locations and ids point to    *)
(* each other, and how many assets come from a parachain decides whether   *)
(* transfers to it are allowed.                                            *)
(*                                                                         *)
(* A call is transactional: one that fails changes nothing and is no step. *)
(* Metadata is cut down to what identifies an asset; names, decimals and   *)
(* flags are left out, and so are the deposits a registration reserves,    *)
(* for the lack of which it may fail at any time.                          *)
(***************************************************************************)
EXTENDS FungibleLedger

CONSTANTS
    Location, NativeLocation,
    ParaId, OwnPara, NoPara,
    ParaOf,             \* the first junction of a location, if a Parachain
    Metadata,           \* [kind, id, owner]
    Rate, MintAmount,   \* what governance sets and mints
    Priced,             \* bound: the assets it sets rates of
    Foreign,            \* the locations governance gives to assets: of other chains
    OldLocations        \* bound: what a chain from before the counts registered

Kind == {"Fungible", "NonFungible", "SBT"}

ASSUME RegistryConstants ==
    /\ NativeLocation \in Location
    /\ OwnPara \in ParaId /\ NoPara \notin ParaId
    /\ ParaOf \in [Location -> ParaId \cup {NoPara}]
    /\ ParaOf[NativeLocation] = OwnPara
    /\ \A meta \in Metadata : meta.kind \in Kind
    /\ Rate \subseteq Nat /\ MintAmount \subseteq Nat
    /\ Priced \subseteq AssetIds
    /\ Foreign \subseteq Location \ {NativeLocation}
    /\ OldLocations \subseteq Foreign
    /\ IsFiniteSet(OldLocations)
    /\ StartId + Cardinality(OldLocations) <= MaxId + 1

VARIABLES
    assetIdLocation,     \* AssetIdLocation
    locationAssetId,     \* LocationAssetId
    assetIdMetadata,     \* AssetIdMetadata
    registeredAssetId,   \* RegisteredAssetId
    nextAssetId,         \* NextAssetId
    unitsPerSecond,      \* UnitsPerSecond
    allowedDestParaIds,  \* AllowedDestParaIds
    storageVersion,      \* the pallet's version on chain
    ledger               \* pallet_assets and pallet_balances

locations == <<assetIdLocation, locationAssetId, allowedDestParaIds>>
identities == <<assetIdMetadata, registeredAssetId, nextAssetId>>
registry == <<locations, identities, unitsPerSecond, storageVersion>>

\* From<AssetStorageMetadata> for AssetIdMapping: the owner tells SBTs apart only
Mapping(meta) ==
    IF meta.kind = "SBT" THEN <<meta.kind, meta.id, meta.owner>> ELSE <<meta.kind, meta.id>>

Identifiers == {Mapping(meta) : meta \in Metadata}

NativeMetadata == [kind |-> "Fungible", id |-> NativeId, owner |-> "nobody"]

TypeOK ==
    /\ IsStorageMap(assetIdLocation, AssetIds, Location)
    /\ IsStorageMap(locationAssetId, Location, AssetIds)
    /\ IsStorageMap(assetIdMetadata, AssetIds, Metadata \cup {NativeMetadata})
    /\ IsStorageMap(registeredAssetId, Identifiers, AssetIds)
    /\ nextAssetId \in StartId .. (MaxId + 1)
    /\ IsStorageMap(unitsPerSecond, AssetIds, Rate)
    /\ IsStorageMap(allowedDestParaIds, ParaId, Nat \ {0})
    /\ storageVersion \in 0 .. 2
    /\ ledger \in Ledger

-----------------------------------------------------------------------------
(* The count of the assets of a parachain *)

\* increase_count_of_associated_assets
IncreaseCount(counts, para) ==
    IF para = NoPara THEN counts
    ELSE Put(counts, para, IF para \in DOMAIN counts THEN counts[para] + 1 ELSE 1)

\* Mistake (RegistryAgrees must notice): the entry goes with the first asset that moves
DecreaseCountToZero(counts, para) ==
    IF para = NoPara THEN counts ELSE Drop(counts, para)

\* Mistake (TypeOK must notice): the last asset leaves an entry of zero, an open destination
DecreaseCountToNothing(counts, para) ==
    IF para = NoPara \/ para \notin DOMAIN counts THEN counts
    ELSE Put(counts, para, Sub(counts[para], 1))

\* update_asset_location: the old parachain; None counts as less than Some(1)
DecreaseCount(counts, para) ==
    IF para = NoPara THEN counts
    ELSE IF para \notin DOMAIN counts \/ counts[para] <= 1 THEN Drop(counts, para)
    ELSE Put(counts, para, counts[para] - 1)

-----------------------------------------------------------------------------
(* The chain at the start: a new one, or one from before the counts *)

\* ids from StartId on for the locations governance registered before
OldAssets ==
    {old \in [StartId .. (StartId + Cardinality(OldLocations) - 1) -> OldLocations] :
        \A i, j \in DOMAIN old : old[i] = old[j] => i = j}

IdAt(ids, location) == CHOOSE id \in DOMAIN ids : ids[id] = location

\* GenesisConfig::build is the case without old assets
InitWith(old, meta, version) ==
    LET ids == Put(old, NativeId, NativeLocation) IN
    /\ assetIdLocation = ids
    /\ locationAssetId = [l \in {ids[id] : id \in DOMAIN ids} |-> IdAt(ids, l)]
    /\ allowedDestParaIds = NoEntries
    /\ assetIdMetadata =
        [id \in DOMAIN ids |-> IF id = NativeId THEN NativeMetadata ELSE meta]
    /\ registeredAssetId = NoEntries
    /\ nextAssetId = StartId + Cardinality(DOMAIN old)
    /\ unitsPerSecond = NoEntries
    /\ storageVersion = version
    /\ ledger = [EmptyLedger EXCEPT !.issued = DOMAIN old]

Init ==
    \/ InitWith(NoEntries, NativeMetadata, 2)
    \/ \E old \in OldAssets, meta \in {meta \in Metadata : meta.kind = "Fungible"} :
        InitWith(old, meta, 0)

\* the assets the migration counts for a parachain
Counted(para) == Cardinality({l \in DOMAIN locationAssetId : ParaOf[l] = para})

\* AllowedDestParaIdsMigration::on_runtime_upgrade, at every upgrade that lists it
RuntimeUpgrade ==
    /\ IF storageVersion < 1
       THEN /\ allowedDestParaIds' =
                [para \in {ParaOf[l] : l \in DOMAIN locationAssetId} \ {NoPara, OwnPara} |->
                    Counted(para) + (IF para \in DOMAIN allowedDestParaIds
                                     THEN allowedDestParaIds[para] ELSE 0)]
            /\ storageVersion' = 1
       ELSE UNCHANGED <<allowedDestParaIds, storageVersion>>
    /\ UNCHANGED <<assetIdLocation, locationAssetId, identities, unitsPerSecond, ledger>>

\* upgrades run before the first call of the new code
Migrated == storageVersion >= 1

-----------------------------------------------------------------------------
(* Calls *)

\* next_asset_id_and_increment
TakesNextId ==
    /\ Migrated
    /\ nextAssetId <= MaxId
    /\ nextAssetId' = nextAssetId + 1

\* MantaAssetRegistry: create_asset, force_create_asset
Created(meta) ==
    IF meta.kind = "Fungible" THEN [ledger EXCEPT !.issued = @ \cup {nextAssetId}] ELSE ledger

\* Mistake (IdentifiersAreForEver must notice): the identifier may have an asset already
RegistersAgain(meta) == Mapping(meta) \in Identifiers

\* ensure AssetIdAlreadyRegistered
RegistersFirst(meta) == Mapping(meta) \notin DOMAIN registeredAssetId

\* register_asset, by anybody: an asset of this chain
RegisterAsset(meta) ==
    /\ TakesNextId
    /\ RegistersFirst(meta)
    /\ ledger' = Created(meta)
    /\ assetIdLocation' = Put(assetIdLocation, nextAssetId, NativeLocation)
    /\ assetIdMetadata' = Put(assetIdMetadata, nextAssetId, meta)
    /\ registeredAssetId' = Put(registeredAssetId, Mapping(meta), nextAssetId)
    /\ UNCHANGED <<locationAssetId, allowedDestParaIds, unitsPerSecond, storageVersion>>

\* force_register_asset, by governance: an asset of another chain
ForceRegisterAsset(location, meta) ==
    /\ TakesNextId
    /\ location \notin DOMAIN locationAssetId
    /\ ledger' = Created(meta)
    /\ assetIdLocation' = Put(assetIdLocation, nextAssetId, location)
    /\ assetIdMetadata' = Put(assetIdMetadata, nextAssetId, meta)
    /\ locationAssetId' = Put(locationAssetId, location, nextAssetId)
    /\ allowedDestParaIds' = IncreaseCount(allowedDestParaIds, ParaOf[location])
    /\ UNCHANGED <<registeredAssetId, unitsPerSecond, storageVersion>>

\* update_asset_location: the location to the asset
Moved(id, location) == Put(Drop(locationAssetId, assetIdLocation[id]), location, id)

\* update_asset_location
UpdateAssetLocation(id, location) ==
    /\ Migrated
    /\ id \in DOMAIN assetIdLocation
    /\ location \notin DOMAIN locationAssetId
    /\ locationAssetId' = Moved(id, location)
    /\ assetIdLocation' = Put(assetIdLocation, id, location)
    /\ allowedDestParaIds' =
        IncreaseCount(DecreaseCount(allowedDestParaIds, ParaOf[assetIdLocation[id]]),
                      ParaOf[location])
    /\ UNCHANGED <<identities, unitsPerSecond, storageVersion, ledger>>

\* Mistake (FungiblesExist must notice): pallet_assets is not asked
UpdatesRegistryOnly(id, meta) == id \in DOMAIN assetIdMetadata

\* MantaAssetRegistry::force_update_metadata: Assets::force_set_metadata
UpdatesMetadata(id, meta) == meta.kind = "Fungible" => id \in ledger.issued

\* force_update_asset_metadata
ForceUpdateAssetMetadata(id, meta) ==
    /\ Migrated
    /\ id # NativeId
    /\ id \in DOMAIN assetIdLocation
    /\ UpdatesMetadata(id, meta)
    /\ assetIdMetadata' = Put(assetIdMetadata, id, meta)
    /\ UNCHANGED <<locations, registeredAssetId, nextAssetId, unitsPerSecond, storageVersion, ledger>>

SetUnitsPerSecond(id, rate) ==
    /\ Migrated
    /\ id \in DOMAIN assetIdLocation
    /\ unitsPerSecond' = Put(unitsPerSecond, id, rate)
    /\ UNCHANGED <<locations, identities, storageVersion, ledger>>

\* force_mint_asset
ForceMintAsset(id, who, amount) ==
    /\ Migrated
    /\ id \in DOMAIN assetIdLocation
    /\ CanDeposit(ledger, id, who, amount)
    /\ ledger' = Deposited(ledger, id, who, amount)
    /\ UNCHANGED registry

\* Contains<MultiLocation>: transfers out go to the relay chain and to these
DestinationAllowed(para) == para = NoPara \/ para \in DOMAIN allowedDestParaIds

RegistryCall ==
    \/ \E meta \in Metadata : RegisterAsset(meta)
    \/ \E location \in Foreign, meta \in Metadata : ForceRegisterAsset(location, meta)
    \/ \E id \in AssetIds, location \in Foreign : UpdateAssetLocation(id, location)
    \/ \E id \in AssetIds, meta \in Metadata : ForceUpdateAssetMetadata(id, meta)
    \/ \E id \in Priced, rate \in Rate : SetUnitsPerSecond(id, rate)
=============================================================================
