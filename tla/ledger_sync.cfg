\* Pages of two notes and one nullifier, so that they are cut short in all places.
SPECIFICATION SyncSpec
CONSTANTS
    alice = alice
    pallet = pallet
    kma = kma
    one = one
    uno = uno
    two = two
    nil = nil
    void = void
    Account = {alice, pallet}
    Pool = pallet
    Asset = {kma}
    Note = {one, uno, two, nil, void}
    AssetOf <- MCAssetOf
    ValueOf <- MCValueOf
    ShardOf <- MCShardOf
    Width = 2
    Capacity = 3
    MinBalance = 1
    Endowment <- MCEndowment
    MaxReceivers = 2
    MaxSenders = 1
INVARIANT PullsAreBeginnings
PROPERTY ContinuesIffUnfinished
PROPERTY EverythingIsPulled
