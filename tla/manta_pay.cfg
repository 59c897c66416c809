\* Six notes of two assets in two shards, one of which is too small for those that fall into it.
SPECIFICATION Spec
CONSTANTS
    alice = alice
    bob = bob
    pallet = pallet
    kma = kma
    dot = dot
    other = other
    one = one
    uno = uno
    two = two
    nil = nil
    void = void
    Account = {alice, bob, pallet}
    Pool = pallet
    Asset = {kma, dot}
    Note = {one, uno, two, nil, void, other}
    AssetOf <- MCAssetOf
    ValueOf <- MCValueOf
    ShardOf <- MCShardOf
    Width = 2
    Capacity = 3
    MinBalance = 1
    PoolEndowment = 1
    Endowment <- MCEndowment
INVARIANT TypeOK
INVARIANT SpentIsInOrder
INVARIANT ShardsHoldUtxos
INVARIANT UnspentCanBeSpent
INVARIANT PayoutsSucceed
INVARIANT PoolBacksNotes
PROPERTY ImplementsPool
CHECK_DEADLOCK FALSE
