\* The pallet account without the existential deposit that tests and benchmarks give it.
SPECIFICATION Spec
CONSTANTS
    alice = alice
    bob = bob
    pallet = pallet
    kma = kma
    dot = dot
    other = other
    one = one
    uno = uno
    two = two
    nil = nil
    void = void
    Account = {alice, bob, pallet}
    Pool = pallet
    Asset = {kma, dot}
    Note = {one, uno, two, nil, void, other}
    AssetOf <- MCAssetOf
    ValueOf <- MCValueOf
    ShardOf <- MCShardOf
    Width = 2
    Capacity = 3
    MinBalance = 1
    PoolEndowment = 0
    Endowment <- MCEndowment

INVARIANT PayoutsSucceed
CHECK_DEADLOCK FALSE
