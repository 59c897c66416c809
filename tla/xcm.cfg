\* Two ids beside the native one, for two assets of one other parachain and one of the relay
\* chain; rates of nothing and of one unit for a unit of weight, for the native one and one
\* of the others: the registry, and one message after another on it.
SPECIFICATION Spec
CONSTANTS
    self = self
    kar = kar
    kusd = kusd
    ksm = ksm
    dolphin = dolphin
    karura = karura
    none = none
    relay = relay
    alice = alice
    treasury = treasury
    Account = {alice, treasury}
    NativeId = 1
    StartId = 2
    MaxId = 3
    Minimum = 2
    Location = {self, kar, kusd, ksm}
    NativeLocation = self
    ParaId = {dolphin, karura}
    OwnPara = dolphin
    NoPara = none
    ParaOf <- MCParaOf
    Metadata <- MCMetadata
    Rate = {0, 1}
    Priced = {1, 2}
    MintAmount = {3}
    Foreign = {kar, kusd, ksm}
    OldLocations = {kar, kusd}
    Relay = relay
    Treasury = treasury
    Sender = {alice}
    Weight = {3}
    Limit = {1}
    WeightPerSecond = 1
    Amount = {3}
    MaxValue = 3
SYMMETRY Assets
INVARIANT TypeOK
INVARIANT RegistryAgrees
INVARIANT FungiblesExist
PROPERTY IdentifiersAreForEver
PROPERTY NothingIsMade
