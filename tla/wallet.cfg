\* Two initialisations that may overlap, any number of transactions, one balance in flight
SPECIFICATION Spec
CONSTANTS
    MaxWallets = 2
    Asset = {dol, kma}
    NoBalance = NoBalance
    MaxFetches = 1
INVARIANTS
    FormTypeOK
    CallsAreAlone
    FreshAfterSync
    BalancesAreOfSelection
PROPERTY WalletMakesProgress
