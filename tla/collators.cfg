\* An invulnerable and two candidates, one of which may lose its keys.
SPECIFICATION FairSpec
CONSTANTS
    steady = steady
    rival = rival
    novice = novice
    Account = {steady, rival, novice}
    InitialInvulnerables = {steady}
    InitialBond = 2
    InitialDesired = 2
    InitialBaseline = 80
    InitialTolerance = 40
    InvulnerableChoices <- MCInvulnerableChoices
    BondChoices = {1}
    DesiredChoices = {1}
    BaselineChoices = {0, 50}
    ToleranceChoices = {100}
    Rekeying = {rival, novice}
    MaxBlocks = 2
INVARIANT DepositsAreReserved
INVARIANT PerformanceIsOfThisSession
PROPERTY EvictionIsByPercentile
PROPERTY SeatsAreCurrent
PROPERTY MembershipMovesSeats
