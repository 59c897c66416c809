\* Rounds of two blocks over a ledger with two candidates and one backer: selections,
\* also from nobody, and snapshots with requests pending.  Issuance is left at zero.
SPECIFICATION RoundsSpec
CONSTANTS
    c1 = c1
    c2 = c2
    d1 = d1
    treasury = treasury
    Account = {c1, c2, d1, treasury}
    Joiners = {c1, c2}
    Backers = {d1}
    MaxTop = 1
    MaxBottom = 1
    Amounts = {1}
    CandidateFunds = 1
    BackerFunds = 2
    FreeBalance <- MCFreeBalance
    InitialWhitelist = {}
    MinCandidateStk = 1
    MinWhitelistCandidateStk = 1
    MinDelegatorStk = 1
    MinDelegation = 1
    MaxDelegationsPerDelegator = 1
    LeaveCandidatesDelay = 1
    CandidateBondLessDelay = 1
    LeaveDelegatorsDelay = 1
    RevokeDelegationDelay = 1
    MaxRound = 3
    Authors = {c1}
    RewardPaymentDelay = 1
    MinCollatorStk = 1
    MinSelectedCandidates = 1
    MinBlocksPerRound = 2
    InitialBlocksPerRound = 2
    InitialCommission = 20
    InitialReserve = 0
    SelectedTotals = {2}
    RoundLengths = {2}
    Commissions = {20}
    Reserves = {30}
    InitialExpect <- MCExpect
    Expectations <- MCExpectations
    InitialAnnual <- MCAnnual
    InitialRound <- MCRound
    Schedules <- NoRanges
    InitialBondAccount = treasury
    BondAccounts = {}
    BlocksPerYear = 6
    Supply = 0
    Accuracy = 100
INVARIANTS
    SnapshotsAddUp
    SelectedHaveSnapshots
