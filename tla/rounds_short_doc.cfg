\* Rounds of three blocks that governance shortens to one: are all authors still paid?
SPECIFICATION RoundsSpec
CONSTANTS
    c1 = c1
    d1 = d1
    treasury = treasury
    Account = {c1, d1, treasury}
    Joiners = {c1}
    Backers = {d1}
    MaxTop = 1
    MaxBottom = 1
    Amounts = {1}
    CandidateFunds = 1
    BackerFunds = 2
    FreeBalance <- MCFreeBalance
    InitialWhitelist = {}
    MinCandidateStk = 1
    MinWhitelistCandidateStk = 1
    MinDelegatorStk = 1
    MinDelegation = 1
    MaxDelegationsPerDelegator = 1
    LeaveCandidatesDelay = 1
    CandidateBondLessDelay = 1
    LeaveDelegatorsDelay = 1
    RevokeDelegationDelay = 1
    MaxRound = 3
    Authors = {c1, d1}
    RewardPaymentDelay = 1
    MinCollatorStk = 1
    MinSelectedCandidates = 1
    MinBlocksPerRound = 1
    InitialBlocksPerRound = 3
    InitialCommission = 20
    InitialReserve = 0
    SelectedTotals = {1}
    RoundLengths = {1}
    Commissions = {60}
    Reserves = {30}
    InitialExpect <- MCExpect
    Expectations <- NoRanges
    InitialAnnual <- MCAnnual
    InitialRound <- MCRound
    Schedules <- NoRanges
    InitialBondAccount = treasury
    BondAccounts = {}
    BlocksPerYear = 3
    Supply = 40
    Accuracy = 100
INVARIANT EveryAuthorIsPaid
