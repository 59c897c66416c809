\* One candidate and one backer, blocks also by an author that was not selected: payouts
\* one round later, while governance changes commission, inflation and bond account and
\* lengthens rounds; commission and reserve may come to more than the whole.
SPECIFICATION RoundsSpec
CONSTANTS
    c1 = c1
    d1 = d1
    treasury = treasury
    nobody = nobody
    Account = {c1, d1, treasury, nobody}
    Joiners = {c1}
    Backers = {d1}
    MaxTop = 1
    MaxBottom = 1
    Amounts = {1}
    CandidateFunds = 1
    BackerFunds = 2
    FreeBalance <- MCFreeBalance
    InitialWhitelist = {}
    MinCandidateStk = 1
    MinWhitelistCandidateStk = 1
    MinDelegatorStk = 1
    MinDelegation = 1
    MaxDelegationsPerDelegator = 1
    LeaveCandidatesDelay = 1
    CandidateBondLessDelay = 1
    LeaveDelegatorsDelay = 1
    RevokeDelegationDelay = 1
    MaxRound = 3
    Authors = {c1, d1}
    RewardPaymentDelay = 1
    MinCollatorStk = 1
    MinSelectedCandidates = 1
    MinBlocksPerRound = 2
    InitialBlocksPerRound = 2
    InitialCommission = 20
    InitialReserve = 30
    SelectedTotals = {1}
    RoundLengths = {3}
    Commissions = {80}
    Reserves = {30}
    InitialExpect <- MCExpect
    Expectations <- NoRanges
    InitialAnnual <- MCAnnual
    InitialRound <- MCRound
    Schedules <- MCSchedules
    InitialBondAccount = nobody
    BondAccounts = {treasury}
    BlocksPerYear = 6
    Supply = 100
    Accuracy = 100
INVARIANTS
    EveryAuthorIsPaid
    InflationIsCurrent
PROPERTY PayoutIsWithinShare
