\* Is Total all that is locked, as its doc says?  The smallest instance where a bottom
\* delegation can be decreased and its candidate then leave.
SPECIFICATION Spec
CONSTANTS
    c1 = c1
    d1 = d1
    d2 = d2
    c2 = c2
    Account = {c1, c2, d1, d2}
    Joiners = {c1, c2}
    Backers = {d1, d2}
    MaxTop = 1
    MaxBottom = 1
    Amounts = {1, 2}
    CandidateFunds = 1
    Rich = {c1}
    RichFunds = 1
    BackerFunds = 3
    FreeBalance <- MCFreeBalance
    InitialWhitelist = {c1}
    MinCandidateStk = 1
    MinWhitelistCandidateStk = 1
    MinDelegatorStk = 1
    MinDelegation = 1
    MaxDelegationsPerDelegator = 1
    LeaveCandidatesDelay = 1
    CandidateBondLessDelay = 1
    LeaveDelegatorsDelay = 1
    RevokeDelegationDelay = 1
    MaxRound = 2
INVARIANT TotalIsLockedStake
