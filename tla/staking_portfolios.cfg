\* Two candidates and three delegators of whom one backs both: several requests per
\* delegator, delegators and collators that leave with requests pending, kicks that
\* end one of several bonds.  c2 may be a candidate or a delegator, and only d1 has the
\* funds to back both candidates.
SPECIFICATION Spec
CONSTANTS
    c1 = c1
    c2 = c2
    d1 = d1
    d2 = d2
    Account = {c1, c2, d1, d2}
    Joiners = {c1, c2}
    Backers = {c2, d1, d2}
    MaxTop = 1
    MaxBottom = 1
    Amounts = {1, 2}
    CandidateFunds = 2
    Rich = {c1, d1}
    RichFunds = 3
    BackerFunds = 2
    FreeBalance <- MCFreeBalance
    InitialWhitelist = {c1}
    MinCandidateStk = 2
    MinWhitelistCandidateStk = 1
    MinDelegatorStk = 2
    MinDelegation = 1
    MaxDelegationsPerDelegator = 2
    LeaveCandidatesDelay = 1
    CandidateBondLessDelay = 1
    LeaveDelegatorsDelay = 1
    RevokeDelegationDelay = 1
    MaxRound = 2
PROPERTY ImplementsLedger
INVARIANTS
    PoolIsCurrent
    LocksMatchStake
    RequestsStayValid
    TotalIsNeverOverstated
