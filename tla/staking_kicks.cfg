\* One candidate with room for two delegations in each list and five backers: full
\* books, kicks, and every way of moving a delegation between or within the lists.
SPECIFICATION Spec
CONSTANTS
    c1 = c1
    d1 = d1
    d2 = d2
    d3 = d3
    d4 = d4
    d5 = d5
    Account = {c1, d1, d2, d3, d4, d5}
    Joiners = {c1}
    Backers = {d1, d2, d3, d4, d5}
    MaxTop = 2
    MaxBottom = 2
    Amounts = {1, 2, 3}
    CandidateFunds = 1
    Rich = {c1}
    RichFunds = 1
    BackerFunds = 3
    FreeBalance <- MCFreeBalance
    InitialWhitelist = {c1}
    MinCandidateStk = 1
    MinWhitelistCandidateStk = 1
    MinDelegatorStk = 1
    MinDelegation = 1
    MaxDelegationsPerDelegator = 1
    LeaveCandidatesDelay = 1
    CandidateBondLessDelay = 1
    LeaveDelegatorsDelay = 1
    RevokeDelegationDelay = 1
    MaxRound = 2
SYMMETRY BackerSymmetry
INVARIANTS
    TypeOK
    BooksAgree
    TopIsGreatest
    EveryBondIsFound
PROPERTY StakeIsTakenWithCause
