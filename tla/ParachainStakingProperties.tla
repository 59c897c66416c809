---------------------- MODULE ParachainStakingProperties ----------------------
(***************************************************************************)
(* What makes the bonding ledger correct.  The same stake is written down  *)
(* in five places: the delegator's own record, the candidate's two lists,  *)
(* the metadata cached from them, the candidate pool and the balance locks *)
(* of the two accounts.  Every extrinsic touches several of them, and the  *)
(* code trusts that they agree (it says `expect("... qed")` where it       *)
(* does): the invariants say that they do after every sequence of calls.   *)
(***************************************************************************)
EXTENDS ParachainStaking

\* all delegations to c, from the greatest to the least if the book is in order
Backing(c) == candidate[c].top.list \o candidate[c].bottom.list

BackersOf(c) == {d \in DOMAIN delegator : c \in DOMAIN delegator[d].bonds}

ListSum(list) == SumOf([i \in DOMAIN list |-> list[i].amount])

(***************************************************************************)
(* The pool lists exactly the active candidates, each with its self bond   *)
(* and top delegations as they are now: the selection of collators, which  *)
(* reads nothing else, never ranks a stale stake (update_active is called  *)
(* from reset_top_data and from the bond calls, and nowhere else).         *)
(***************************************************************************)
PoolIsCurrent ==
    pool = [c \in {c \in DOMAIN candidate : candidate[c].status = "Active"} |->
                candidate[c].counted]

(***************************************************************************)
(* A delegator's record and the candidates' lists tell the same story:     *)
(* every bond is in exactly one of the two lists of a live candidate, once *)
(* and with the same amount, and nothing else is listed.                   *)
(***************************************************************************)
ListsMatchBonds ==
    /\ \A c \in DOMAIN candidate :
        /\ Owners(Backing(c)) = BackersOf(c)
        /\ Len(Backing(c)) = Cardinality(BackersOf(c))
        /\ \A i \in DOMAIN Backing(c) :
            Backing(c)[i].amount = delegator[Backing(c)[i].owner].bonds[c]
    /\ \A d \in DOMAIN delegator : DOMAIN delegator[d].bonds \subseteq DOMAIN candidate

(***************************************************************************)
(* The top list holds the greatest delegations and is filled first: the    *)
(* stake a candidate is ranked and rewarded by is the greatest its backers *)
(* give it, whatever sequence of increases, decreases, kicks and           *)
(* revocations moved delegations between the lists.                        *)
(***************************************************************************)
TopIsGreatest ==
    \A c \in DOMAIN candidate :
        /\ \A i, j \in DOMAIN Backing(c) :
            i < j => Backing(c)[i].amount >= Backing(c)[j].amount
        /\ Len(candidate[c].top.list) <= MaxTop
        /\ Len(candidate[c].bottom.list) <= MaxBottom
        /\ candidate[c].bottom.list # <<>> => Len(candidate[c].top.list) = MaxTop

(***************************************************************************)
(* Everything CandidateMetadata caches is what the lists say: the counted  *)
(* stake, the number of delegations, the amounts and capacities by which   *)
(* the calls choose the list to work on.                                   *)
(***************************************************************************)
MetadataMatchesLists ==
    \A c \in DOMAIN candidate :
        LET book == candidate[c]
            top == book.top.list
            bottom == book.bottom.list
        IN  /\ book.counted = book.bond + ListSum(top)
            /\ book.top.total = ListSum(top)
            /\ book.count = Len(top) + Len(bottom)
            /\ book.lowTop = LowestAmount(top)
            /\ book.highBottom = HighestAmount(bottom)
            /\ book.lowBottom = LowestAmount(bottom)
            /\ book.topCapacity = CapacityOf(top, MaxTop)
            /\ book.bottomCapacity = CapacityOf(bottom, MaxBottom)

(***************************************************************************)
(* The three places that record a delegation agree: the delegator's own    *)
(* record, the candidate's lists and what its metadata caches of them.     *)
(***************************************************************************)
BooksAgree == ListsMatchBonds /\ MetadataMatchesLists

(***************************************************************************)
(* The balance locks are the stake: a candidate's lock is its self bond, a *)
(* delegator's lock is the sum of its bonds, and an account with neither   *)
(* has nothing locked, so that no call strands funds or frees bonded ones. *)
(***************************************************************************)
LocksMatchStake ==
    \A a \in Account :
        /\ collatorLock[a] = IF IsCandidate(a) THEN candidate[a].bond ELSE 0
        /\ delegatorLock[a] = IF IsDelegator(a) THEN SumOf(delegator[a].bonds) ELSE 0
        /\ IsDelegator(a) => delegator[a].total = delegatorLock[a]

(***************************************************************************)
(* A scheduled request stays executable as written until it is executed or *)
(* cancelled: it concerns a live delegation, is the only one on it, a      *)
(* revoke is for all of the bond, a decrease leaves at least MinDelegation *)
(* and lessTotal adds them up, through kicks, exits and leaving.  So does  *)
(* a candidate's own: it still leaves the minimum self bond when it is     *)
(* executed (the "arithmetic assumptions" execute_bond_less relies on).    *)
(***************************************************************************)
RequestsStayValid ==
    /\ \A r \in requests :
        /\ Backs(r.delegator, r.collator)
        /\ RequestsFrom(r.delegator, r.collator) = {r}
        /\ LET bond == delegator[r.delegator].bonds[r.collator] IN
            IF IsRevoke(r) THEN r.amount = bond ELSE r.amount + MinDelegation <= bond
    /\ \A d \in DOMAIN delegator :
        delegator[d].lessTotal =
            SumOf([r \in {r \in requests : r.delegator = d} |-> r.amount])
    /\ \A c \in {c \in DOMAIN candidate : candidate[c].bondLess # NoBondLess} :
        candidate[c].bondLess.amount + MinCandidateStk <= candidate[c].bond

(***************************************************************************)
(* Nobody is a candidate and a delegator at once, though both calls check  *)
(* the other role only on the first bond.                                  *)
(***************************************************************************)
RolesAreDisjoint == DOMAIN candidate \cap DOMAIN delegator = {}

(***************************************************************************)
(* Every delegation on record can be found again by the lookup that        *)
(* decides between the two lists from cached amounts: a revoke, an         *)
(* increase or a decrease never fails with DelegationDNE, and leaving      *)
(* never takes the "STORAGE CORRUPTED" branch.                             *)
(***************************************************************************)
EveryBondIsFound ==
    \A d \in DOMAIN delegator : \A c \in DOMAIN delegator[d].bonds :
        LET bond == delegator[d].bonds[c] IN
        /\ RmDelegation(candidate[c], d, bond).ok
        /\ Found(candidate[c], LookupList(candidate[c], d, bond), d)

\* All that is locked under the pallet's two lock identifiers
Locked == SumOf(collatorLock) + SumOf(delegatorLock)

(***************************************************************************)
(* Total never claims more stake than is locked: round issuance, computed  *)
(* from it, is never based on stake that is not there.                     *)
(***************************************************************************)
TotalIsNeverOverstated == total <= Locked

(***************************************************************************)
(* "Total capital locked by this staking pallet" (the doc of Total).       *)
(***************************************************************************)
TotalIsLockedStake == total = Locked

-----------------------------------------------------------------------------
(***************************************************************************)
(* A step takes stake from a delegation only with cause: its owner asked   *)
(* for exactly that and the delay is over, its collator's exit is due, or  *)
(* the book was full and the delegation, the least of it, gave way to a    *)
(* newcomer with strictly more (first come, first served among equals).    *)
(***************************************************************************)
Due(d, c, action) ==
    {r \in RequestsFrom(d, c) : r.action = action /\ r.when <= round}

ExitIsDue(c) ==
    IsCandidate(c) /\ candidate[c].status = "Leaving" /\ candidate[c].leaveAt <= round

Outbid(d, c) ==
    /\ Cardinality(BackersOf(c)) = MaxTop + MaxBottom
    /\ \A x \in BackersOf(c) : delegator[x].bonds[c] >= delegator[d].bonds[c]
    /\ \E x \in BackersOf(c)' \ BackersOf(c) : delegator'[x].bonds[c] > delegator[d].bonds[c]

\* a bond is gone, or is less, only then
HasCause(d, c) ==
    /\ ~Backs(d, c)' =>
        Due(d, c, "Revoke") # {} \/ ExitIsDue(c) \/ Outbid(d, c)
    /\ Backs(d, c)' /\ delegator'[d].bonds[c] < delegator[d].bonds[c] =>
        \E r \in Due(d, c, "Decrease") :
            delegator'[d].bonds[c] = delegator[d].bonds[c] - r.amount

StakeIsTakenWithCause ==
    [][\A d \in DOMAIN delegator : \A c \in DOMAIN delegator[d].bonds : HasCause(d, c)]_vars

-----------------------------------------------------------------------------
\* CandidateInfo and the two lists, read as the bonds of the abstract ledger.
SelfStake == [c \in DOMAIN candidate |-> candidate[c].bond]
ListedStake ==
    [c \in DOMAIN candidate |->
        [d \in Owners(Backing(c)) |-> AmountOf(Backing(c), d)]]

Ledger == INSTANCE StakeLedger WITH
    Balance <- UNION {0 .. FreeBalance[a] : a \in Account},
    MaxBacking <- MaxTop + MaxBottom,
    self <- SelfStake,
    stake <- ListedStake,
    rank <- pool

(***************************************************************************)
(* The ledger as it is kept in CandidateInfo, the two lists and the pool   *)
(* implements the abstract one: in particular, whatever the lists went     *)
(* through, a candidate is ranked by its self bond and the greatest stakes *)
(* on it, and a stake changes only by its owner's doing, an exit or a      *)
(* greater bid.                                                            *)
(***************************************************************************)
ImplementsLedger == Ledger!Spec
=============================================================================
