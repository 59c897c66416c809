--------------------------- MODULE ParachainStaking ---------------------------
(***************************************************************************)
(* The bonding ledger of pallet parachain-staking: who is a candidate, who *)
(* backs whom and with how much, which exits are scheduled, and what is    *)
(* locked for it.  One action per extrinsic; an extrinsic that returns an  *)
(* error changes nothing (FRAME rolls it back), so its checks are guards.  *)
(*                                                                         *)
(* Abstractions: the weight hints (candidate_count, ...) are taken to be   *)
(* large enough; events are left out; CandidateInfo, TopDelegations and    *)
(* BottomDelegations of a candidate, which the code inserts and removes    *)
(* together, are one book; the lists of scheduled requests per collator    *)
(* are one set, since the code only ever searches them by delegator; the   *)
(* round counter advances on its own, up to MaxRound (StakingRounds models *)
(* what happens then); an account's free balance is a constant.            *)
(***************************************************************************)
EXTENDS CandidateBook

CONSTANTS
    Joiners,                    \* accounts that may call join_candidates
    Backers,                    \* accounts that may call delegate
    Amounts,                    \* amounts passed to the calls
    FreeBalance,                \* free balance of an account
    InitialWhitelist,           \* collator-selection candidates at the start
    MinCandidateStk, MinWhitelistCandidateStk, MinDelegatorStk, MinDelegation,
    MaxDelegationsPerDelegator,
    LeaveCandidatesDelay, CandidateBondLessDelay,
    LeaveDelegatorsDelay, RevokeDelegationDelay,
    MaxRound                    \* bound: the round counter stops here

ASSUME AccountsAssumption ==
    /\ IsFiniteSet(Account)
    /\ Joiners \subseteq Account
    /\ Backers \subseteq Account
    /\ InitialWhitelist \subseteq Account

ASSUME AmountsAssumption ==
    /\ Amounts \subseteq Nat
    /\ FreeBalance \in [Account -> Nat]
    /\ MinCandidateStk \in Nat /\ MinWhitelistCandidateStk \in Nat
    /\ MinDelegatorStk \in Nat /\ MinDelegation \in Nat
    /\ MaxDelegationsPerDelegator \in Nat

\* else execute_leave_candidates, which takes a total of 0 to mean that no bond is
\* left, would remove a delegator who still has bonds of 0 elsewhere
ASSUME StakesArePositive == MinDelegatorStk > 0 /\ MinDelegation > 0

ASSUME DelaysAssumption ==
    /\ LeaveCandidatesDelay \in Nat /\ CandidateBondLessDelay \in Nat
    /\ LeaveDelegatorsDelay \in Nat /\ RevokeDelegationDelay \in Nat
    /\ MaxRound \in Nat

VARIABLES
    candidate,      \* CandidateInfo + Top/BottomDelegations, by candidate
    delegator,      \* DelegatorState, by delegator
    requests,       \* DelegationScheduledRequests of all collators
    pool,           \* CandidatePool: the stake each active candidate competes with
    collatorLock,   \* COLLATOR_LOCK_ID on each account, 0 when there is none
    delegatorLock,  \* DELEGATOR_LOCK_ID, likewise
    total,          \* Total
    whitelist,      \* candidates of pallet collator-selection
    round           \* Round.current

vars == <<candidate, delegator, requests, pool, collatorLock, delegatorLock,
          total, whitelist, round>>

Request == [collator : Account, delegator : Account,
            action : {"Revoke", "Decrease"}, amount : Nat, when : Nat]

IsDelegatorState(ds) ==
    /\ ds \in [bonds : {ds.bonds}, total : Nat, lessTotal : Nat]
    /\ IsStorageMap(ds.bonds, Account, Nat)

TypeOK ==
    /\ IsStorageMap(candidate, Account, Book)
    /\ DOMAIN delegator \subseteq Account
    /\ \A d \in DOMAIN delegator : IsDelegatorState(delegator[d])
    /\ requests \subseteq Request
    /\ IsStorageMap(pool, Account, Nat)
    /\ collatorLock \in [Account -> Nat]
    /\ delegatorLock \in [Account -> Nat]
    /\ total \in Nat
    /\ whitelist \subseteq Account
    /\ round \in Nat \ {0}

Init ==
    /\ candidate = NoEntries
    /\ delegator = NoEntries
    /\ requests = {}
    /\ pool = NoEntries
    /\ collatorLock = [a \in Account |-> 0]
    /\ delegatorLock = [a \in Account |-> 0]
    /\ total = 0
    /\ whitelist = InitialWhitelist
    /\ round = 1

-----------------------------------------------------------------------------
(* What the extrinsics share *)

IsCandidate(a) == a \in DOMAIN candidate
IsDelegator(a) == a \in DOMAIN delegator
Backs(d, c) == IsDelegator(d) /\ c \in DOMAIN delegator[d].bonds

CollatorStakable(a) ==
    IF IsCandidate(a) THEN Sub(FreeBalance[a], candidate[a].bond) ELSE FreeBalance[a]
DelegatorStakable(a) ==
    IF IsDelegator(a) THEN Sub(FreeBalance[a], delegator[a].total) ELSE FreeBalance[a]

RequestsFrom(d, c) == {r \in requests : r.delegator = d /\ r.collator = c}
IsRevoke(r) == r.action = "Revoke"

\* Mistake (LocksMatchStake must notice): the total, and so the lock, stays
WithoutBondKeepsTotal(ds, c) ==
    IF c \in DOMAIN ds.bonds THEN [ds EXCEPT !.bonds = Drop(@, c)] ELSE ds

\* DelegatorState::rm_delegation: the bond, if there is one, goes and total with it
WithoutBond(ds, c) ==
    IF c \in DOMAIN ds.bonds
    THEN [ds EXCEPT !.bonds = Drop(@, c), !.total = Sub(@, ds.bonds[c])]
    ELSE ds

\* Mistake (RequestsStayValid must notice): the pending amount is not given back
WithoutRequestKeepsAmount(ds, d, c) == ds

\* delegation_remove_request_with_state, for the delegator's own books
WithoutRequest(ds, d, c) ==
    [ds EXCEPT !.lessTotal = Sub(@, SumOf([r \in RequestsFrom(d, c) |-> r.amount]))]

\* Mistake (PoolIsCurrent must notice): an offline candidate is put into the pool
SetBondOfAnyStatus(c, book) ==
    /\ candidate' = [candidate EXCEPT ![c] = book]
    /\ pool' = Put(pool, c, book.counted)

\* update_active, for a candidate whose self bond was written
SetBond(c, book) ==
    /\ candidate' = [candidate EXCEPT ![c] = book]
    /\ pool' = IF book.status = "Active" THEN Put(pool, c, book.counted) ELSE pool

\* CandidateInfo::insert after reset_top_data, which repools only a changed stake
SetBook(c, book) ==
    /\ candidate' = [candidate EXCEPT ![c] = book]
    /\ pool' = IF book.status = "Active" /\ book.counted # candidate[c].counted
               THEN Put(pool, c, book.counted) ELSE pool

-----------------------------------------------------------------------------
(* Candidates *)

JoinCandidates(a, bond) ==
    /\ ~IsCandidate(a)
    /\ ~IsDelegator(a)
    /\ bond >= IF a \in whitelist THEN MinWhitelistCandidateStk ELSE MinCandidateStk
    /\ a \notin DOMAIN pool
    /\ CollatorStakable(a) >= bond
    /\ whitelist' = whitelist \ {a}
    /\ collatorLock' = [collatorLock EXCEPT ![a] = bond]
    /\ candidate' = Put(candidate, a, NewBook(bond))
    /\ pool' = Put(pool, a, bond)
    /\ total' = total + bond
    /\ UNCHANGED <<delegator, requests, delegatorLock, round>>

ScheduleLeaveCandidates(c) ==
    /\ IsCandidate(c)
    /\ candidate[c].status # "Leaving"
    /\ candidate' = [candidate EXCEPT ![c].status = "Leaving",
                                      ![c].leaveAt = round + LeaveCandidatesDelay]
    /\ pool' = Drop(pool, c)
    /\ UNCHANGED <<delegator, requests, collatorLock, delegatorLock, total,
                   whitelist, round>>

Owners(list) == {list[i].owner : i \in DOMAIN list}

(***************************************************************************)
(* Every backer gets the bond back and loses the request on it; one left   *)
(* without bonds stops being a delegator.  A listed owner without          *)
(* DelegatorState fails the call (InvalidState).                           *)
(***************************************************************************)
ExecuteLeaveCandidates(c) ==
    /\ IsCandidate(c)
    /\ candidate[c].status = "Leaving" /\ candidate[c].leaveAt <= round
    /\ LET book == candidate[c]
           backers == Owners(book.top.list) \cup Owners(book.bottom.list)
           backing == book.bond + book.top.total + book.bottom.total
           returned == {d \in backers : Backs(d, c)}
           left(d) == IF d \in returned
                      THEN WithoutRequest(WithoutBond(delegator[d], c), d, c)
                      ELSE delegator[d]
           gone == {d \in returned : left(d).total = 0}
       IN  /\ backers \subseteq DOMAIN delegator
           /\ delegator' = [d \in DOMAIN delegator \ gone |-> left(d)]
           /\ delegatorLock' = [d \in Account |->
                IF d \in returned THEN left(d).total
                ELSE IF d \in backers THEN 0 ELSE delegatorLock[d]]
           /\ total' = Sub(total, backing)
    /\ candidate' = Drop(candidate, c)
    /\ requests' = {r \in requests : r.collator # c}
    /\ collatorLock' = [collatorLock EXCEPT ![c] = 0]
    /\ UNCHANGED <<pool, whitelist, round>>

CancelLeaveCandidates(c) ==
    /\ IsCandidate(c)
    /\ candidate[c].status = "Leaving"
    /\ c \notin DOMAIN pool
    /\ candidate' = [candidate EXCEPT ![c].status = "Active", ![c].leaveAt = 0]
    /\ pool' = Put(pool, c, candidate[c].counted)
    /\ UNCHANGED <<delegator, requests, collatorLock, delegatorLock, total,
                   whitelist, round>>

GoOffline(c) ==
    /\ IsCandidate(c)
    /\ candidate[c].status = "Active"
    /\ candidate' = [candidate EXCEPT ![c].status = "Idle"]
    /\ pool' = Drop(pool, c)
    /\ UNCHANGED <<delegator, requests, collatorLock, delegatorLock, total,
                   whitelist, round>>

GoOnline(c) ==
    /\ IsCandidate(c)
    /\ candidate[c].status = "Idle"
    /\ c \notin DOMAIN pool
    /\ candidate' = [candidate EXCEPT ![c].status = "Active"]
    /\ pool' = Put(pool, c, candidate[c].counted)
    /\ UNCHANGED <<delegator, requests, collatorLock, delegatorLock, total,
                   whitelist, round>>

CandidateBondMore(c, more) ==
    /\ IsCandidate(c)
    /\ CollatorStakable(c) >= more
    /\ LET book == candidate[c] IN
       /\ SetBond(c, [book EXCEPT !.bond = @ + more, !.counted = @ + more])
       /\ collatorLock' = [collatorLock EXCEPT ![c] = book.bond + more]
    /\ total' = total + more
    /\ UNCHANGED <<delegator, requests, delegatorLock, whitelist, round>>

ScheduleCandidateBondLess(c, less) ==
    /\ IsCandidate(c)
    /\ candidate[c].bondLess = NoBondLess
    /\ candidate[c].bond > less
    /\ candidate[c].bond - less >= MinCandidateStk
    /\ candidate' = [candidate EXCEPT ![c].bondLess =
                        [amount |-> less, when |-> round + CandidateBondLessDelay]]
    /\ UNCHANGED <<delegator, requests, pool, collatorLock, delegatorLock, total,
                   whitelist, round>>

WithLessBond(book) ==
    [book EXCEPT !.bond = Sub(@, book.bondLess.amount),
                 !.counted = Sub(@, book.bondLess.amount),
                 !.bondLess = NoBondLess]

ExecuteCandidateBondLess(c) ==
    /\ IsCandidate(c)
    /\ candidate[c].bondLess # NoBondLess
    /\ candidate[c].bondLess.when <= round
    /\ LET less == WithLessBond(candidate[c]) IN
       /\ SetBond(c, less)
       /\ collatorLock' = [collatorLock EXCEPT ![c] = less.bond]
    /\ total' = Sub(total, candidate[c].bondLess.amount)
    /\ UNCHANGED <<delegator, requests, delegatorLock, whitelist, round>>

CancelCandidateBondLess(c) ==
    /\ IsCandidate(c)
    /\ candidate[c].bondLess # NoBondLess
    /\ candidate' = [candidate EXCEPT ![c].bondLess = NoBondLess]
    /\ UNCHANGED <<delegator, requests, pool, collatorLock, delegatorLock, total,
                   whitelist, round>>

-----------------------------------------------------------------------------
(* Delegators *)

\* the delegator's own part of delegate: a first bond, or one more
CanBond(d, c, amount) ==
    /\ DelegatorStakable(d) >= amount
    /\ IF IsDelegator(d)
       THEN /\ amount >= MinDelegation
            /\ Cardinality(DOMAIN delegator[d].bonds) < MaxDelegationsPerDelegator
            /\ ~Backs(d, c)
       ELSE /\ amount >= MinDelegatorStk
            /\ ~IsCandidate(d)

WithBond(d, c, amount) ==
    IF IsDelegator(d)
    THEN [delegator[d] EXCEPT !.bonds = Put(@, c, amount), !.total = @ + amount]
    ELSE [bonds |-> Put(NoEntries, c, amount), total |-> amount, lessTotal |-> 0]

(***************************************************************************)
(* The new delegation may push the lowest bottom delegation out of a full  *)
(* book: that delegator loses the bond, the request on it and, with the    *)
(* last bond, its DelegatorState (which the code expects to be there: the  *)
(* call would panic, and the block be refused, if it were not).            *)
(***************************************************************************)
Delegate(d, c, amount) ==
    /\ CanBond(d, c, amount)
    /\ IsCandidate(c)
    /\ CanAdd(candidate[c], amount)
    /\ LET added == AddDelegation(candidate[c], [owner |-> d, amount |-> amount])
           kicked == {b.owner : b \in added.kicked}
           left(k) == WithoutRequest(WithoutBond(delegator[k], c), k, c)
           gone == {k \in kicked : Cardinality(DOMAIN delegator[k].bonds) = 1}
           joined == WithBond(d, c, amount)
       IN  /\ kicked \subseteq DOMAIN delegator
           /\ SetBook(c, added.book)
           /\ delegator' = [x \in (DOMAIN delegator \ gone) \cup {d} |->
                IF x = d THEN joined ELSE IF x \in kicked THEN left(x) ELSE delegator[x]]
           /\ delegatorLock' = [x \in Account |->
                IF x = d THEN joined.total
                ELSE IF x \in kicked THEN left(x).total ELSE delegatorLock[x]]
           /\ requests' = {r \in requests : ~(r.collator = c /\ r.delegator \in kicked)}
           /\ total' = total + Sub(amount, added.less)
    /\ UNCHANGED <<collatorLock, whitelist, round>>

DelegatorBondMore(d, c, more) ==
    /\ \A r \in RequestsFrom(d, c) : ~IsRevoke(r)
    /\ Backs(d, c)
    /\ DelegatorStakable(d) >= more
    /\ IsCandidate(c)
    /\ LET bond == delegator[d].bonds[c]
           grown == IncreaseDelegation(candidate[c], d, bond, more)
       IN  /\ grown.ok
           /\ SetBook(c, grown.book)
           /\ delegator' = [delegator EXCEPT ![d].bonds = Put(@, c, bond + more),
                                             ![d].total = @ + more]
    /\ delegatorLock' = [delegatorLock EXCEPT ![d] = delegator[d].total + more]
    /\ total' = total + more
    /\ UNCHANGED <<requests, collatorLock, whitelist, round>>

-----------------------------------------------------------------------------
(* Scheduled requests: one at a time per delegation *)

NewRequest(d, c, action, amount, delay) ==
    [collator |-> c, delegator |-> d, action |-> action, amount |-> amount,
     when |-> round + delay]

ScheduleRequest(d, c, action, amount) ==
    /\ RequestsFrom(d, c) = {}
    /\ requests' = requests \cup {NewRequest(d, c, action, amount, RevokeDelegationDelay)}
    /\ delegator' = [delegator EXCEPT ![d].lessTotal = @ + amount]
    /\ UNCHANGED <<candidate, pool, collatorLock, delegatorLock, total, whitelist, round>>

ScheduleRevokeDelegation(d, c) ==
    /\ Backs(d, c)
    /\ ScheduleRequest(d, c, "Revoke", delegator[d].bonds[c])

NetTotal(d) == Sub(delegator[d].total, delegator[d].lessTotal)

ScheduleDelegatorBondLess(d, c, less) ==
    /\ Backs(d, c)
    /\ delegator[d].bonds[c] > less
    /\ delegator[d].bonds[c] - less >= MinDelegation
    /\ less <= Sub(NetTotal(d), MinDelegatorStk)
    /\ ScheduleRequest(d, c, "Decrease", less)

CancelDelegationRequest(d, c) ==
    /\ IsDelegator(d)
    /\ \E r \in RequestsFrom(d, c) :
        /\ requests' = requests \ {r}
        /\ delegator' = [delegator EXCEPT ![d].lessTotal = Sub(@, r.amount)]
    /\ UNCHANGED <<candidate, pool, collatorLock, delegatorLock, total, whitelist, round>>

\* the delegator's state once the request is taken off the books
Fulfilled(d, r) == [delegator[d] EXCEPT !.lessTotal = Sub(@, r.amount)]

\* revoking the last delegation makes the delegator leave
ExecuteRevoke(d, c, r) ==
    /\ IsRevoke(r)
    /\ IsCandidate(c)
    /\ LET last == Cardinality(DOMAIN delegator[d].bonds) = 1
           removed == RmDelegation(candidate[c], d, r.amount)
           state == WithoutBond(Fulfilled(d, r), c)
       IN  /\ last \/ Sub(delegator[d].total, MinDelegatorStk) >= r.amount
           /\ removed.ok
           /\ SetBook(c, removed.book)
           /\ delegator' = IF last THEN Drop(delegator, d)
                           ELSE [delegator EXCEPT ![d] = state]
           /\ delegatorLock' = [delegatorLock EXCEPT ![d] = state.total]

\* total_sub_if: a decrease must leave the delegator above both minima
ExecuteDecrease(d, c, r) ==
    /\ ~IsRevoke(r)
    /\ Backs(d, c)
    /\ IsCandidate(c)
    /\ LET bond == delegator[d].bonds[c]
           left == Sub(delegator[d].total, r.amount)
           shrunk == DecreaseDelegation(candidate[c], d, bond, r.amount)
       IN  /\ bond > r.amount
           /\ left >= MinDelegation /\ left >= MinDelegatorStk
           /\ shrunk.ok
           /\ SetBook(c, shrunk.book)
           /\ delegator' = [delegator EXCEPT ![d] =
                [Fulfilled(d, r) EXCEPT !.bonds = Put(@, c, bond - r.amount),
                                        !.total = left]]
           /\ delegatorLock' = [delegatorLock EXCEPT ![d] = left]

ExecuteDelegationRequest(d, c) ==
    /\ IsDelegator(d)
    /\ \E r \in RequestsFrom(d, c) :
        /\ r.when <= round
        /\ ExecuteRevoke(d, c, r) \/ ExecuteDecrease(d, c, r)
        /\ requests' = requests \ {r}
        /\ total' = Sub(total, r.amount)
    /\ UNCHANGED <<collatorLock, whitelist, round>>

-----------------------------------------------------------------------------
(* Leaving the set of delegators: a revoke of every delegation at once *)

OwnRequests(d) == UNION {RequestsFrom(d, c) : c \in DOMAIN delegator[d].bonds}

(***************************************************************************)
(* Revokes already scheduled stay as they are, decreases are replaced, and *)
(* lessTotal trades every old amount for the whole bond.  Fails when there *)
(* is nothing left to schedule.                                            *)
(***************************************************************************)
ScheduleLeaveDelegators(d) ==
    /\ IsDelegator(d)
    /\ LET bonds == delegator[d].bonds
           old == OwnRequests(d)
           kept == {r \in old : IsRevoke(r)}
           revoked == DOMAIN bonds \ {r.collator : r \in kept}
           new == {NewRequest(d, c, "Revoke", bonds[c], LeaveDelegatorsDelay) : c \in revoked}
       IN  /\ revoked # {}
           /\ requests' = (requests \ old) \cup kept \cup new
           /\ delegator' = [delegator EXCEPT ![d].lessTotal =
                Sub(@, SumOf([r \in old |-> r.amount])) + SumOf(bonds)]
    /\ UNCHANGED <<candidate, pool, collatorLock, delegatorLock, total, whitelist, round>>

\* every delegation has a scheduled revoke
IsLeaving(d) ==
    \A c \in DOMAIN delegator[d].bonds : \E r \in RequestsFrom(d, c) : IsRevoke(r)

CancelLeaveDelegators(d) ==
    /\ IsDelegator(d)
    /\ IsLeaving(d)
    /\ requests' = requests \ OwnRequests(d)
    /\ delegator' = [delegator EXCEPT ![d].lessTotal =
            Sub(@, SumOf([r \in OwnRequests(d) |-> r.amount]))]
    /\ UNCHANGED <<candidate, pool, collatorLock, delegatorLock, total, whitelist, round>>

(***************************************************************************)
(* Each collator's book loses the delegation; where it cannot (the code    *)
(* logs STORAGE CORRUPTED and goes on) the book and Total stay.            *)
(***************************************************************************)
ExecuteLeaveDelegators(d) ==
    /\ IsDelegator(d)
    /\ IsLeaving(d)
    /\ \A r \in OwnRequests(d) : IsRevoke(r) => r.when <= round
    /\ LET bonds == delegator[d].bonds
           backed == DOMAIN bonds \cap DOMAIN candidate
           removed == [c \in backed |-> RmDelegation(candidate[c], d, bonds[c])]
           unbacked == {c \in backed : removed[c].ok}
           after == [c \in DOMAIN candidate |->
                        IF c \in unbacked THEN removed[c].book ELSE candidate[c]]
           moved == {c \in unbacked : /\ after[c].status = "Active"
                                      /\ after[c].counted # candidate[c].counted}
       IN  /\ candidate' = after
           /\ pool' = [c \in DOMAIN pool \cup moved |->
                        IF c \in moved THEN after[c].counted ELSE pool[c]]
           /\ total' = Sub(total, SumOf([c \in unbacked |-> bonds[c]]))
    /\ requests' = requests \ OwnRequests(d)
    /\ delegator' = Drop(delegator, d)
    /\ delegatorLock' = [delegatorLock EXCEPT ![d] = 0]
    /\ UNCHANGED <<collatorLock, whitelist, round>>

-----------------------------------------------------------------------------
\* on_initialize starts a new round
NextRound ==
    /\ round < MaxRound
    /\ round' = round + 1
    /\ UNCHANGED <<candidate, delegator, requests, pool, collatorLock,
                   delegatorLock, total, whitelist>>

CandidateCall(c) ==
    \/ \E bond \in Amounts : JoinCandidates(c, bond)
    \/ ScheduleLeaveCandidates(c)
    \/ ExecuteLeaveCandidates(c)
    \/ CancelLeaveCandidates(c)
    \/ GoOffline(c)
    \/ GoOnline(c)
    \/ \E more \in Amounts : CandidateBondMore(c, more)
    \/ \E less \in Amounts : ScheduleCandidateBondLess(c, less)
    \/ ExecuteCandidateBondLess(c)
    \/ CancelCandidateBondLess(c)

DelegationCall(d, c) ==
    \/ \E amount \in Amounts : Delegate(d, c, amount)
    \/ \E more \in Amounts : DelegatorBondMore(d, c, more)
    \/ ScheduleRevokeDelegation(d, c)
    \/ \E less \in Amounts : ScheduleDelegatorBondLess(d, c, less)
    \/ CancelDelegationRequest(d, c)
    \/ ExecuteDelegationRequest(d, c)

DelegatorCall(d) ==
    \/ ScheduleLeaveDelegators(d)
    \/ CancelLeaveDelegators(d)
    \/ ExecuteLeaveDelegators(d)

Call ==
    \/ \E c \in Joiners : CandidateCall(c)
    \/ \E d \in Backers, c \in Joiners : DelegationCall(d, c)
    \/ \E d \in Backers : DelegatorCall(d)

Next == Call \/ NextRound

Spec == Init /\ [][Next]_vars
=============================================================================
