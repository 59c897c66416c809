---------------------------- MODULE StakingRounds ----------------------------
(***************************************************************************)
(* The rounds of pallet parachain-staking over its bonding ledger: the     *)
(* collators selected for a round, the snapshot of their stake, the points *)
(* their blocks earn, and the rewards paid for them RewardPaymentDelay     *)
(* rounds later, one collator per block.                                   *)
(*                                                                         *)
(* A step is a call of the ledger (ParachainStaking), a block, or a        *)
(* governance call.  Block is on_initialize and on_finalize of one block:  *)
(* no call in between reads what on_finalize writes.  `minted` holds the   *)
(* Rewarded events of the present block only, as System::Events does.      *)
(*                                                                         *)
(* Abstractions: rewards do not add to the constant FreeBalance; the       *)
(* issuance of a round depends on where the stake lies between the         *)
(* expectations and on the inflation, of a total supply that stays as it   *)
(* is; Perbill and Percent are multiples of 1/Accuracy; accounts with      *)
(* equal stake are ordered by choice and not by identifier.                *)
(***************************************************************************)
EXTENDS ParachainStaking

CONSTANTS
    Authors,                \* accounts that may author a block
    RewardPaymentDelay, MinCollatorStk,
    MinSelectedCandidates, MinBlocksPerRound,
    InitialBlocksPerRound, InitialCommission, InitialReserve,
    SelectedTotals, RoundLengths, Commissions, Reserves, \* what governance may set
    InitialExpect, Expectations,    \* staking expectations: ranges of stake
    InitialAnnual, Schedules,       \* annual inflation: ranges of parts of the supply
    InitialRound,                   \* the inflation of a round that the genesis states
    InitialBondAccount, BondAccounts, \* who receives the parachain bond reserve
    BlocksPerYear, Supply,
    Accuracy                \* parts of a whole: 10^9 for Perbill

\* struct Range
RangeOf(S) == [min : S, ideal : S, max : S]

ASSUME RoundsAssumption ==
    /\ Authors \subseteq Account
    /\ {InitialBondAccount} \cup BondAccounts \subseteq Account
    /\ RewardPaymentDelay \in Nat /\ MinCollatorStk \in Nat
    /\ MinSelectedCandidates \in Nat /\ MinBlocksPerRound \in Nat
    /\ BlocksPerYear \in Nat /\ Supply \in Nat
    /\ {InitialBlocksPerRound} \cup RoundLengths \subseteq 1 .. BlocksPerYear
    /\ SelectedTotals \subseteq Nat
    /\ Accuracy \in Nat \ {0}
    /\ {InitialCommission} \cup Commissions \subseteq 0 .. Accuracy
    /\ {InitialReserve} \cup Reserves \subseteq 0 .. Accuracy
    /\ {InitialExpect} \cup Expectations \subseteq RangeOf(Nat)
    /\ {InitialAnnual, InitialRound} \cup Schedules \subseteq RangeOf(0 .. Accuracy)

VARIABLES
    age,            \* blocks since Round.first
    roundLength,    \* Round.length
    selected,       \* SelectedCandidates
    atStake,        \* AtStake: by round and collator
    staked,         \* Staked, by round
    points,         \* Points, by round
    awardedPts,     \* AwardedPts: by round and author
    delayedPayouts, \* DelayedPayouts, by round
    totalSelected,  \* TotalSelected
    commission,     \* CollatorCommission
    reserve,        \* ParachainBondInfo.percent
    bondAccount,    \* ParachainBondInfo.account
    inflation,      \* InflationConfig
    minted          \* what the present block paid to each account

roundVars == <<age, roundLength, selected, atStake, staked, points, awardedPts,
               delayedPayouts, totalSelected, commission, reserve, bondAccount,
               inflation, minted>>
allVars == <<vars, roundVars>>

Nobody == [a \in Account |-> 0]

-----------------------------------------------------------------------------
(* Parts of a whole *)

\* from_rational rounds down; it is one when there is nothing to divide by
FromRational(p, q) == IF p >= q THEN Accuracy ELSE (p * Accuracy) \div q

\* a part of x, rounded to the nearest, down from the half
Part(parts, x) ==
    LET scaled == parts * x IN
    scaled \div Accuracy + IF scaled % Accuracy > Accuracy \div 2 THEN 1 ELSE 0

(***************************************************************************)
(* perbill_annual_to_perbill_round: the root of the annual inflation, of   *)
(* the order of the rounds in a year, rounded up; at most the annual one.  *)
(***************************************************************************)
RoundRate(annual, rounds) ==
    Min({annual} \cup {rate \in 0 .. annual :
            (Accuracy + rate)^rounds >= (Accuracy + annual) * Accuracy^(rounds - 1)})

AnnualToRound(annual, length) ==
    [bound \in {"min", "ideal", "max"} |->
        RoundRate(annual[bound], BlocksPerYear \div length)]

\* Mistake (InflationIsCurrent must notice): the rates of the old length stay
KeepRates(length) == inflation

\* InflationInfo::reset_round
ResetRound(length) == [inflation EXCEPT !.round = AnnualToRound(inflation.annual, length)]

Issuance(stake) ==
    Part(IF stake < inflation.expect.min THEN inflation.round.min
         ELSE IF stake > inflation.expect.max THEN inflation.round.max
         ELSE inflation.round.ideal, Supply)

-----------------------------------------------------------------------------
InitRounds ==
    /\ Init
    /\ age = 0 /\ roundLength = InitialBlocksPerRound
    /\ selected = {}
    /\ atStake = NoEntries
    /\ staked = Put(NoEntries, 1, 0)
    /\ points = NoEntries
    /\ awardedPts = NoEntries
    /\ delayedPayouts = NoEntries
    /\ totalSelected = MinSelectedCandidates
    /\ commission = InitialCommission
    /\ reserve = InitialReserve
    /\ bondAccount = InitialBondAccount
    /\ inflation = [expect |-> InitialExpect, annual |-> InitialAnnual, round |-> InitialRound]
    /\ minted = Nobody

-----------------------------------------------------------------------------
(* Selection *)

\* compute_top_candidates: the minimum is applied to the first TotalSelected only
TopCandidates ==
    {{c \in first : pool[c] >= MinCollatorStk} :
        first \in {S \in SUBSET DOMAIN pool :
            /\ Cardinality(S) = IF Cardinality(DOMAIN pool) < totalSelected
                                THEN Cardinality(DOMAIN pool) ELSE totalSelected
            /\ \A c \in S, other \in DOMAIN pool \ S : pool[c] >= pool[other]}}

\* Mistake (SnapshotsAddUp must notice): a revoked bond still counts in the total
UncountedDecreases(c, bond) ==
    SumOf([r \in {r \in RequestsFrom(bond.owner, c) : ~IsRevoke(r)} |-> r.amount])

\* what a delegator has asked to take back from a bond counts for nothing
Uncounted(c, bond) ==
    SumOf([r \in RequestsFrom(bond.owner, c) |->
              IF IsRevoke(r) THEN bond.amount ELSE r.amount])

Rewardable(c, bond) ==
    IF \E r \in RequestsFrom(bond.owner, c) : IsRevoke(r) THEN 0
    ELSE Sub(bond.amount, SumOf([r \in RequestsFrom(bond.owner, c) |-> r.amount]))

Snapshot(c) ==
    LET top == candidate[c].top.list
        uncounted == SumOf([i \in DOMAIN top |-> Uncounted(c, top[i])])
    IN  [bond |-> candidate[c].bond,
         delegations |-> [i \in DOMAIN top |-> [owner |-> top[i].owner,
                                                amount |-> Rewardable(c, top[i])]],
         total |-> Sub(candidate[c].counted, uncounted)]

SnapshotsOf(r) == {c \in Account : <<r, c>> \in DOMAIN atStake}

\* AtStake after the given snapshots are stored for round `now`
WithSnapshots(now, snapshots) ==
    [k \in DOMAIN atStake \cup ({now} \X DOMAIN snapshots) |->
        IF k[1] = now /\ k[2] \in DOMAIN snapshots THEN snapshots[k[2]] ELSE atStake[k]]

\* Mistake (SelectedHaveSnapshots must notice): nothing is carried over
SelectNone(now) == [stakes |-> atStake, selected |-> selected]

\* with nobody to select, the last round's snapshots and collators serve again
SelectAgain(now) ==
    [stakes |-> WithSnapshots(now, [c \in SnapshotsOf(now - 1) |-> atStake[<<now - 1, c>>]]),
     selected |-> selected]

SelectTopCandidates(now) ==
    {IF collators = {} THEN SelectAgain(now)
     ELSE [stakes |-> WithSnapshots(now, [c \in collators |-> Snapshot(c)]),
           selected |-> collators] : collators \in TopCandidates}

-----------------------------------------------------------------------------
(* Rewards *)

PointsOf(r) == IF r \in DOMAIN points THEN points[r] ELSE 0
StakedAt(r) == IF r \in DOMAIN staked THEN staked[r] ELSE 0
AuthorsOf(r) == {a \in Account : <<r, a>> \in DOMAIN awardedPts}

\* deposit_into_existing pays only accounts that exist
Deposit(a, amount) == IF FreeBalance[a] > 0 THEN amount ELSE 0

NoPayouts == [payouts |-> delayedPayouts, staked |-> staked, reserved |-> 0]

\* prepare_staking_payouts, for the round RewardPaymentDelay before `now`
PreparePayouts(now) ==
    LET r == now - RewardPaymentDelay
        issuance == Issuance(StakedAt(r))
        reserved == Deposit(bondAccount, Part(reserve, issuance))
    IN  IF now <= RewardPaymentDelay \/ PointsOf(r) = 0 THEN NoPayouts
        ELSE [payouts |-> Put(delayedPayouts, r,
                    [issuance |-> issuance, reward |-> Sub(issuance, reserved),
                     commission |-> commission]),
              staked |-> Drop(staked, r), reserved |-> reserved]

\* a collator that was not selected has the default snapshot
SnapshotAt(stakes, r, c) ==
    IF <<r, c>> \in DOMAIN stakes THEN stakes[<<r, c>>]
    ELSE [bond |-> 0, delegations |-> <<>>, total |-> 0]

Share(r, c) == FromRational(awardedPts[<<r, c>>], points[r])

\* Mistake (PayoutIsWithinShare must notice): the commission is paid on top
BackersPartOnTop(payout, share) == Part(share, payout.reward)

\* what is left of a collator's share for all its backers, its own bond included
BackersPart(payout, share) ==
    Sub(Part(share, payout.reward), Part(share, Part(payout.commission, payout.issuance)))

\* what pay_one_collator_reward mints to each account
Rewards(r, c, payout, snapshot) ==
    LET share == Share(r, c)
        backed == BackersPart(payout, share)
        due(amount) == Part(FromRational(amount, snapshot.total), backed)
        own == IF snapshot.delegations = <<>> THEN Part(share, payout.reward)
               ELSE due(snapshot.bond) + Part(share, Part(payout.commission, payout.issuance))
        to(a) == (IF a = c THEN own ELSE 0)
               + (IF Holds(snapshot.delegations, a)
                  THEN due(AmountOf(snapshot.delegations, a)) ELSE 0)
    IN  [a \in Account |-> Deposit(a, to(a))]

-----------------------------------------------------------------------------
(* Blocks *)

PointsPerBlock == 20

Earned(f, k) == Put(f, k, PointsPerBlock + IF k \in DOMAIN f THEN f[k] ELSE 0)

\* Mistake (EveryAuthorIsPaid must notice): the payout of a round ends one too early
PaidAllButOne(r) == Cardinality(AuthorsOf(r)) <= 1

\* pay_one_collator_reward finds nobody left to pay
PaidInFull(r) == PointsOf(r) = 0 \/ AuthorsOf(r) = {}

(***************************************************************************)
(* handle_delayed_payouts, then on_finalize: in every block one of the     *)
(* collators still to be paid for the round is paid, any of them since the *)
(* code drains a hashed map; the block after the last one cleans up.       *)
(* `prepared` is what prepare_staking_payouts left, `stakes` what the      *)
(* selection did.                                                          *)
(***************************************************************************)
PayAndAward(now, author, prepared, stakes) ==
    LET r == now - RewardPaymentDelay
        due == now >= RewardPaymentDelay /\ r \in DOMAIN prepared.payouts
        mint(to) == minted' = [to EXCEPT ![bondAccount] = @ + prepared.reserved]
        award(awarded, pts) == /\ awardedPts' = Earned(awarded, <<now, author>>)
                               /\ points' = Earned(pts, now)
    IN  \/ /\ ~due
           /\ atStake' = stakes
           /\ delayedPayouts' = prepared.payouts
           /\ mint(Nobody)
           /\ award(awardedPts, points)
        \/ /\ due /\ ~PaidInFull(r)
           /\ \E c \in AuthorsOf(r) :
                /\ atStake' = Drop(stakes, <<r, c>>)
                /\ mint(Rewards(r, c, prepared.payouts[r], SnapshotAt(stakes, r, c)))
                /\ award(Drop(awardedPts, <<r, c>>), points)
           /\ delayedPayouts' = prepared.payouts
        \/ /\ due /\ PaidInFull(r)
           /\ atStake' = stakes
           /\ delayedPayouts' = Drop(prepared.payouts, r)
           /\ mint(Nobody)
           /\ award(awardedPts, Drop(points, r))

\* a block within the round
BlockInRound(author) ==
    /\ age + 1 < roundLength
    /\ age' = age + 1
    /\ PayAndAward(round, author, NoPayouts, atStake)
    /\ UNCHANGED <<vars, selected, staked, roundLength, totalSelected, commission, reserve,
                   bondAccount, inflation>>

\* the first block of the next round
BlockOfNextRound(author) ==
    /\ age + 1 >= roundLength
    /\ NextRound
    /\ age' = 0
    /\ LET prepared == PreparePayouts(round + 1) IN
       /\ \E selection \in SelectTopCandidates(round + 1) :
            /\ selected' = selection.selected
            /\ PayAndAward(round + 1, author, prepared, selection.stakes)
       /\ staked' = Put(prepared.staked, round + 1, total)
    /\ UNCHANGED <<roundLength, totalSelected, commission, reserve, bondAccount, inflation>>

-----------------------------------------------------------------------------
(* Governance *)

SetTotalSelected(new) ==
    /\ new >= MinSelectedCandidates
    /\ new # totalSelected
    /\ new <= roundLength
    /\ totalSelected' = new
    /\ UNCHANGED <<vars, age, roundLength, selected, atStake, staked, points, awardedPts,
                   delayedPayouts, commission, reserve, bondAccount, inflation, minted>>

SetBlocksPerRound(new) ==
    /\ new >= MinBlocksPerRound
    /\ new # roundLength
    /\ new >= totalSelected
    /\ roundLength' = new
    /\ inflation' = ResetRound(new)
    /\ UNCHANGED <<vars, age, selected, atStake, staked, points, awardedPts,
                   delayedPayouts, totalSelected, commission, reserve, bondAccount, minted>>

SetCollatorCommission(new) ==
    /\ new # commission
    /\ commission' = new
    /\ UNCHANGED <<vars, age, roundLength, selected, atStake, staked, points, awardedPts,
                   delayedPayouts, totalSelected, reserve, bondAccount, inflation, minted>>

SetParachainBondReservePercent(new) ==
    /\ new # reserve
    /\ reserve' = new
    /\ UNCHANGED <<vars, age, roundLength, selected, atStake, staked, points, awardedPts,
                   delayedPayouts, totalSelected, commission, bondAccount, inflation, minted>>

SetParachainBondAccount(new) ==
    /\ new # bondAccount
    /\ bondAccount' = new
    /\ UNCHANGED <<vars, age, roundLength, selected, atStake, staked, points, awardedPts,
                   delayedPayouts, totalSelected, commission, reserve, inflation, minted>>

\* Range::is_valid
IsValid(range) == range.max >= range.ideal /\ range.ideal >= range.min

SetStakingExpectations(new) ==
    /\ IsValid(new)
    /\ new # inflation.expect
    /\ inflation' = [inflation EXCEPT !.expect = new]
    /\ UNCHANGED <<vars, age, roundLength, selected, atStake, staked, points, awardedPts,
                   delayedPayouts, totalSelected, commission, reserve, bondAccount, minted>>

SetInflation(new) ==
    /\ IsValid(new)
    /\ new # inflation.annual
    /\ inflation' = [inflation EXCEPT !.annual = new, !.round = AnnualToRound(new, roundLength)]
    /\ UNCHANGED <<vars, age, roundLength, selected, atStake, staked, points, awardedPts,
                   delayedPayouts, totalSelected, commission, reserve, bondAccount, minted>>

-----------------------------------------------------------------------------
NextInRounds ==
    \/ Call /\ UNCHANGED roundVars
    \/ \E author \in Authors : BlockInRound(author) \/ BlockOfNextRound(author)
    \/ \E new \in SelectedTotals : SetTotalSelected(new)
    \/ \E new \in RoundLengths : SetBlocksPerRound(new)
    \/ \E new \in Commissions : SetCollatorCommission(new)
    \/ \E new \in Reserves : SetParachainBondReservePercent(new)
    \/ \E new \in BondAccounts : SetParachainBondAccount(new)
    \/ \E new \in Expectations : SetStakingExpectations(new)
    \/ \E new \in Schedules : SetInflation(new)

RoundsSpec == InitRounds /\ [][NextInRounds]_allVars
=============================================================================
