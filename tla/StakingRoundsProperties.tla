----------------------- MODULE StakingRoundsProperties -----------------------
(***************************************************************************)
(* What makes rounds and rewards correct over a ledger that keeps moving:  *)
(* a reward is computed rounds later, from copies that nobody updates.     *)
(***************************************************************************)
EXTENDS StakingRounds

(***************************************************************************)
(* Every snapshot adds up: its total is the self bond and the delegations  *)
(* in it, so that the parts by which get paid the collator and the backers *)
(* make a whole.  The total comes from the cached counted stake less what  *)
(* is requested back, the delegations from the top list: they agree only   *)
(* if requests never outgrow or outlive their bonds.                       *)
(***************************************************************************)
SnapshotsAddUp ==
    \A k \in DOMAIN atStake :
        atStake[k].total = atStake[k].bond
            + SumOf([i \in DOMAIN atStake[k].delegations |-> atStake[k].delegations[i].amount])

(***************************************************************************)
(* "all selected candidates have snapshots": what the selection expects of *)
(* the round before when it finds nobody to select, whatever was paid out  *)
(* and whoever left meanwhile.                                             *)
(***************************************************************************)
SelectedHaveSnapshots == selected \subseteq SnapshotsOf(round)

(***************************************************************************)
(* "payments are made once-per-block until all payments have been made":   *)
(* once the round in which they are paid is over, no author of a round is  *)
(* left unpaid.                                                            *)
(***************************************************************************)
EveryAuthorIsPaid ==
    \A k \in DOMAIN awardedPts : k[1] + RewardPaymentDelay >= round

(***************************************************************************)
(* The rates that issuance is computed by are those of the annual          *)
(* inflation at the present length of rounds, unless neither was changed   *)
(* since the genesis, which states annual and round rates apart and need   *)
(* not make them fit.  InflationConfig keeps both, the length is kept      *)
(* elsewhere, and two calls of different origins set them, in any order.   *)
(***************************************************************************)
RatesFit == inflation.round = AnnualToRound(inflation.annual, roundLength)

RatesOfGenesis ==
    /\ inflation.annual = InitialAnnual /\ inflation.round = InitialRound
    /\ roundLength = InitialBlocksPerRound

InflationIsCurrent == RatesFit \/ RatesOfGenesis

-----------------------------------------------------------------------------
(* What the payout of the author k[2] for the round k[1] comes to *)

Payees == {a \in Account \ {bondAccount} : minted'[a] > 0}

PaidNow == SumOf([a \in Account \ {bondAccount} |-> minted'[a]])

\* up to half a unit of rounding for each payee
IsAtMost(whole) == 2 * PaidNow <= 2 * whole + Cardinality(Payees)

ShareOfReward(k) == Part(Share(k[1], k[2]), delayedPayouts'[k[1]].reward)

ShareOfCommission(k) ==
    LET payout == delayedPayouts'[k[1]] IN
    Part(Share(k[1], k[2]), Part(payout.commission, payout.issuance))

(***************************************************************************)
(* What a block pays to a collator and its backers is at most the          *)
(* collator's share of the round's reward by points, or its share of the   *)
(* commission where that is the greater: the commission is a part of the   *)
(* whole issuance, the reward is what the bond reserve left of it, and the *)
(* parts of the two are set apart.                                         *)
(***************************************************************************)
PayoutIsWithinShare ==
    [][\A k \in DOMAIN awardedPts \ DOMAIN awardedPts' :
        IsAtMost(ShareOfReward(k)) \/ IsAtMost(ShareOfCommission(k))]_allVars

(***************************************************************************)
(* "The total inflation paid this round to stakers (e.g. less parachain    *)
(* bond fund)": what a block pays to a collator and its backers is at most *)
(* the collator's share of the round's reward.                             *)
(***************************************************************************)
PayoutIsWithinReward ==
    [][\A k \in DOMAIN awardedPts \ DOMAIN awardedPts' : IsAtMost(ShareOfReward(k))]_allVars
=============================================================================
