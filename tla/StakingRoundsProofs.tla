-------------------------- MODULE StakingRoundsProofs --------------------------
(***************************************************************************)
(* Rounds leave the ledger alone, so that all that is proved of it holds   *)
(* over rounds too; the selection always finds the snapshots that it       *)
(* expects, and every snapshot adds up; whoever has authored is paid       *)
(* before the round of the payment ends, if rounds are long enough; and    *)
(* what is paid is the share by points and stake.                          *)
(***************************************************************************)
EXTENDS StakingRoundsProperties, ParachainStakingProofs

(***************************************************************************)
(* Every step of the system with rounds is a call of the ledger, its       *)
(* NextRound, or changes nothing of it.                                    *)
(***************************************************************************)
LEMMA RoundsStepKeepsLedger == [NextInRounds]_allVars => [Next]_vars
<1> SUFFICES ASSUME [NextInRounds]_allVars PROVE [Next]_vars
  OBVIOUS
<1>1. CASE Call /\ UNCHANGED roundVars
  BY <1>1 DEF Next
<1>2. ASSUME NEW author \in Authors, BlockInRound(author) PROVE UNCHANGED vars
  BY <1>2 DEF BlockInRound
<1>3. ASSUME NEW author \in Authors, BlockOfNextRound(author) PROVE Next
  BY <1>3 DEF BlockOfNextRound, Next
<1>4. ASSUME NEW new, \/ SetTotalSelected(new) \/ SetBlocksPerRound(new)
                      \/ SetCollatorCommission(new) \/ SetParachainBondReservePercent(new)
                      \/ SetParachainBondAccount(new) \/ SetStakingExpectations(new)
                      \/ SetInflation(new)
      PROVE  UNCHANGED vars
  BY <1>4 DEF SetTotalSelected, SetBlocksPerRound, SetCollatorCommission,
              SetParachainBondReservePercent, SetParachainBondAccount,
              SetStakingExpectations, SetInflation
<1>5. CASE UNCHANGED allVars
  BY <1>5 DEF allVars
<1> QED BY <1>1, <1>2, <1>3, <1>4, <1>5 DEF NextInRounds

(***************************************************************************)
(* Rounds, payouts and governance never write the ledger: the system with  *)
(* rounds is a refinement of the ledger by itself.                         *)
(***************************************************************************)
THEOREM RoundsKeepLedger == RoundsSpec => Spec
<1>1. InitRounds => Init
  BY DEF InitRounds
<1> QED BY <1>1, RoundsStepKeepsLedger, PTL DEF RoundsSpec, Spec

(***************************************************************************)
(* "all members of CandidateQ must be candidates": the two expects of the  *)
(* selection are met, since the pool it ranks is that of the active        *)
(* candidates in every state between two blocks.                           *)
(***************************************************************************)
THEOREM PoolIsCurrentInRounds == RoundsSpec => []PoolIsCurrent
BY RoundsKeepLedger, PoolStaysCurrent, PTL

-----------------------------------------------------------------------------
(***************************************************************************)
(* The strengthening of SelectedHaveSnapshots: a payout is only ever for a *)
(* round before the present one, because only such a round has points when *)
(* it is prepared, so that it never takes the snapshots just made.         *)
(***************************************************************************)
SelectionInv ==
    /\ SelectedHaveSnapshots
    /\ DOMAIN points \subseteq 1 .. round
    /\ \A r \in DOMAIN delayedPayouts : r \in Nat /\ r < round

(***************************************************************************)
(* No call of the ledger moves the round counter.                          *)
(***************************************************************************)
LEMMA CallKeepsRound == Call => round' = round
<1>1. ASSUME NEW c, CandidateCall(c) PROVE round' = round
  BY <1>1 DEF CandidateCall, JoinCandidates, ScheduleLeaveCandidates,
              ExecuteLeaveCandidates, CancelLeaveCandidates, GoOffline, GoOnline,
              CandidateBondMore, ScheduleCandidateBondLess, ExecuteCandidateBondLess,
              CancelCandidateBondLess
<1>2. ASSUME NEW d, NEW c, DelegationCall(d, c) PROVE round' = round
  BY <1>2 DEF DelegationCall, Delegate, DelegatorBondMore, ScheduleRevokeDelegation,
              ScheduleDelegatorBondLess, ScheduleRequest, CancelDelegationRequest,
              ExecuteDelegationRequest
<1>3. ASSUME NEW d, DelegatorCall(d) PROVE round' = round
  BY <1>3 DEF DelegatorCall, ScheduleLeaveDelegators, CancelLeaveDelegators,
              ExecuteLeaveDelegators
<1> QED BY <1>1, <1>2, <1>3 DEF Call

(***************************************************************************)
(* What a block does to the snapshots: the payout takes at most some of an *)
(* earlier round, the points are those of a round up to the present one.   *)
(***************************************************************************)
LEMMA PayAndAwardKeeps ==
    ASSUME NEW now \in Nat \ {0}, NEW author, NEW prepared, NEW stakes,
           PayAndAward(now, author, prepared, stakes),
           \A r \in DOMAIN prepared.payouts : r \in Nat /\ r < now,
           DOMAIN points \subseteq 1 .. now
    PROVE  /\ \A c : <<now, c>> \in DOMAIN stakes => <<now, c>> \in DOMAIN atStake'
           /\ DOMAIN points' \subseteq 1 .. now
           /\ \A r \in DOMAIN delayedPayouts' : r \in Nat /\ r < now
<1> DEFINE r == now - RewardPaymentDelay
           due == now >= RewardPaymentDelay /\ r \in DOMAIN prepared.payouts
<1>1. ASSUME NEW pts, DOMAIN pts \subseteq 1 .. now
      PROVE  DOMAIN Earned(pts, now) \subseteq 1 .. now
  BY <1>1 DEF Earned, Put
<1>2. DOMAIN Drop(points, r) \subseteq 1 .. now
  BY DEF Drop
<1>3. CASE /\ ~due /\ atStake' = stakes /\ delayedPayouts' = prepared.payouts
           /\ points' = Earned(points, now)
  BY <1>1, <1>3
<1>4. CASE /\ due /\ delayedPayouts' = prepared.payouts /\ points' = Earned(points, now)
           /\ \E c \in AuthorsOf(r) : atStake' = Drop(stakes, <<r, c>>)
  <2>1. r # now
    BY <1>4
  <2>2. PICK c \in AuthorsOf(r) : atStake' = Drop(stakes, <<r, c>>)
    BY <1>4
  <2>3. \A x : <<now, x>> # <<r, c>>
    BY <2>1
  <2>4. \A x : <<now, x>> \in DOMAIN stakes => <<now, x>> \in DOMAIN atStake'
    BY <2>2, <2>3 DEF Drop
  <2> QED BY <1>1, <1>4, <2>4
<1>5. CASE /\ due /\ atStake' = stakes /\ delayedPayouts' = Drop(prepared.payouts, r)
           /\ points' = Earned(Drop(points, r), now)
  <2>1. DOMAIN delayedPayouts' \subseteq DOMAIN prepared.payouts
    BY <1>5 DEF Drop
  <2> QED BY <1>1, <1>2, <1>5, <2>1
<1> QED BY <1>3, <1>4, <1>5 DEF PayAndAward

(***************************************************************************)
(* What prepare_staking_payouts adds is a payout of a round that has       *)
(* points, hence of one before `now`.                                      *)
(***************************************************************************)
LEMMA PreparedAreEarlier ==
    ASSUME SelectionInv, round \in Nat \ {0}
    PROVE  \A r \in DOMAIN PreparePayouts(round + 1).payouts : r \in Nat /\ r < round + 1
<1> DEFINE now == round + 1
           paid == now - RewardPaymentDelay
<1>1. CASE now <= RewardPaymentDelay \/ PointsOf(paid) = 0
  <2>1. PreparePayouts(now).payouts = delayedPayouts
    BY <1>1 DEF PreparePayouts, NoPayouts
  <2> QED BY <2>1 DEF SelectionInv
<1>2. CASE ~(now <= RewardPaymentDelay \/ PointsOf(paid) = 0)
  <2>1. DOMAIN PreparePayouts(now).payouts = DOMAIN delayedPayouts \cup {paid}
    BY <1>2 DEF PreparePayouts, Put
  <2>2. paid \in DOMAIN points
    BY <1>2 DEF PointsOf
  <2>3. paid \in Nat /\ paid < now
    BY <2>2 DEF SelectionInv
  <2> QED BY <2>1, <2>3 DEF SelectionInv
<1> QED BY <1>1, <1>2

(***************************************************************************)
(* After the selection for the next round every selected collator has a    *)
(* snapshot of that round.                                                 *)
(***************************************************************************)
LEMMA SelectionHasSnapshots ==
    ASSUME SelectionInv, IInv, NEW selection \in SelectTopCandidates(round + 1)
    PROVE  \A c \in selection.selected :
                c \in Account /\ <<round + 1, c>> \in DOMAIN selection.stakes
<1> DEFINE now == round + 1
<1>1. ASSUME NEW snapshots, NEW c \in DOMAIN snapshots
      PROVE  <<now, c>> \in DOMAIN WithSnapshots(now, snapshots)
  BY <1>1 DEF WithSnapshots
<1>2. PICK collators \in TopCandidates :
        selection = IF collators = {} THEN SelectAgain(now)
                    ELSE [stakes |-> WithSnapshots(now, [c \in collators |-> Snapshot(c)]),
                          selected |-> collators]
  BY DEF SelectTopCandidates
<1>3. CASE collators = {}
  <2>1. /\ selection.selected = selected
        /\ selection.stakes = WithSnapshots(now, [c \in SnapshotsOf(now - 1) |->
                                                    atStake[<<now - 1, c>>]])
    BY <1>2, <1>3 DEF SelectAgain
  <2>2. selected \subseteq SnapshotsOf(now - 1)
    BY DEF SelectionInv, SelectedHaveSnapshots, IInv, CalendarInOrder
  <2>3. SnapshotsOf(now - 1) \subseteq Account
    BY DEF SnapshotsOf
  <2> QED BY <1>1, <2>1, <2>2, <2>3
<1>4. CASE collators # {}
  <2>1. /\ selection.selected = collators
        /\ selection.stakes = WithSnapshots(now, [c \in collators |-> Snapshot(c)])
    BY <1>2, <1>4
  <2>2. collators \subseteq DOMAIN pool
    BY DEF TopCandidates
  <2>3. DOMAIN pool \subseteq Account
    BY DEF IInv, BalancesInOrder, IsStorageMap
  <2> QED BY <1>1, <2>1, <2>2, <2>3
<1> QED BY <1>3, <1>4

(***************************************************************************)
(* One step keeps the strengthened invariant.                              *)
(***************************************************************************)
LEMMA SelectionInvStep ==
    ASSUME SelectionInv, IInv, [NextInRounds]_allVars PROVE SelectionInv'
<1>1. round \in Nat \ {0}
  BY DEF IInv, CalendarInOrder
<1>2. ASSUME UNCHANGED <<round, selected, atStake, points, delayedPayouts>>
      PROVE  SelectionInv'
  BY <1>2 DEF SelectionInv, SelectedHaveSnapshots, SnapshotsOf
<1>3. CASE Call /\ UNCHANGED roundVars
  BY <1>2, <1>3, CallKeepsRound DEF roundVars
<1>4. ASSUME NEW author \in Authors, BlockInRound(author) PROVE SelectionInv'
  <2>1. /\ PayAndAward(round, author, NoPayouts, atStake)
        /\ round' = round /\ selected' = selected
    BY <1>4 DEF BlockInRound, vars
  <2>2. NoPayouts.payouts = delayedPayouts
    BY DEF NoPayouts
  <2>3. \A r \in DOMAIN NoPayouts.payouts : r \in Nat /\ r < round
    BY <2>2 DEF SelectionInv
  <2>4. DOMAIN points \subseteq 1 .. round
    BY DEF SelectionInv
  <2>5. /\ \A c : <<round, c>> \in DOMAIN atStake => <<round, c>> \in DOMAIN atStake'
        /\ DOMAIN points' \subseteq 1 .. round
        /\ \A r \in DOMAIN delayedPayouts' : r \in Nat /\ r < round
    BY <1>1, <2>1, <2>3, <2>4, PayAndAwardKeeps
  <2> QED BY <2>1, <2>5 DEF SelectionInv, SelectedHaveSnapshots, SnapshotsOf
<1>5. ASSUME NEW author \in Authors, BlockOfNextRound(author) PROVE SelectionInv'
  <2> DEFINE now == round + 1
             prepared == PreparePayouts(now)
  <2>1. PICK selection \in SelectTopCandidates(now) :
            /\ selected' = selection.selected
            /\ PayAndAward(now, author, prepared, selection.stakes)
    BY <1>5 DEF BlockOfNextRound
  <2>2. round' = now /\ now \in Nat \ {0}
    BY <1>1, <1>5 DEF BlockOfNextRound, NextRound
  <2>3. \A c \in selection.selected :
            c \in Account /\ <<now, c>> \in DOMAIN selection.stakes
    BY SelectionHasSnapshots
  <2>4. \A r \in DOMAIN prepared.payouts : r \in Nat /\ r < now
    BY <1>1, PreparedAreEarlier
  <2>5. DOMAIN points \subseteq 1 .. now
    BY <1>1 DEF SelectionInv
  <2> HIDE DEF prepared, now
  <2>6. /\ \A c : <<now, c>> \in DOMAIN selection.stakes => <<now, c>> \in DOMAIN atStake'
        /\ DOMAIN points' \subseteq 1 .. now
        /\ \A r \in DOMAIN delayedPayouts' : r \in Nat /\ r < now
    BY <2>1, <2>2, <2>4, <2>5, PayAndAwardKeeps
  <2> QED BY <2>1, <2>2, <2>3, <2>6 DEF SelectionInv, SelectedHaveSnapshots, SnapshotsOf
<1>6. ASSUME NEW new, \/ SetTotalSelected(new) \/ SetBlocksPerRound(new)
                      \/ SetCollatorCommission(new) \/ SetParachainBondReservePercent(new)
                      \/ SetParachainBondAccount(new) \/ SetStakingExpectations(new)
                      \/ SetInflation(new)
      PROVE  SelectionInv'
  BY <1>2, <1>6 DEF SetTotalSelected, SetBlocksPerRound, SetCollatorCommission,
                    SetParachainBondReservePercent, SetParachainBondAccount,
                    SetStakingExpectations, SetInflation, vars
<1>7. CASE UNCHANGED allVars
  BY <1>2, <1>7 DEF allVars, vars, roundVars
<1> QED BY <1>3, <1>4, <1>5, <1>6, <1>7 DEF NextInRounds

(***************************************************************************)
(* "all selected candidates have snapshots": the expect of a selection     *)
(* that finds nobody is met after every sequence of calls, blocks and      *)
(* governance, for every payment delay.                                    *)
(***************************************************************************)
THEOREM SelectedKeepSnapshots == RoundsSpec => []SelectedHaveSnapshots
<1>1. InitRounds => SelectionInv
  BY DEF InitRounds, Init, NoEntries, SelectionInv, SelectedHaveSnapshots
<1>2. SelectionInv /\ IInv /\ [NextInRounds]_allVars => SelectionInv'
  BY SelectionInvStep
<1>3. SelectionInv => SelectedHaveSnapshots
  BY DEF SelectionInv
<1>4. RoundsSpec => []IInv
  BY RoundsKeepLedger, BooksStayInOrder, PTL
<1> QED BY <1>1, <1>2, <1>3, <1>4, PTL DEF RoundsSpec

-----------------------------------------------------------------------------
\* The rates, and that `inflation` keeps its fields.
InflationInv ==
    /\ InflationIsCurrent
    /\ {"expect", "annual", "round"} \subseteq DOMAIN inflation

\* Every step keeps the rates and what they are computed from together.
LEMMA InflationInvHolds == RoundsSpec => []InflationInv
<1>1. InitRounds => InflationInv
  BY DEF InitRounds, InflationInv, InflationIsCurrent, RatesOfGenesis
<1>2. ASSUME InflationInv, [NextInRounds]_allVars PROVE InflationInv'
  <2>1. ASSUME UNCHANGED <<inflation, roundLength>> PROVE InflationInv'
    BY <1>2, <2>1 DEF InflationInv, InflationIsCurrent, RatesFit, RatesOfGenesis, AnnualToRound
  <2>2. CASE Call /\ UNCHANGED roundVars
    BY <2>1, <2>2 DEF roundVars
  <2>3. ASSUME NEW author \in Authors, BlockInRound(author) \/ BlockOfNextRound(author)
        PROVE  InflationInv'
    BY <2>1, <2>3 DEF BlockInRound, BlockOfNextRound
  <2>4. ASSUME NEW new, SetBlocksPerRound(new) PROVE InflationInv'
    BY <1>2, <2>4 DEF SetBlocksPerRound, ResetRound, InflationInv, InflationIsCurrent,
                      RatesFit, AnnualToRound
  <2>5. ASSUME NEW new, SetInflation(new) PROVE InflationInv'
    BY <1>2, <2>5 DEF SetInflation, InflationInv, InflationIsCurrent, RatesFit, AnnualToRound
  <2>6. ASSUME NEW new, SetStakingExpectations(new) PROVE InflationInv'
    BY <1>2, <2>6 DEF SetStakingExpectations, InflationInv, InflationIsCurrent,
                      RatesFit, RatesOfGenesis, AnnualToRound
  <2>7. ASSUME NEW new, \/ SetTotalSelected(new) \/ SetCollatorCommission(new)
                        \/ SetParachainBondReservePercent(new) \/ SetParachainBondAccount(new)
        PROVE  InflationInv'
    BY <2>1, <2>7 DEF SetTotalSelected, SetCollatorCommission,
                      SetParachainBondReservePercent, SetParachainBondAccount
  <2>8. CASE UNCHANGED allVars
    BY <2>1, <2>8 DEF allVars, roundVars
  <2> QED BY <1>2, <2>2, <2>3, <2>4, <2>5, <2>6, <2>7, <2>8 DEF NextInRounds
<1> QED BY <1>1, <1>2, PTL DEF RoundsSpec

(***************************************************************************)
(* The rates of issuance are those of the annual inflation at the present  *)
(* length of rounds, from the first change of either on, whatever the      *)
(* genesis stated: set_inflation converts at the length that               *)
(* set_blocks_per_round set last, which converts the inflation set last.   *)
(* It holds for whatever AnnualToRound computes.                          *)
(***************************************************************************)
THEOREM InflationStaysCurrent == RoundsSpec => []InflationIsCurrent
<1>1. InflationInv => InflationIsCurrent
  BY DEF InflationInv
<1> QED BY <1>1, InflationInvHolds, PTL

-----------------------------------------------------------------------------
(* Snapshots add up *)

\* The total of a snapshot is its parts.
AddsUp(snapshot) ==
    snapshot.total = snapshot.bond
        + SumOf([i \in DOMAIN snapshot.delegations |-> snapshot.delegations[i].amount])

(***************************************************************************)
(* What counts of a delegation and what does not make up the whole of it:  *)
(* there is at most one request on it, and it asks for no more than there  *)
(* is.                                                                     *)
(***************************************************************************)
LEMMA DelegationIsSplit ==
    ASSUME IInv, Coherent, NEW c, NEW bond \in OnRecord(delegator, c)
    PROVE  /\ bond.amount \in Nat
           /\ Uncounted(c, bond) \in Nat /\ Rewardable(c, bond) \in Nat
           /\ bond.amount = Uncounted(c, bond) + Rewardable(c, bond)
<1> DEFINE d == bond.owner
           amount == bond.amount
           R == RequestsFrom(d, c)
           parts == [r \in R |-> IF IsRevoke(r) THEN amount ELSE r.amount]
           pending == [r \in R |-> r.amount]
<1>1. /\ LedgerAgrees /\ Backed(delegator, d, c) /\ amount = delegator[d].bonds[c]
  BY OneOnRecord DEF Coherent
<1>2. amount \in Nat
  BY <1>1, BondIsListed DEF BondOf
<1>3. /\ Uncounted(c, bond) = SumOf(parts)
      /\ Rewardable(c, bond) = IF \E r \in R : IsRevoke(r) THEN 0 ELSE Sub(amount, SumOf(pending))
  BY DEF Uncounted, Rewardable
<1>4. CASE R = {}
  <2>1. SumOf(parts) = 0 /\ SumOf(pending) = 0
    BY <1>4, SumOfZeros
  <2>2. Sub(amount, 0) = amount
    BY <1>2 DEF Sub
  <2> HIDE DEF parts, pending, amount
  <2>3. Uncounted(c, bond) = 0 /\ Rewardable(c, bond) = amount
    BY <1>3, <1>4, <2>1, <2>2
  <2> QED BY <1>2, <2>3 DEF amount
<1>5. ASSUME NEW r \in R PROVE
         /\ Uncounted(c, bond) \in Nat /\ Rewardable(c, bond) \in Nat
         /\ amount = Uncounted(c, bond) + Rewardable(c, bond)
  <2>1. /\ \A s \in R : s = r
        /\ CanBeDone(delegator, r) /\ r.delegator = d /\ r.collator = c /\ r.amount \in Nat
    BY OwnRequestsAreAll DEF Coherent, RequestsStand, RequestsCanBeDone, RequestsFrom,
                             IInv, CalendarInOrder, Request
  <2>2. R = {r}
    BY <2>1
  <2>3. IF IsRevoke(r) THEN r.amount = amount ELSE r.amount <= amount
    <3>1. IF IsRevoke(r) THEN r.amount = amount ELSE r.amount + MinDelegation <= amount
      BY <1>1, <2>1 DEF CanBeDone
    <3>2. MinDelegation \in Nat
      BY AmountsAssumption
    <3> HIDE DEF amount
    <3> QED BY <1>2, <2>1, <3>1, <3>2
  <2>4. parts[r] \in Nat /\ parts[r] = r.amount /\ pending[r] = r.amount
    BY <1>2, <2>1, <2>3
  <2>5. SumOf(parts) = r.amount /\ SumOf(pending) = r.amount
    BY <2>1, <2>2, <2>4, SumOfOne
  <2>6. (\E s \in R : IsRevoke(s)) <=> IsRevoke(r)
    BY <2>2
  <2> HIDE DEF parts, pending, amount, R
  <2>7. /\ Uncounted(c, bond) = r.amount
        /\ Rewardable(c, bond) = IF IsRevoke(r) THEN 0 ELSE Sub(amount, r.amount)
    BY <1>3, <2>5, <2>6
  <2>8. ~IsRevoke(r) => Sub(amount, r.amount) = amount - r.amount
    BY <1>2, <2>1, <2>3 DEF Sub
  <2> QED BY <1>2, <2>1, <2>3, <2>7, <2>8
<1> QED BY <1>2, <1>4, <1>5

\* The snapshot of a candidate adds up when it is taken.
LEMMA SnapshotAddsUp ==
    ASSUME IInv, Coherent, NEW c \in DOMAIN candidate
    PROVE  AddsUp(Snapshot(c))
<1> DEFINE book == candidate[c]
           top == book.top.list
           uncounted == [i \in DOMAIN top |-> Uncounted(c, top[i])]
           rewardable == [i \in DOMAIN top |-> Rewardable(c, top[i])]
           amounts == [i \in DOMAIN top |-> top[i].amount]
<1>1. c \in Account
  BY DEF IInv, CandidatesInOrder, IsStorageMap
<1>2. Ordered(book) /\ Contents(book) = OnRecord(delegator, c)
  BY <1>1 DEF Coherent, LedgerAgrees, BooksAreOrdered, BooksListBonds, Listed
<1>3. /\ BookInv(book) /\ Kept(book.top, 0) /\ book \in Book
      /\ Orderly(top) /\ StakeOf(Entries(top)) \in Nat
  <2> HIDE DEF book
  <2>1. BookInv(book) /\ Kept(book.top, 0) /\ book \in Book
    BY <1>2 DEF Ordered, BookInv
  <2> QED BY <2>1, KeptParts
<1>4. \A i \in DOMAIN top : top[i] \in OnRecord(delegator, c)
  <2>1. Entries(top) \subseteq Contents(book)
    BY DEF Contents
  <2> QED BY <1>2, <2>1 DEF Entries
<1>5. IsFiniteSet(DOMAIN top)
  <2> HIDE DEF top
  <2>1. Len(top) \in Nat /\ DOMAIN top = 1 .. Len(top)
    BY <1>3, ListDomain DEF Orderly
  <2> QED BY <2>1, FS_Interval
<1>6. SumOf(amounts) = StakeOf(Entries(top))
  BY <1>3, StakeOfList
<1>7. /\ book.counted = book.bond + book.top.total /\ book.bond \in Nat
      /\ book.top.total = StakeOf(Entries(top)) + 0
  <2> HIDE DEF book
  <2> QED BY <1>3 DEF BookInv, TopCached, Kept, Book
<1>8. \A i \in DOMAIN top : /\ uncounted[i] \in Nat /\ rewardable[i] \in Nat /\ amounts[i] \in Nat
                            /\ amounts[i] = uncounted[i] + rewardable[i]
  BY <1>4, DelegationIsSplit
<1>9. /\ uncounted \in [DOMAIN top -> Nat] /\ rewardable \in [DOMAIN top -> Nat]
      /\ amounts \in [DOMAIN top -> Nat]
  BY <1>8
<1> DEFINE snapshot == Snapshot(c)
<1>10. /\ snapshot.bond = book.bond
       /\ snapshot.total = Sub(book.counted, SumOf(uncounted))
       /\ [i \in DOMAIN snapshot.delegations |-> snapshot.delegations[i].amount] = rewardable
  BY DEF Snapshot
<1> HIDE DEF uncounted, rewardable, amounts, snapshot, top
<1>11. SumOf(amounts) = SumOf(uncounted) + SumOf(rewardable)
  BY <1>5, <1>8, <1>9, SumOfTogether
<1>12. SumOf(uncounted) \in Nat /\ SumOf(rewardable) \in Nat
  BY <1>5, <1>9, SumInNat
<1> DEFINE bond == book.bond
           counted == book.counted
           whole == StakeOf(Entries(top))
<1>13. /\ counted = bond + whole /\ bond \in Nat /\ whole \in Nat
       /\ whole = SumOf(uncounted) + SumOf(rewardable)
  BY <1>3, <1>6, <1>7, <1>11
<1> HIDE DEF bond, counted, whole
<1>14. Sub(counted, SumOf(uncounted)) = bond + SumOf(rewardable)
  BY <1>12, <1>13 DEF Sub
<1>15. snapshot.total = snapshot.bond + SumOf(rewardable)
  BY <1>10, <1>14 DEF bond, counted
<1> QED BY <1>10, <1>15 DEF AddsUp, snapshot

\* So do all that the selection stores, those it carries over included.
LEMMA SelectionAddsUp ==
    ASSUME IInv, Coherent, PoolIsCurrent, \A k \in DOMAIN atStake : AddsUp(atStake[k]),
           NEW now, NEW selection \in SelectTopCandidates(now)
    PROVE  \A k \in DOMAIN selection.stakes : AddsUp(selection.stakes[k])
<1>1. ASSUME NEW snapshots, \A c \in DOMAIN snapshots : AddsUp(snapshots[c]),
             NEW k \in DOMAIN WithSnapshots(now, snapshots)
      PROVE  AddsUp(WithSnapshots(now, snapshots)[k])
  <2>1. \/ /\ k \in DOMAIN atStake
           /\ WithSnapshots(now, snapshots)[k] = atStake[k]
        \/ /\ k[2] \in DOMAIN snapshots
           /\ WithSnapshots(now, snapshots)[k] = snapshots[k[2]]
    BY DEF WithSnapshots
  <2> QED BY <1>1, <2>1
<1>2. PICK collators \in TopCandidates :
        selection = IF collators = {} THEN SelectAgain(now)
                    ELSE [stakes |-> WithSnapshots(now, [c \in collators |-> Snapshot(c)]),
                          selected |-> collators]
  BY DEF SelectTopCandidates
<1>3. CASE collators = {}
  <2> DEFINE again == [c \in SnapshotsOf(now - 1) |-> atStake[<<now - 1, c>>]]
  <2>1. selection.stakes = WithSnapshots(now, again)
    BY <1>2, <1>3 DEF SelectAgain
  <2>2. \A c \in DOMAIN again : AddsUp(again[c])
    BY DEF SnapshotsOf
  <2> HIDE DEF again
  <2> QED BY <1>1, <2>1, <2>2
<1>4. CASE collators # {}
  <2> DEFINE taken == [c \in collators |-> Snapshot(c)]
  <2>1. selection.stakes = WithSnapshots(now, taken)
    BY <1>2, <1>4
  <2>2. collators \subseteq DOMAIN candidate
    BY DEF TopCandidates, PoolIsCurrent
  <2>3. \A c \in DOMAIN taken : AddsUp(taken[c])
    BY <2>2, SnapshotAddsUp
  <2> HIDE DEF taken
  <2> QED BY <1>1, <2>1, <2>3
<1> QED BY <1>3, <1>4

\* A payout drops a snapshot, at most.
LEMMA PayAndAwardAddsUp ==
    ASSUME NEW now, NEW author, NEW prepared, NEW stakes,
           PayAndAward(now, author, prepared, stakes), \A k \in DOMAIN stakes : AddsUp(stakes[k])
    PROVE  \A k \in DOMAIN atStake' : AddsUp(atStake'[k])
<1>1. atStake' = stakes \/ \E k : atStake' = Drop(stakes, k)
  BY DEF PayAndAward
<1>2. ASSUME NEW k, atStake' = Drop(stakes, k)
      PROVE  \A x \in DOMAIN atStake' : x \in DOMAIN stakes /\ atStake'[x] = stakes[x]
  BY <1>2 DEF Drop
<1> QED BY <1>1, <1>2

(***************************************************************************)
(* Every snapshot adds up as long as it is kept, so that the parts by      *)
(* which a reward is divided make a whole: it was taken of a coherent      *)
(* ledger, and nobody writes it afterwards.                                *)
(***************************************************************************)
THEOREM SnapshotsAlwaysAddUp == RoundsSpec => []SnapshotsAddUp
<1> DEFINE Inv == \A k \in DOMAIN atStake : AddsUp(atStake[k])
<1>1. InitRounds => Inv
  BY DEF InitRounds, NoEntries
<1>2. ASSUME Inv, IInv, Coherent, PoolIsCurrent, [NextInRounds]_allVars PROVE Inv'
  <2>1. ASSUME UNCHANGED atStake PROVE Inv'
    BY <1>2, <2>1 DEF AddsUp
  <2>2. CASE Call /\ UNCHANGED roundVars
    BY <2>1, <2>2 DEF roundVars
  <2>3. ASSUME NEW author \in Authors, BlockInRound(author) PROVE Inv'
    BY <1>2, <2>3, PayAndAwardAddsUp DEF BlockInRound
  <2>4. ASSUME NEW author \in Authors, BlockOfNextRound(author) PROVE Inv'
    <3>1. PICK selection \in SelectTopCandidates(round + 1) :
            PayAndAward(round + 1, author, PreparePayouts(round + 1), selection.stakes)
      BY <2>4 DEF BlockOfNextRound
    <3>2. \A k \in DOMAIN selection.stakes : AddsUp(selection.stakes[k])
      BY <1>2, SelectionAddsUp
    <3> QED BY <3>1, <3>2, PayAndAwardAddsUp
  <2>5. ASSUME NEW new, \/ SetTotalSelected(new) \/ SetBlocksPerRound(new)
                        \/ SetCollatorCommission(new) \/ SetParachainBondReservePercent(new)
                        \/ SetParachainBondAccount(new) \/ SetStakingExpectations(new)
                        \/ SetInflation(new)
        PROVE  Inv'
    BY <2>1, <2>5 DEF SetTotalSelected, SetBlocksPerRound, SetCollatorCommission,
                      SetParachainBondReservePercent, SetParachainBondAccount,
                      SetStakingExpectations, SetInflation
  <2>6. CASE UNCHANGED allVars
    BY <2>1, <2>6 DEF allVars, roundVars
  <2> QED BY <1>2, <2>2, <2>3, <2>4, <2>5, <2>6 DEF NextInRounds
<1>3. Inv => SnapshotsAddUp
  BY DEF AddsUp, SnapshotsAddUp
<1>4. RoundsSpec => [](IInv /\ Coherent /\ PoolIsCurrent)
  BY RoundsKeepLedger, LedgerStaysCoherent, PoolStaysCurrent, PTL
<1> QED BY <1>1, <1>2, <1>3, <1>4, PTL DEF RoundsSpec

-----------------------------------------------------------------------------
(* Everybody is paid *)

(***************************************************************************)
(* What the configuration must grant: payments come at least a round       *)
(* later, and no round is shorter than there are authors, as one of them   *)
(* is paid in each block.                                                  *)
(***************************************************************************)
RoundsAreLong ==
    /\ RewardPaymentDelay > 0
    /\ \A n \in {InitialBlocksPerRound} \cup RoundLengths : n >= Cardinality(Authors)

\* Points are earned up to the round `now` and kept for whoever is to be paid.
AuthorsInOrder(now) ==
    /\ \A k \in DOMAIN awardedPts :
        /\ k \in (1 .. now) \X Authors
        /\ k[1] \in DOMAIN points
        /\ k[1] + RewardPaymentDelay >= now
    /\ \A r \in DOMAIN points : points[r] \in Nat \ {0}

\* The authors whose turn it is have a payout.
TurnIsPrepared(payouts, now) ==
    \A k \in DOMAIN awardedPts : k[1] + RewardPaymentDelay = now => k[1] \in DOMAIN payouts

\* The blocks of the round have paid as many as they are, or there is nobody left.
PaidInTime ==
    LET unpaid == AuthorsOf(round - RewardPaymentDelay) IN
    unpaid = {} \/ Cardinality(unpaid) + age + 1 <= Cardinality(Authors)

PaymentInv ==
    /\ age \in Nat /\ roundLength \in Nat /\ roundLength >= Cardinality(Authors)
    /\ AuthorsInOrder(round)
    /\ TurnIsPrepared(delayedPayouts, round)
    /\ PaidInTime

\* A block adds its author and, if somebody is to be paid, takes one of those.
LEMMA PayAndAwardAuthors ==
    ASSUME NEW now \in Nat \ {0}, NEW author \in Authors, NEW prepared, NEW stakes,
           PayAndAward(now, author, prepared, stakes), RewardPaymentDelay > 0,
           AuthorsInOrder(now), TurnIsPrepared(prepared.payouts, now)
    PROVE  /\ AuthorsInOrder(now)' /\ TurnIsPrepared(delayedPayouts, now)'
           /\ LET r == now - RewardPaymentDelay IN
              \/ AuthorsOf(r)' = {}
              \/ \E c \in AuthorsOf(r) : AuthorsOf(r)' = AuthorsOf(r) \ {c}
<1> DEFINE r == now - RewardPaymentDelay
           due == now >= RewardPaymentDelay /\ r \in DOMAIN prepared.payouts
<1>1. RewardPaymentDelay \in Nat /\ r \in Int /\ r # now /\ r + RewardPaymentDelay = now
  BY RoundsAssumption
<1>2. author \in Account /\ Authors \subseteq Account
  BY RoundsAssumption
<1>3. \A k \in DOMAIN awardedPts :
        /\ k \in (1 .. now) \X Authors /\ k[1] \in Nat /\ k[2] \in Authors /\ k = <<k[1], k[2]>>
        /\ k[1] \in DOMAIN points /\ k[1] + RewardPaymentDelay >= now
        /\ k[1] = r => due
  BY <1>1 DEF AuthorsInOrder, TurnIsPrepared
<1>4. \A q \in DOMAIN points : points[q] \in Nat \ {0}
  BY DEF AuthorsInOrder
<1> HIDE DEF r, due
<1>5. ASSUME NEW awarded, DOMAIN awarded \subseteq DOMAIN awardedPts,
             NEW pts, DOMAIN pts \subseteq DOMAIN points,
             \A q \in DOMAIN pts : pts[q] = points[q],
             \A k \in DOMAIN awarded : k[1] \in DOMAIN pts,
             awardedPts' = Earned(awarded, <<now, author>>), points' = Earned(pts, now)
      PROVE  /\ AuthorsInOrder(now)'
             /\ DOMAIN awardedPts' = DOMAIN awarded \cup {<<now, author>>}
  <2>1. /\ DOMAIN awardedPts' = DOMAIN awarded \cup {<<now, author>>}
        /\ DOMAIN points' = DOMAIN pts \cup {now}
    BY <1>5 DEF Earned, Put
  <2>2. ASSUME NEW k \in DOMAIN awardedPts'
        PROVE  k \in (1 .. now) \X Authors /\ k[1] \in DOMAIN points'
               /\ k[1] + RewardPaymentDelay >= now
    <3>1. CASE k \in DOMAIN awarded
      BY <1>3, <1>5, <2>1, <3>1
    <3>2. CASE k = <<now, author>>
      BY <1>1, <2>1, <3>2
    <3> QED BY <2>1, <3>1, <3>2
  <2>3. ASSUME NEW q \in DOMAIN points' PROVE points'[q] \in Nat \ {0}
    <3>1. CASE q # now
      <4>1. points'[q] = pts[q] /\ q \in DOMAIN pts
        BY <1>5, <2>1, <3>1 DEF Earned, Put
      <4> QED BY <1>4, <1>5, <4>1
    <3>2. CASE q = now
      <4>1. points'[q] = PointsPerBlock + IF now \in DOMAIN pts THEN pts[now] ELSE 0
        BY <1>5, <2>1, <3>2 DEF Earned, Put
      <4>2. (IF now \in DOMAIN pts THEN pts[now] ELSE 0) \in Nat
        BY <1>4, <1>5
      <4> QED BY <4>1, <4>2 DEF PointsPerBlock
    <3> QED BY <3>1, <3>2
  <2> QED BY <2>1, <2>2, <2>3 DEF AuthorsInOrder
<1>6. CASE /\ ~due /\ delayedPayouts' = prepared.payouts
           /\ awardedPts' = Earned(awardedPts, <<now, author>>)
           /\ points' = Earned(points, now)
  <2>1. AuthorsInOrder(now)' /\ DOMAIN awardedPts' = DOMAIN awardedPts \cup {<<now, author>>}
    BY <1>3, <1>5, <1>6
  <2>2. \A k \in DOMAIN awardedPts' : k[1] # r
    BY <1>1, <1>3, <1>6, <2>1
  <2>3. \A k \in DOMAIN awardedPts' : k[1] \in Nat
    BY <1>3, <2>1
  <2>4. TurnIsPrepared(delayedPayouts, now)'
    BY <1>1, <2>2, <2>3 DEF TurnIsPrepared, r
  <2>5. AuthorsOf(r)' = {}
    BY <2>2 DEF AuthorsOf
  <2> QED BY <2>1, <2>4, <2>5 DEF r
<1>7. ASSUME due, delayedPayouts' = prepared.payouts, NEW c \in AuthorsOf(r),
             awardedPts' = Earned(Drop(awardedPts, <<r, c>>), <<now, author>>),
             points' = Earned(points, now)
      PROVE  /\ AuthorsInOrder(now)' /\ TurnIsPrepared(delayedPayouts, now)'
             /\ AuthorsOf(r)' = AuthorsOf(r) \ {c}
  <2>1. DOMAIN Drop(awardedPts, <<r, c>>) = DOMAIN awardedPts \ {<<r, c>>}
    BY DEF Drop
  <2>2. /\ AuthorsInOrder(now)'
        /\ DOMAIN awardedPts' = (DOMAIN awardedPts \ {<<r, c>>}) \cup {<<now, author>>}
    BY <1>3, <1>5, <1>7, <2>1
  <2>3. TurnIsPrepared(delayedPayouts, now)'
    BY <1>1, <1>3, <1>7, <2>2 DEF TurnIsPrepared, due, r
  <2>4. AuthorsOf(r)' = AuthorsOf(r) \ {c}
    <3>1. \A a : <<r, a>> # <<now, author>>
      BY <1>1
    <3>2. \A a : <<r, a>> = <<r, c>> <=> a = c
      OBVIOUS
    <3> QED BY <2>2, <3>1, <3>2 DEF AuthorsOf
  <2> QED BY <2>2, <2>3, <2>4
<1>8. CASE /\ due /\ PaidInFull(r) /\ delayedPayouts' = Drop(prepared.payouts, r)
           /\ awardedPts' = Earned(awardedPts, <<now, author>>)
           /\ points' = Earned(Drop(points, r), now)
  <2>1. \A k \in DOMAIN awardedPts : k[1] # r
    <3>1. CASE PointsOf(r) = 0
      BY <1>3, <1>4, <3>1 DEF PointsOf
    <3>2. CASE AuthorsOf(r) = {}
      BY <1>2, <1>3, <3>2 DEF AuthorsOf
    <3> QED BY <1>8, <3>1, <3>2 DEF PaidInFull
  <2>2. DOMAIN Drop(points, r) = DOMAIN points \ {r}
        /\ \A q \in DOMAIN points \ {r} : Drop(points, r)[q] = points[q]
    BY DEF Drop
  <2>3. AuthorsInOrder(now)' /\ DOMAIN awardedPts' = DOMAIN awardedPts \cup {<<now, author>>}
    BY <1>3, <1>5, <1>8, <2>1, <2>2
  <2>4. \A k \in DOMAIN awardedPts' : k[1] # r /\ k[1] \in Nat
    BY <1>1, <1>3, <2>1, <2>3
  <2>5. TurnIsPrepared(delayedPayouts, now)'
    BY <1>1, <2>4 DEF TurnIsPrepared, r
  <2>6. AuthorsOf(r)' = {}
    BY <2>4 DEF AuthorsOf
  <2> QED BY <2>3, <2>5, <2>6 DEF r
<1> QED BY <1>6, <1>7, <1>8 DEF PayAndAward, r, due

LEMMA AuthorsAreFew ==
    ASSUME NEW now, AuthorsInOrder(now), NEW r
    PROVE  /\ IsFiniteSet(AuthorsOf(r)) /\ Cardinality(AuthorsOf(r)) \in Nat
           /\ Cardinality(AuthorsOf(r)) <= Cardinality(Authors) /\ Cardinality(Authors) \in Nat
<1>1. IsFiniteSet(Authors)
  BY AccountsAssumption, RoundsAssumption, FS_Subset
<1>2. AuthorsOf(r) \subseteq Authors
  <2>1. ASSUME NEW a, <<r, a>> \in DOMAIN awardedPts PROVE a \in Authors
    BY <2>1 DEF AuthorsInOrder
  <2> QED BY <2>1 DEF AuthorsOf
<1> QED BY <1>1, <1>2, FS_Subset, FS_CardinalityType

\* What was prepared for a round includes the payout of those whose turn comes with it.
LEMMA NextTurnIsPrepared ==
    ASSUME SelectionInv, PaymentInv, RewardPaymentDelay > 0, round \in Nat \ {0}
    PROVE  TurnIsPrepared(PreparePayouts(round + 1).payouts, round + 1)
<1> DEFINE now == round + 1
           r == now - RewardPaymentDelay
<1>1. RewardPaymentDelay \in Nat
  BY RoundsAssumption
<1>2. SUFFICES ASSUME NEW k \in DOMAIN awardedPts, k[1] + RewardPaymentDelay = now
               PROVE  k[1] \in DOMAIN PreparePayouts(now).payouts
  BY DEF TurnIsPrepared
<1>3. k[1] \in 1 .. round /\ k[1] \in DOMAIN points /\ points[k[1]] \in Nat \ {0}
  BY DEF PaymentInv, AuthorsInOrder
<1>4. k[1] = r /\ now > RewardPaymentDelay
  BY <1>1, <1>2, <1>3
<1>5. PointsOf(r) # 0
  BY <1>3, <1>4 DEF PointsOf
<1>6. DOMAIN PreparePayouts(now).payouts = DOMAIN delayedPayouts \cup {r}
  <2>1. ~(now <= RewardPaymentDelay \/ PointsOf(r) = 0)
    BY <1>1, <1>4, <1>5
  <2> QED BY <2>1 DEF PreparePayouts, Put
<1> QED BY <1>4, <1>6

LEMMA PaymentInvStep ==
    ASSUME RoundsAreLong, SelectionInv, IInv, PaymentInv, [NextInRounds]_allVars
    PROVE  PaymentInv'
<1>1. /\ round \in Nat \ {0} /\ RewardPaymentDelay > 0 /\ RewardPaymentDelay \in Nat
      /\ Cardinality(Authors) \in Nat /\ age \in Nat /\ roundLength \in Nat
      /\ roundLength >= Cardinality(Authors)
  BY AuthorsAreFew, RoundsAssumption DEF RoundsAreLong, IInv, CalendarInOrder, PaymentInv
<1>2. ASSUME UNCHANGED <<round, age, awardedPts, points, delayedPayouts>>,
             roundLength' \in Nat, roundLength' >= Cardinality(Authors)
      PROVE  PaymentInv'
  BY <1>2 DEF PaymentInv, AuthorsInOrder, TurnIsPrepared, PaidInTime, AuthorsOf
<1>3. CASE Call /\ UNCHANGED roundVars
  BY <1>1, <1>2, <1>3, CallKeepsRound DEF roundVars
<1>4. ASSUME NEW author \in Authors, BlockInRound(author) PROVE PaymentInv'
  <2>1. /\ PayAndAward(round, author, NoPayouts, atStake)
        /\ round' = round /\ roundLength' = roundLength /\ age' = age + 1
    BY <1>4 DEF BlockInRound, vars
  <2>2. NoPayouts.payouts = delayedPayouts
    BY DEF NoPayouts
  <2>3. AuthorsInOrder(round) /\ TurnIsPrepared(NoPayouts.payouts, round)
    BY <2>2 DEF PaymentInv
  <2> DEFINE now == round
             r == now - RewardPaymentDelay
  <2>4. \A n \in Nat \ {0} : n = now =>
            /\ AuthorsInOrder(n)' /\ TurnIsPrepared(delayedPayouts, n)'
            /\ \/ AuthorsOf(n - RewardPaymentDelay)' = {}
               \/ \E c \in AuthorsOf(n - RewardPaymentDelay) :
                    AuthorsOf(n - RewardPaymentDelay)' = AuthorsOf(n - RewardPaymentDelay) \ {c}
    BY <1>1, <2>1, <2>3, PayAndAwardAuthors
  <2>5. /\ AuthorsInOrder(round)' /\ TurnIsPrepared(delayedPayouts, round)'
        /\ \/ AuthorsOf(r)' = {}
           \/ \E c \in AuthorsOf(r) : AuthorsOf(r)' = AuthorsOf(r) \ {c}
    BY <1>1, <2>1, <2>4 DEF AuthorsInOrder, TurnIsPrepared, AuthorsOf
  <2>6. PaidInTime'
    <3>1. CASE AuthorsOf(r)' = {}
      BY <2>1, <3>1 DEF PaidInTime, AuthorsOf
    <3>2. ASSUME NEW c \in AuthorsOf(r), AuthorsOf(r)' = AuthorsOf(r) \ {c}
          PROVE  PaidInTime'
      <4> DEFINE some == Cardinality(AuthorsOf(r))
      <4>1. IsFiniteSet(AuthorsOf(r)) /\ some \in Nat
        BY <2>3, AuthorsAreFew
      <4>2. Cardinality(AuthorsOf(r) \ {c}) = some - 1
        BY <3>2, <4>1, FS_RemoveElement
      <4>3. some + age + 1 <= Cardinality(Authors)
        BY <3>2 DEF PaymentInv, PaidInTime
      <4> HIDE DEF some
      <4>4. (some - 1) + age' + 1 <= Cardinality(Authors)
        BY <1>1, <2>1, <4>1, <4>3
      <4>5. AuthorsOf(round - RewardPaymentDelay)' = AuthorsOf(r) \ {c}
        BY <2>1, <3>2 DEF AuthorsOf
      <4> QED BY <4>2, <4>4, <4>5 DEF PaidInTime
    <3> QED BY <2>5, <3>1, <3>2
  <2> QED BY <1>1, <2>1, <2>5, <2>6 DEF PaymentInv
<1>5. ASSUME NEW author \in Authors, BlockOfNextRound(author) PROVE PaymentInv'
  <2> DEFINE now == round + 1
             prepared == PreparePayouts(now)
             old == AuthorsOf(round - RewardPaymentDelay)
             r == now - RewardPaymentDelay
  <2>1. PICK selection \in SelectTopCandidates(now) :
            PayAndAward(now, author, prepared, selection.stakes)
    BY <1>5 DEF BlockOfNextRound
  <2>2. /\ round' = now /\ now \in Nat \ {0} /\ age' = 0 /\ roundLength' = roundLength
        /\ age + 1 >= roundLength
    BY <1>1, <1>5 DEF BlockOfNextRound, NextRound
  <2>3. old = {}
    <3>1. IsFiniteSet(old) /\ Cardinality(old) \in Nat
      BY AuthorsAreFew DEF PaymentInv
    <3>2. old = {} \/ Cardinality(old) + age + 1 <= Cardinality(Authors)
      BY DEF PaymentInv, PaidInTime
    <3> HIDE DEF old
    <3>3. old = {} \/ Cardinality(old) = 0
      BY <1>1, <2>2, <3>1, <3>2
    <3> QED BY <3>1, <3>3, FS_EmptySet
  <2>4. AuthorsInOrder(now)
    <3>1. ASSUME NEW k \in DOMAIN awardedPts
          PROVE  /\ k \in (1 .. now) \X Authors /\ k[1] \in DOMAIN points
                 /\ k[1] + RewardPaymentDelay >= now
      <4>1. /\ k \in (1 .. round) \X Authors /\ k[1] \in 1 .. round /\ k[2] \in Authors
            /\ k[1] \in DOMAIN points
            /\ k[1] + RewardPaymentDelay >= round /\ k = <<k[1], k[2]>>
        BY DEF PaymentInv, AuthorsInOrder
      <4>2. k[2] \in Account
        BY <4>1, RoundsAssumption
      <4>3. k[1] # round - RewardPaymentDelay
        BY <2>3, <4>1, <4>2 DEF AuthorsOf
      <4> QED BY <1>1, <4>1, <4>3
    <3> QED BY <3>1 DEF PaymentInv, AuthorsInOrder
  <2>5. TurnIsPrepared(prepared.payouts, now)
    BY <1>1, NextTurnIsPrepared
  <2>6. Cardinality(AuthorsOf(r)) <= Cardinality(Authors) /\ IsFiniteSet(AuthorsOf(r))
        /\ Cardinality(AuthorsOf(r)) \in Nat
    BY <2>4, AuthorsAreFew
  <2> HIDE DEF prepared
  <2>7. \A n \in Nat \ {0} : n = now =>
            /\ AuthorsInOrder(n)' /\ TurnIsPrepared(delayedPayouts, n)'
            /\ \/ AuthorsOf(n - RewardPaymentDelay)' = {}
               \/ \E c \in AuthorsOf(n - RewardPaymentDelay) :
                    AuthorsOf(n - RewardPaymentDelay)' = AuthorsOf(n - RewardPaymentDelay) \ {c}
    BY <1>1, <2>1, <2>4, <2>5, PayAndAwardAuthors
  <2>8. /\ AuthorsInOrder(round)' /\ TurnIsPrepared(delayedPayouts, round)'
        /\ \/ AuthorsOf(round - RewardPaymentDelay)' = {}
           \/ \E c \in AuthorsOf(r) :
                AuthorsOf(round - RewardPaymentDelay)' = AuthorsOf(r) \ {c}
    BY <2>2, <2>7 DEF AuthorsInOrder, TurnIsPrepared, AuthorsOf
  <2>9. PaidInTime'
    <3>1. CASE AuthorsOf(round - RewardPaymentDelay)' = {}
      BY <3>1 DEF PaidInTime
    <3>2. ASSUME NEW c \in AuthorsOf(r),
                 AuthorsOf(round - RewardPaymentDelay)' = AuthorsOf(r) \ {c}
          PROVE  PaidInTime'
      <4> DEFINE some == Cardinality(AuthorsOf(r))
      <4>1. Cardinality(AuthorsOf(r) \ {c}) = some - 1
        BY <2>6, <3>2, FS_RemoveElement
      <4>2. some \in Nat /\ some <= Cardinality(Authors)
        BY <2>6
      <4> HIDE DEF some
      <4>3. (some - 1) + age' + 1 <= Cardinality(Authors)
        BY <1>1, <2>2, <4>2
      <4> QED BY <3>2, <4>1, <4>3 DEF PaidInTime
    <3> QED BY <2>8, <3>1, <3>2
  <2> QED BY <1>1, <2>2, <2>8, <2>9 DEF PaymentInv
<1>6. ASSUME NEW new \in RoundLengths, SetBlocksPerRound(new) PROVE PaymentInv'
  <2>1. new \in Nat /\ new >= Cardinality(Authors)
    BY RoundsAssumption DEF RoundsAreLong
  <2> QED BY <1>2, <1>6, <2>1 DEF SetBlocksPerRound, vars
<1>7. ASSUME NEW new, \/ SetTotalSelected(new)
                      \/ SetCollatorCommission(new) \/ SetParachainBondReservePercent(new)
                      \/ SetParachainBondAccount(new) \/ SetStakingExpectations(new)
                      \/ SetInflation(new)
      PROVE  PaymentInv'
  BY <1>1, <1>2, <1>7 DEF SetTotalSelected, SetCollatorCommission,
                    SetParachainBondReservePercent,
                    SetParachainBondAccount, SetStakingExpectations, SetInflation, vars
<1>8. CASE UNCHANGED allVars
  BY <1>1, <1>2, <1>8 DEF allVars, vars, roundVars
<1> QED BY <1>3, <1>4, <1>5, <1>6, <1>7, <1>8 DEF NextInRounds

LEMMA SelectionInvHolds == RoundsSpec => [](SelectionInv /\ IInv)
<1>1. InitRounds => SelectionInv
  BY DEF InitRounds, Init, NoEntries, SelectionInv, SelectedHaveSnapshots
<1>2. SelectionInv /\ IInv /\ [NextInRounds]_allVars => SelectionInv'
  BY SelectionInvStep
<1>3. RoundsSpec => []IInv
  BY RoundsKeepLedger, BooksStayInOrder, PTL
<1> QED BY <1>1, <1>2, <1>3, PTL DEF RoundsSpec

(***************************************************************************)
(* "payments are made once-per-block until all payments have been made":   *)
(* every author is paid before the round of its payment ends, provided     *)
(* that no round is shorter than there are authors.  The code only asks    *)
(* that a new length is not below the number of collators selected at that *)
(* time; the run rounds_short_doc shows what happens without it.           *)
(***************************************************************************)
THEOREM AuthorsAreAlwaysPaid ==
    ASSUME RoundsAreLong PROVE RoundsSpec => []EveryAuthorIsPaid
<1>1. InitRounds => PaymentInv
  <2>1. \A n \in {InitialBlocksPerRound} \cup RoundLengths : n \in Nat
    BY RoundsAssumption
  <2> QED BY <2>1 DEF InitRounds, NoEntries, PaymentInv, AuthorsInOrder, TurnIsPrepared,
                      PaidInTime, AuthorsOf, RoundsAreLong
<1>2. SelectionInv /\ IInv /\ PaymentInv /\ [NextInRounds]_allVars => PaymentInv'
  BY PaymentInvStep
<1>3. PaymentInv => EveryAuthorIsPaid
  BY DEF PaymentInv, AuthorsInOrder, EveryAuthorIsPaid
<1> QED BY <1>1, <1>2, <1>3, SelectionInvHolds, PTL DEF RoundsSpec

-----------------------------------------------------------------------------
(* A payout is a share *)

(***************************************************************************)
(* What a configuration may grant: commission and reserve leave a whole    *)
(* reward, and no candidate stands without stake of its own, so that there *)
(* is something to divide by.                                              *)
(***************************************************************************)
WholeSuffices ==
    \A c \in {InitialCommission} \cup Commissions, p \in {InitialReserve} \cup Reserves :
        c + p <= Accuracy

CandidatesHaveStake == MinCandidateStk > 0 /\ MinWhitelistCandidateStk > 0

SelfBondsArePositive == \A c \in DOMAIN candidate : candidate[c].bond > 0

\* A snapshot of c divides its total among c and others, each of them once.
Fair(c, snapshot) ==
    /\ AddsUp(snapshot)
    /\ c \in Account
    /\ snapshot.bond \in Nat \ {0}
    /\ IsFiniteSet(DOMAIN snapshot.delegations)
    /\ \A i \in DOMAIN snapshot.delegations :
        /\ snapshot.delegations[i].owner \in Account \ {c}
        /\ snapshot.delegations[i].amount \in Nat
    /\ OneEach(snapshot.delegations)

SnapshotsAreFair(stakes) == \A k \in DOMAIN stakes : Fair(k[2], stakes[k])

\* The commission of a payout is within what is paid, if governance sees to it.
IsPayout(payout) ==
    /\ payout.issuance \in Nat /\ payout.reward \in Nat /\ payout.commission \in Nat
    /\ WholeSuffices => Part(payout.commission, payout.issuance) <= payout.reward

PayoutsAreWhole(payouts) == \A r \in DOMAIN payouts : IsPayout(payouts[r])

PointsAreNumbers ==
    /\ \A r \in DOMAIN points : points[r] \in Nat
    /\ \A k \in DOMAIN awardedPts : awardedPts[k] \in Nat

RatesAreNumbers ==
    inflation.round.min \in Nat /\ inflation.round.ideal \in Nat /\ inflation.round.max \in Nat

\* what governance has set
SettingsInOrder ==
    /\ commission \in {InitialCommission} \cup Commissions
    /\ reserve \in {InitialReserve} \cup Reserves
    /\ bondAccount \in Account
    /\ roundLength \in 1 .. BlocksPerYear
    /\ inflation.annual \in RangeOf(0 .. Accuracy)
    /\ RatesAreNumbers

ShareInv ==
    /\ SelfBondsArePositive /\ SnapshotsAreFair(atStake) /\ PayoutsAreWhole(delayedPayouts)
    /\ PointsAreNumbers /\ SettingsInOrder

-----------------------------------------------------------------------------
(* Parts of a whole *)

\* A quotient is the greatest whole number of times the divisor fits.
LEMMA Divided ==
    ASSUME NEW x \in Nat, NEW n \in Nat \ {0}
    PROVE  /\ x \div n \in Nat /\ x % n \in Nat
           /\ n * (x \div n) \in Nat
           /\ x = n * (x \div n) + (x % n) /\ x % n < n
<1> DEFINE q == x \div n
           r == x % n
           m == n * q
<1>1. q \in Int /\ r \in Int /\ r >= 0 /\ r < n
  OBVIOUS
<1>2. q >= 0
  OBVIOUS
<1>3. r = x - m
  OBVIOUS
<1> HIDE DEF q, r
<1>4. m \in Nat
  BY <1>1, <1>2
<1> HIDE DEF m
<1>5. x = m + r
  BY <1>1, <1>3, <1>4
<1>6. q \in Nat /\ r \in Nat
  BY <1>1, <1>2
<1> QED BY <1>1, <1>4, <1>5, <1>6, Zenon DEF m, q, r

\* Products are numbers and grow with their factors.
LEMMA Products ==
    ASSUME NEW x \in Nat, NEW y \in Nat, NEW n \in Nat
    PROVE  /\ n * x \in Nat
           /\ x <= y => n * x <= n * y
           /\ n # 0 /\ n * x <= n * y => x <= y
           /\ n # 0 /\ n * x < n * y + n => x <= y
<1>1. n * x \in Nat /\ n * y \in Nat
  OBVIOUS
<1>2. ASSUME x <= y PROVE n * x <= n * y
  BY <1>2
<1>3. ASSUME n # 0, ~(x <= y) PROVE n * x >= n * y + n
  <2>1. x >= y + 1
    BY <1>3
  <2>2. n * x >= n * (y + 1)
    BY <2>1
  <2>3. n * (y + 1) = n * y + n
    OBVIOUS
  <2> QED BY <1>1, <2>2, <2>3
<1>4. ASSUME n # 0, n * x <= n * y PROVE x <= y
  BY <1>1, <1>3, <1>4
<1>5. ASSUME n # 0, n * x < n * y + n PROVE x <= y
  BY <1>1, <1>3, <1>5
<1> QED BY <1>1, <1>2, <1>4, <1>5

\* A part is rounded to the nearest, down from the half.
LEMMA PartIsNearest ==
    ASSUME NEW p \in Nat, NEW x \in Nat
    PROVE  /\ Part(p, x) \in Nat
           /\ 2 * (Accuracy * Part(p, x)) < 2 * (p * x) + Accuracy
           /\ 2 * (p * x) <= 2 * (Accuracy * Part(p, x)) + Accuracy
<1> DEFINE y == p * x
           q == y \div Accuracy
           r == y % Accuracy
           half == Accuracy \div 2
<1>1. Accuracy \in Nat \ {0}
  BY RoundsAssumption
<1>2. y \in Nat
  OBVIOUS
<1> HIDE DEF y
<1>3. q \in Nat /\ r \in Nat /\ y = Accuracy * q + r /\ r < Accuracy
  BY <1>1, <1>2, Divided
<1>4. half \in Nat /\ 2 * half <= Accuracy /\ Accuracy <= 2 * half + 1
  BY <1>1
<1>5. Part(p, x) = q + IF r > half THEN 1 ELSE 0
  BY DEF Part, y
<1> DEFINE m == Accuracy * q
<1>6. m \in Nat /\ Accuracy * (q + 1) = m + Accuracy
  BY <1>1, <1>3
<1> HIDE DEF q, r, half
<1>7. CASE r > half
  <2>1. Part(p, x) = q + 1
    BY <1>5, <1>7
  <2>2. Accuracy * Part(p, x) = m + Accuracy
    BY <1>6, <2>1
  <2> HIDE DEF m
  <2>3. y = m + r
    BY <1>3 DEF m
  <2>4. /\ 2 * (m + Accuracy) < 2 * y + Accuracy
        /\ 2 * y <= 2 * (m + Accuracy) + Accuracy
    BY <1>1, <1>3, <1>4, <1>6, <1>7, <2>3
  <2>5. q + 1 \in Nat
    BY <1>3
  <2> QED BY <2>1, <2>2, <2>4, <2>5 DEF y
<1>8. CASE ~(r > half)
  <2>1. Part(p, x) = q
    BY <1>3, <1>5, <1>8
  <2>2. Accuracy * Part(p, x) = m
    BY <2>1
  <2> HIDE DEF m
  <2>3. y = m + r
    BY <1>3 DEF m
  <2>4. /\ 2 * m < 2 * y + Accuracy
        /\ 2 * y <= 2 * m + Accuracy
    BY <1>1, <1>3, <1>4, <1>6, <1>8, <2>3
  <2> QED BY <1>3, <2>1, <2>2, <2>4 DEF y
<1> QED BY <1>7, <1>8

\* More of more is more.
LEMMA PartGrows ==
    ASSUME NEW p \in Nat, NEW x \in Nat, NEW y \in Nat, x <= y
    PROVE  Part(p, x) <= Part(p, y)
<1> DEFINE a == Part(p, x)
           b == Part(p, y)
<1>1. p * x <= p * y /\ p * x \in Nat /\ p * y \in Nat
  BY Products
<1>2. a \in Nat /\ 2 * (Accuracy * a) < 2 * (p * x) + Accuracy
  BY PartIsNearest
<1>3. b \in Nat /\ 2 * (p * y) <= 2 * (Accuracy * b) + Accuracy
  BY PartIsNearest
<1>4. Accuracy \in Nat \ {0}
  BY RoundsAssumption
<1> HIDE DEF a, b
<1>5. Accuracy * a \in Nat /\ Accuracy * b \in Nat
  BY <1>2, <1>3, <1>4
<1>6. Accuracy * a < Accuracy * b + Accuracy
  <2> DEFINE u == p * x
             v == p * y
             s == Accuracy * a
             t == Accuracy * b
  <2>1. /\ u \in Nat /\ v \in Nat /\ u <= v /\ s \in Nat /\ t \in Nat
        /\ 2 * s < 2 * u + Accuracy /\ 2 * v <= 2 * t + Accuracy
    BY <1>1, <1>2, <1>3, <1>5
  <2> HIDE DEF u, v, s, t
  <2>2. s < t + Accuracy
    BY <1>4, <2>1
  <2> QED BY <2>2 DEF s, t
<1>7. a <= b
  BY <1>2, <1>3, <1>4, <1>6, Products
<1> QED BY <1>7 DEF a, b

\* Two parts that leave a whole take no more than there is, rounded as they are.
LEMMA PartsFit ==
    ASSUME NEW p \in Nat, NEW q \in Nat, p + q <= Accuracy, NEW x \in Nat
    PROVE  Part(p, x) + Part(q, x) <= x
<1> DEFINE a == Part(p, x)
           b == Part(q, x)
           s == Accuracy * a
           t == Accuracy * b
           u == p * x
           v == q * x
           w == Accuracy * x
<1>1. Accuracy \in Nat \ {0}
  BY RoundsAssumption
<1>2. /\ a \in Nat /\ 2 * s < 2 * u + Accuracy
      /\ b \in Nat /\ 2 * t < 2 * v + Accuracy
  BY PartIsNearest
<1> HIDE DEF a, b
<1>3. u \in Nat /\ v \in Nat /\ s \in Nat /\ t \in Nat /\ w \in Nat
  BY <1>1, <1>2
<1>4. u + v <= w
  <2>1. u + v = x * (p + q) /\ w = x * Accuracy
    BY <1>1
  <2>2. p + q \in Nat
    OBVIOUS
  <2> HIDE DEF u, v, w
  <2> QED BY <1>1, <2>1, <2>2, Products
<1>5. Accuracy * (a + b) = s + t
  BY <1>1, <1>2
<1>6. s + t < w + Accuracy
  <2> HIDE DEF u, v, s, t, w
  <2> QED BY <1>1, <1>2, <1>3, <1>4
<1>7. Accuracy * (a + b) < Accuracy * x + Accuracy /\ a + b \in Nat
  BY <1>2, <1>5, <1>6
<1> HIDE DEF s, t, u, v, w
<1>8. a + b <= x
  BY <1>1, <1>7, Products
<1> QED BY <1>8 DEF a, b

\* from_rational rounds down, to a whole at most.
LEMMA RationalIsBelow ==
    ASSUME NEW p \in Nat, NEW q \in Nat
    PROVE  /\ FromRational(p, q) \in Nat
           /\ q * FromRational(p, q) <= Accuracy * p
<1>1. Accuracy \in Nat \ {0}
  BY RoundsAssumption
<1>2. CASE p >= q
  <2>1. q * Accuracy <= Accuracy * p
    <3>1. q * Accuracy = Accuracy * q
      BY <1>1
    <3> QED BY <1>1, <1>2, <3>1, Products
  <2> QED BY <1>1, <1>2, <2>1 DEF FromRational
<1>3. CASE ~(p >= q)
  <2> DEFINE x == p * Accuracy
  <2>1. q \in Nat \ {0} /\ x \in Nat /\ x = Accuracy * p
    BY <1>1, <1>3
  <2>2. FromRational(p, q) = x \div q
    BY <1>3 DEF FromRational
  <2> HIDE DEF x
  <2>3. /\ x \div q \in Nat /\ x % q \in Nat
        /\ q * (x \div q) \in Nat
        /\ x = q * (x \div q) + (x % q)
    BY <2>1, Divided
  <2>4. q * (x \div q) <= x
    <3> DEFINE d == x \div q
               m == q * d
               r == x % q
    <3>1. m \in Nat /\ r \in Nat /\ x = m + r
      BY <2>3, Zenon
    <3> HIDE DEF m, r
    <3>2. m <= x
      BY <3>1
    <3> QED BY <3>2 DEF m
  <2> QED BY <2>1, <2>2, <2>3, <2>4
<1> QED BY <1>2, <1>3

\* What a key gets is its part of `backed` by weight, or nothing.
PaidByWeight(pay, weight, whole, backed) ==
    \A k \in DOMAIN pay : pay[k] \in {0, Part(FromRational(weight[k], whole), backed)}

(***************************************************************************)
(* Whatever the weights, as long as they do not exceed the whole: all      *)
(* parts together are what is divided, up to half a unit for each payee.   *)
(***************************************************************************)
LEMMA Dividing ==
    ASSUME NEW D, IsFiniteSet(D), NEW weight \in [D -> Nat], NEW whole \in Nat \ {0},
           SumOf(weight) <= whole, NEW backed \in Nat,
           NEW pay \in [D -> Nat], PaidByWeight(pay, weight, whole, backed)
    PROVE  2 * SumOf(pay) <= 2 * backed + Cardinality({k \in D : pay[k] > 0})
<1> DEFINE A == Accuracy
           part == [k \in D |-> FromRational(weight[k], whole)]
           paid == {k \in D : pay[k] > 0}
           mark == Marked(D, paid)
           due == Scaled(part, 2 * backed)
           over == Scaled(mark, A)
           limit == [k \in D |-> due[k] + over[k]]
           all == Scaled(pay, 2 * A)
<1>1. A \in Nat \ {0} /\ 2 * A \in Nat \ {0} /\ 2 * backed \in Nat /\ whole \in Nat
  BY RoundsAssumption
<1>2. /\ \A k \in D : weight[k] \in Nat /\ part[k] \in Nat /\ whole * part[k] <= A * weight[k]
      /\ part \in [D -> Nat] /\ DOMAIN part = D /\ DOMAIN weight = D /\ DOMAIN pay = D
  BY <1>1, RationalIsBelow
<1>3. SumOf(part) \in Nat /\ SumOf(weight) \in Nat /\ SumOf(pay) \in Nat
  BY <1>2, SumInNat
<1>4. SumOf(part) <= A
  <2> DEFINE f == Scaled(part, whole)
             g == Scaled(weight, A)
  <2>1. /\ DOMAIN f = D /\ DOMAIN g = D /\ f \in [D -> Nat] /\ g \in [D -> Nat]
        /\ \A k \in D : f[k] <= g[k]
    <3>1. \A k \in D : whole * part[k] \in Nat /\ A * weight[k] \in Nat
      BY <1>1, <1>2, Products
    <3> QED BY <1>2, <3>1 DEF Scaled
  <2>2. SumOf(f) = whole * SumOf(part) /\ SumOf(g) = A * SumOf(weight)
    <3> HIDE DEF part, A
    <3> QED BY <1>1, <1>2, SumOfScaled
  <2> HIDE DEF part, A, f, g
  <2>3. SumOf(f) <= SumOf(g)
    BY <2>1, SumOfLess
  <2>4. A * SumOf(weight) <= A * whole
    BY <1>1, <1>3, Products
  <2>5. A * whole = whole * A
    BY <1>1
  <2>6. /\ whole * SumOf(part) \in Nat /\ A * SumOf(weight) \in Nat /\ whole * A \in Nat
    BY <1>1, <1>3, Products
  <2>7. whole * SumOf(part) <= whole * A
    <3> DEFINE u == whole * SumOf(part)
               v == A * SumOf(weight)
               w == whole * A
    <3>1. u \in Nat /\ v \in Nat /\ w \in Nat /\ u <= v /\ v <= w
      BY <2>2, <2>3, <2>4, <2>5, <2>6
    <3> HIDE DEF u, v, w
    <3>2. u <= w
      BY <3>1
    <3> QED BY <3>2 DEF u, w
  <2> QED BY <1>1, <1>3, <2>7, Products
<1>5. /\ mark \in [D -> Nat] /\ DOMAIN mark = D
      /\ \A k \in D : mark[k] = IF pay[k] > 0 THEN 1 ELSE 0
  BY DEF Marked
<1>6. SumOf(mark) = Cardinality(paid) /\ SumOf(mark) \in Nat
  <2>1. SumOf(mark) = Cardinality(paid)
    BY SumOfMarks
  <2> QED BY <1>5, <2>1, SumInNat
<1>7. \A k \in D : /\ all[k] = (2 * A) * pay[k] /\ all[k] \in Nat
                   /\ due[k] = (2 * backed) * part[k] /\ due[k] \in Nat
                   /\ over[k] = A * mark[k] /\ over[k] \in Nat
                   /\ limit[k] = due[k] + over[k] /\ limit[k] \in Nat
  <2>1. ASSUME NEW k \in D
        PROVE  /\ (2 * A) * pay[k] \in Nat /\ (2 * backed) * part[k] \in Nat
               /\ A * mark[k] \in Nat
    BY <1>1, <1>2, <1>5, Products
  <2> HIDE DEF mark, part, A
  <2> QED BY <1>2, <1>5, <2>1 DEF Scaled
<1>8. ASSUME NEW k \in D PROVE all[k] <= limit[k]
  <2>1. CASE pay[k] = 0
    <3>1. (2 * A) * pay[k] = 0
      BY <1>1, <2>1
    <3> HIDE DEF all, limit, due, over, mark, part
    <3> QED BY <1>7, <3>1
  <2>2. CASE pay[k] # 0
    <3> DEFINE x == part[k] * backed
               y == A * pay[k]
    <3>1. pay[k] = Part(part[k], backed) /\ pay[k] > 0 /\ pay[k] \in Nat
      BY <2>2 DEF PaidByWeight
    <3>2. 2 * y < 2 * x + A
      BY <1>2, <3>1, PartIsNearest
    <3>3. /\ x \in Nat /\ y \in Nat /\ all[k] = 2 * y /\ due[k] = 2 * x /\ over[k] = A
      <4>1. x \in Nat /\ y \in Nat
        BY <1>1, <1>2, <3>1, Products
      <4>2. \A a, p \in Nat : (2 * a) * p = 2 * (a * p) /\ (2 * a) * p = 2 * (p * a)
        OBVIOUS
      <4>3. A * mark[k] = A
        BY <1>1, <1>5, <3>1
      <4> HIDE DEF all, due, over, mark, part, A
      <4> QED BY <1>1, <1>2, <1>7, <3>1, <4>1, <4>2, <4>3
    <3> HIDE DEF all, limit, due, over, x, y, mark, part, A
    <3> QED BY <1>1, <1>7, <3>2, <3>3
  <2> QED BY <2>1, <2>2
<1>9. /\ all \in [D -> Nat] /\ due \in [D -> Nat] /\ over \in [D -> Nat] /\ limit \in [D -> Nat]
      /\ DOMAIN all = D /\ DOMAIN limit = D
  BY <1>2, <1>5, <1>7 DEF Scaled
<1>10. /\ SumOf(all) = (2 * A) * SumOf(pay)
       /\ SumOf(due) = (2 * backed) * SumOf(part)
       /\ SumOf(over) = A * SumOf(mark)
  <2> HIDE DEF mark, part, A
  <2> QED BY <1>1, <1>2, <1>5, SumOfScaled
<1> HIDE DEF all, due, over, limit, part, mark, A, paid
<1>11. SumOf(limit) = SumOf(due) + SumOf(over)
  <2>1. \A k \in D : limit[k] = due[k] + over[k]
    BY <1>7
  <2> QED BY <1>9, <2>1, SumOfTogether
<1>12. SumOf(all) <= SumOf(limit)
  BY <1>8, <1>9, SumOfLess
<1>13. (2 * backed) * SumOf(part) <= (2 * backed) * A
  BY <1>1, <1>3, <1>4, Products
<1>14. A * (2 * SumOf(pay)) <= A * (2 * backed + Cardinality(paid))
  <2> DEFINE n == Cardinality(paid)
             s == SumOf(pay)
             u == (2 * backed) * SumOf(part)
             v == A * n
             w == A * (2 * s)
             t == A * (2 * backed)
  <2>1. n \in Nat /\ s \in Nat
    BY <1>3, <1>6
  <2>2. /\ (2 * A) * s = w /\ (2 * backed) * A = t
        /\ A * (2 * backed + n) = t + v
    <3>1. \A a, b, c \in Nat : /\ (2 * a) * b = a * (2 * b) /\ (2 * b) * a = a * (2 * b)
                               /\ a * (2 * b + c) = a * (2 * b) + a * c
      OBVIOUS
    <3> HIDE DEF n, s
    <3> QED BY <1>1, <2>1, <3>1
  <2>3. u \in Nat /\ v \in Nat /\ w \in Nat /\ t \in Nat
    <3>1. 2 * s \in Nat
      BY <2>1
    <3> HIDE DEF s, n
    <3> QED BY <1>1, <1>3, <2>1, <3>1, Products
  <2>4. w <= u + v /\ u <= t
    BY <1>6, <1>10, <1>11, <1>12, <1>13, <2>2
  <2> HIDE DEF u, v, w, t, n, s
  <2>5. w <= t + v
    BY <2>3, <2>4
  <2>6. w <= A * (2 * backed + n)
    BY <2>2, <2>5
  <2> QED BY <2>6 DEF w, n, s
<1>15. 2 * SumOf(pay) \in Nat /\ 2 * backed + Cardinality(paid) \in Nat
  BY <1>1, <1>3, <1>6
<1>16. 2 * SumOf(pay) <= 2 * backed + Cardinality(paid)
  BY <1>1, <1>14, <1>15, Products
<1> QED BY <1>16 DEF paid

\* what stands for an account in a snapshot of c
WeightIn(snapshot, c) ==
    [a \in Account |->
        IF a = c THEN snapshot.bond
        ELSE IF Holds(snapshot.delegations, a) THEN AmountOf(snapshot.delegations, a) ELSE 0]

\* The weights of a fair snapshot are its total.
LEMMA WeightsAddUp ==
    ASSUME NEW c, NEW snapshot, Fair(c, snapshot)
    PROVE  /\ WeightIn(snapshot, c) \in [Account -> Nat]
           /\ SumOf(WeightIn(snapshot, c)) = snapshot.total
           /\ snapshot.total \in Nat \ {0}
<1> DEFINE list == snapshot.delegations
           amounts == [i \in DOMAIN list |-> list[i].amount]
           holders == {list[i].owner : i \in DOMAIN list}
           weight == WeightIn(snapshot, c)
           others == Account \ ({c} \cup holders)
           held == [a \in holders |-> weight[a]]
           nameless == [a \in Account \ {c} |-> weight[a]]
           h == [i \in DOMAIN list |-> list[i].owner]
<1>1. /\ c \in Account /\ snapshot.bond \in Nat \ {0} /\ IsFiniteSet(DOMAIN list)
      /\ \A i \in DOMAIN list : list[i].owner \in Account \ {c} /\ list[i].amount \in Nat
      /\ OneEach(list)
      /\ snapshot.total = snapshot.bond + SumOf(amounts)
  BY DEF Fair, AddsUp
<1>2. /\ weight[c] = snapshot.bond
      /\ \A i \in DOMAIN list : weight[list[i].owner] = list[i].amount
      /\ \A a \in others : weight[a] = 0
      /\ DOMAIN weight = Account
  <2>1. \A a \in others : ~Holds(list, a)
    BY DEF Holds
  <2>2. \A i \in DOMAIN list : Holds(list, list[i].owner)
                               /\ AmountOf(list, list[i].owner) = list[i].amount
    BY <1>1, AmountIsListed
  <2> HIDE DEF list
  <2> QED BY <1>1, <2>1, <2>2 DEF WeightIn, list
<1>3. weight \in [Account -> Nat]
  <2>1. weight = [a \in Account |-> weight[a]]
    BY DEF WeightIn
  <2>2. \A a \in Account : weight[a] \in Nat
    <3> HIDE DEF weight
    <3> QED BY <1>1, <1>2
  <2> QED BY <2>1, <2>2
<1>4. amounts \in [DOMAIN list -> Nat] /\ DOMAIN amounts = DOMAIN list
  BY <1>1
<1> HIDE DEF weight
<1>5. h \in Bijection(DOMAIN amounts, DOMAIN held) /\ \A i \in DOMAIN amounts : held[h[i]] = amounts[i]
  <2>1. \A i, j \in DOMAIN list : list[i].owner = list[j].owner => i = j
    BY <1>1 DEF OneEach
  <2>2. h \in [DOMAIN amounts -> holders] /\ DOMAIN held = holders
    OBVIOUS
  <2> QED BY <1>2, <2>1, <2>2 DEF Bijection, Injection, Surjection, IsInjective
<1> HIDE DEF h
<1>6. SumOf(held) = SumOf(amounts)
  BY <1>1, <1>4, <1>5, SumOfRenamed
<1>7. IsFiniteSet(Account) /\ holders \subseteq Account \ {c}
  BY <1>1, AccountsAssumption
<1> HIDE DEF amounts, list, holders
<1>8. SumOf(weight) = SumOf([a \in {c} |-> weight[a]]) + SumOf(nameless)
  <2>1. DOMAIN weight = {c} \cup (Account \ {c}) /\ {c} \cap (Account \ {c}) = {}
    BY <1>1, <1>2
  <2>2. weight \in [DOMAIN weight -> Nat] /\ IsFiniteSet(DOMAIN weight)
    BY <1>2, <1>3, <1>7
  <2> QED BY <2>1, <2>2, SumOfParts
<1>9. SumOf([a \in {c} |-> weight[a]]) = snapshot.bond
  <2>1. [a \in {c} |-> weight[a]][c] = snapshot.bond /\ snapshot.bond \in Nat
    BY <1>1, <1>2
  <2> QED BY <2>1, SumOfOne
<1>10. SumOf(nameless) = SumOf([a \in holders |-> nameless[a]]) + SumOf([a \in others |-> nameless[a]])
  <2>1. DOMAIN nameless = holders \cup others /\ holders \cap others = {}
    BY <1>7
  <2>2. nameless \in [DOMAIN nameless -> Nat] /\ IsFiniteSet(DOMAIN nameless)
    BY <1>3, <1>7, FS_Subset
  <2> QED BY <2>1, <2>2, SumOfParts
<1>11. SumOf([a \in others |-> nameless[a]]) = 0
  <2>1. \A a \in others : nameless[a] = 0
    BY <1>2
  <2> QED BY <2>1, SumOfZeros
<1>12. [a \in holders |-> nameless[a]] = held
  BY <1>7
<1>13. SumOf(amounts) \in Nat
  BY <1>1, <1>4, SumInNat
<1> HIDE DEF held, nameless, others
<1>14. SumOf(weight) = snapshot.bond + SumOf(amounts)
  BY <1>6, <1>8, <1>9, <1>10, <1>11, <1>12, <1>13
<1>15. snapshot.bond + SumOf(amounts) \in Nat \ {0}
  BY <1>1, <1>13
<1> QED BY <1>1, <1>3, <1>14, <1>15 DEF weight

-----------------------------------------------------------------------------
(* What payouts are made of *)

\* The rate of a round is a number, for it is at most the annual one.
LEMMA RoundRateIsNat ==
    ASSUME NEW annual \in Nat, NEW rounds
    PROVE  RoundRate(annual, rounds) \in Nat
<1> DEFINE S == {annual} \cup {rate \in 0 .. annual :
                (Accuracy + rate)^rounds >= (Accuracy + annual) * Accuracy^(rounds - 1)}
<1>1. S \in SUBSET Nat /\ S # {}
  OBVIOUS
<1>2. RoundRate(annual, rounds) = Min(S)
  BY DEF RoundRate
<1> HIDE DEF S
<1>3. \E m \in S : \A n \in S : m <= n
  BY <1>1, LeastNumber
<1>4. Min(S) \in S
  BY <1>3 DEF Min
<1> QED BY <1>1, <1>2, <1>4

\* So are all rates that are converted.
LEMMA ConvertedAreNumbers ==
    ASSUME NEW annual \in RangeOf(0 .. Accuracy), NEW length,
           inflation'.round = AnnualToRound(annual, length)
    PROVE  RatesAreNumbers'
<1> DEFINE n == BlocksPerYear \div length
<1>1. annual.min \in Nat /\ annual.ideal \in Nat /\ annual.max \in Nat
  BY RoundsAssumption DEF RangeOf
<1>2. /\ RoundRate(annual.min, n) \in Nat /\ RoundRate(annual.ideal, n) \in Nat
      /\ RoundRate(annual.max, n) \in Nat
  BY <1>1, RoundRateIsNat
<1>3. /\ inflation'.round.min = RoundRate(annual.min, n)
      /\ inflation'.round.ideal = RoundRate(annual.ideal, n)
      /\ inflation'.round.max = RoundRate(annual.max, n)
  BY DEF AnnualToRound
<1> QED BY <1>2, <1>3 DEF RatesAreNumbers

\* So is what a round issues.
LEMMA IssuanceIsNat ==
    ASSUME RatesAreNumbers, NEW stake
    PROVE  Issuance(stake) \in Nat
<1>1. \A rate \in Nat : Part(rate, Supply) \in Nat
  BY PartIsNearest, RoundsAssumption
<1> QED BY <1>1 DEF Issuance, RatesAreNumbers

\* prepare_staking_payouts leaves the commission within the reward, if both may be paid.
LEMMA PreparedAreWhole ==
    ASSUME SettingsInOrder, PayoutsAreWhole(delayedPayouts), NEW now
    PROVE  PayoutsAreWhole(PreparePayouts(now).payouts)
<1> DEFINE r == now - RewardPaymentDelay
           issuance == Issuance(StakedAt(r))
           reserved == Deposit(bondAccount, Part(reserve, issuance))
           payout == [issuance |-> issuance, reward |-> Sub(issuance, reserved),
                      commission |-> commission]
<1>1. /\ commission \in Nat /\ reserve \in Nat
      /\ WholeSuffices => commission + reserve <= Accuracy
  BY RoundsAssumption DEF SettingsInOrder, WholeSuffices
<1>2. issuance \in Nat
  BY IssuanceIsNat DEF SettingsInOrder
<1>3. reserved \in {0, Part(reserve, issuance)}
  BY DEF Deposit
<1>4. IsPayout(payout)
  <2> HIDE DEF issuance, reserved
  <2>1. /\ Part(commission, issuance) \in Nat /\ Part(reserve, issuance) \in Nat
        /\ WholeSuffices => Part(commission, issuance) + Part(reserve, issuance) <= issuance
    BY <1>1, <1>2, PartIsNearest, PartsFit
  <2>2. reserved \in Nat /\ (WholeSuffices => Part(commission, issuance) + reserved <= issuance)
    BY <1>2, <1>3, <2>1
  <2>3. Sub(issuance, reserved) \in Nat
    BY <1>2, <2>2 DEF Sub
  <2>4. WholeSuffices => Part(commission, issuance) <= Sub(issuance, reserved)
    BY <1>2, <2>1, <2>2 DEF Sub
  <2> QED BY <1>1, <1>2, <2>3, <2>4 DEF IsPayout
<1> HIDE DEF payout
<1>5. \/ PreparePayouts(now).payouts = delayedPayouts
      \/ PreparePayouts(now).payouts = Put(delayedPayouts, r, payout)
  BY DEF PreparePayouts, NoPayouts, payout
<1>6. PayoutsAreWhole(Put(delayedPayouts, r, payout))
  BY <1>4 DEF PayoutsAreWhole, Put
<1> QED BY <1>5, <1>6

\* The snapshot of a candidate is fair when it is taken.
LEMMA SnapshotIsFair ==
    ASSUME IInv, Coherent, SelfBondsArePositive, RolesAreDisjoint, NEW c \in DOMAIN candidate
    PROVE  Fair(c, Snapshot(c))
<1> DEFINE book == candidate[c]
           top == book.top.list
           snapshot == Snapshot(c)
<1>1. c \in Account
  BY DEF IInv, CandidatesInOrder, IsStorageMap
<1>2. Ordered(book) /\ Contents(book) = OnRecord(delegator, c)
  BY <1>1 DEF Coherent, LedgerAgrees, BooksAreOrdered, BooksListBonds, Listed
<1>3. /\ book.bond \in Nat /\ Orderly(top)
  <2> HIDE DEF book
  <2>1. BookInv(book) /\ Kept(book.top, 0) /\ book \in Book
    BY <1>2 DEF Ordered, BookInv
  <2> QED BY <2>1, KeptParts DEF Book
<1>4. book.bond > 0
  BY DEF SelfBondsArePositive
<1>5. ASSUME NEW i \in DOMAIN top
      PROVE  /\ top[i].owner \in Account \ {c}
             /\ Rewardable(c, top[i]) \in Nat
  <2>1. top[i] \in OnRecord(delegator, c)
    BY <1>2 DEF Contents, Entries
  <2>2. Backed(delegator, top[i].owner, c)
    BY <2>1, OneOnRecord
  <2>3. top[i].owner \in DOMAIN delegator /\ DOMAIN delegator \subseteq Account
    BY <2>2 DEF Backed, IInv, DelegatorsInOrder
  <2>4. top[i].owner # c
    BY <2>3 DEF RolesAreDisjoint, IsCandidate, IsDelegator
  <2> QED BY <2>1, <2>3, <2>4, DelegationIsSplit
<1>6. IsFiniteSet(DOMAIN top)
  <2> HIDE DEF top
  <2>1. Len(top) \in Nat /\ DOMAIN top = 1 .. Len(top)
    BY <1>3, ListDomain DEF Orderly
  <2> QED BY <2>1, FS_Interval
<1>7. OneEach(top)
  BY <1>3 DEF Orderly
<1>8. /\ snapshot.bond = book.bond
      /\ DOMAIN snapshot.delegations = DOMAIN top
      /\ \A i \in DOMAIN top : /\ snapshot.delegations[i].owner = top[i].owner
                               /\ snapshot.delegations[i].amount = Rewardable(c, top[i])
  BY DEF Snapshot
<1>9. AddsUp(snapshot)
  BY SnapshotAddsUp
<1> HIDE DEF snapshot, top, book
<1>10. OneEach(snapshot.delegations)
  BY <1>7, <1>8 DEF OneEach
<1>11. Fair(c, snapshot)
  BY <1>1, <1>3, <1>4, <1>5, <1>6, <1>8, <1>9, <1>10 DEF Fair
<1> QED BY <1>11 DEF snapshot

\* So are all that the selection stores, those it carries over included.
LEMMA SelectionIsFair ==
    ASSUME IInv, Coherent, SelfBondsArePositive, RolesAreDisjoint, PoolIsCurrent,
           SnapshotsAreFair(atStake), NEW now, NEW selection \in SelectTopCandidates(now)
    PROVE  SnapshotsAreFair(selection.stakes)
<1>1. ASSUME NEW snapshots, \A c \in DOMAIN snapshots : Fair(c, snapshots[c])
      PROVE  SnapshotsAreFair(WithSnapshots(now, snapshots))
  <2>1. ASSUME NEW k \in DOMAIN WithSnapshots(now, snapshots)
        PROVE  Fair(k[2], WithSnapshots(now, snapshots)[k])
    <3>1. \/ /\ k \in DOMAIN atStake
             /\ WithSnapshots(now, snapshots)[k] = atStake[k]
          \/ /\ k[2] \in DOMAIN snapshots
             /\ WithSnapshots(now, snapshots)[k] = snapshots[k[2]]
      BY DEF WithSnapshots
    <3> QED BY <1>1, <3>1 DEF SnapshotsAreFair
  <2> QED BY <2>1 DEF SnapshotsAreFair
<1>2. PICK collators \in TopCandidates :
        selection = IF collators = {} THEN SelectAgain(now)
                    ELSE [stakes |-> WithSnapshots(now, [c \in collators |-> Snapshot(c)]),
                          selected |-> collators]
  BY DEF SelectTopCandidates
<1>3. CASE collators = {}
  <2> DEFINE again == [c \in SnapshotsOf(now - 1) |-> atStake[<<now - 1, c>>]]
  <2>1. selection.stakes = WithSnapshots(now, again)
    BY <1>2, <1>3 DEF SelectAgain
  <2>2. ASSUME NEW c \in DOMAIN again PROVE Fair(c, again[c])
    <3>1. <<now - 1, c>> \in DOMAIN atStake /\ again[c] = atStake[<<now - 1, c>>]
      BY DEF SnapshotsOf
    <3>2. <<now - 1, c>>[2] = c
      OBVIOUS
    <3> HIDE DEF again
    <3> QED BY <3>1, <3>2 DEF SnapshotsAreFair
  <2> HIDE DEF again
  <2> QED BY <1>1, <2>1, <2>2
<1>4. CASE collators # {}
  <2> DEFINE taken == [c \in collators |-> Snapshot(c)]
  <2>1. selection.stakes = WithSnapshots(now, taken)
    BY <1>2, <1>4
  <2>2. collators \subseteq DOMAIN candidate
    BY DEF TopCandidates, PoolIsCurrent
  <2>3. \A c \in DOMAIN taken : Fair(c, taken[c])
    BY <2>2, SnapshotIsFair
  <2> HIDE DEF taken
  <2> QED BY <1>1, <2>1, <2>3
<1> QED BY <1>3, <1>4

\* A block keeps what it does not take, and awards numbers.
LEMMA PayAndAwardKeepsShares ==
    ASSUME NEW now, NEW author, NEW prepared, NEW stakes,
           PayAndAward(now, author, prepared, stakes),
           SnapshotsAreFair(stakes), PayoutsAreWhole(prepared.payouts), PointsAreNumbers
    PROVE  /\ SnapshotsAreFair(atStake') /\ PayoutsAreWhole(delayedPayouts')
           /\ PointsAreNumbers'
<1>1. \/ atStake' = stakes
      \/ \E k : atStake' = Drop(stakes, k)
  BY DEF PayAndAward
<1>2. \/ delayedPayouts' = prepared.payouts
      \/ \E r : delayedPayouts' = Drop(prepared.payouts, r)
  BY DEF PayAndAward
<1>3. /\ \E awarded : /\ awardedPts' = Earned(awarded, <<now, author>>)
                      /\ awarded = awardedPts \/ \E k : awarded = Drop(awardedPts, k)
      /\ \E pts : /\ points' = Earned(pts, now)
                  /\ pts = points \/ \E k : pts = Drop(points, k)
  BY DEF PayAndAward
<1>4. ASSUME NEW f, \A x \in DOMAIN f : f[x] \in Nat, NEW g, NEW k,
             g = f \/ \E x : g = Drop(f, x)
      PROVE  \A x \in DOMAIN Earned(g, k) : Earned(g, k)[x] \in Nat
  <2>1. \A x \in DOMAIN g : g[x] \in Nat
    BY <1>4 DEF Drop
  <2> QED BY <2>1 DEF Earned, Put, PointsPerBlock
<1>5. PointsAreNumbers'
  BY <1>3, <1>4 DEF PointsAreNumbers
<1>6. SnapshotsAreFair(atStake')
  BY <1>1 DEF SnapshotsAreFair, Drop
<1>7. PayoutsAreWhole(delayedPayouts')
  BY <1>2 DEF PayoutsAreWhole, Drop
<1> QED BY <1>5, <1>6, <1>7

-----------------------------------------------------------------------------
(* A payout is a share: the invariant *)

\* Locks being stakes, a candidate has stake of its own as long as something is locked.
LEMMA LockedIsStake ==
    ASSUME CandidatesInOrder, SelfBondIsLocked
    PROVE  /\ \A c \in DOMAIN candidate : c \in Account /\ candidate[c].bond = collatorLock[c]
           /\ SelfBondsArePositive <=> \A c \in DOMAIN candidate : collatorLock[c] > 0
<1>1. \A c \in DOMAIN candidate : c \in Account
  BY DEF CandidatesInOrder, IsStorageMap
<1> QED BY <1>1 DEF SelfBondIsLocked, SelfBondsArePositive

(***************************************************************************)
(* Self bonds stay positive: a candidate joins with the minimum and keeps  *)
(* it over every decrease.                                                 *)
(***************************************************************************)
LEMMA StepKeepsSelfBonds ==
    ASSUME CandidatesHaveStake, IInv, IInv', Coherent, Coherent', SelfBondsArePositive, [Next]_vars
    PROVE  SelfBondsArePositive'
<1>1. /\ SelfBondsArePositive' <=> \A c \in DOMAIN candidate' : collatorLock'[c] > 0
      /\ \A c \in DOMAIN candidate : /\ c \in Account /\ candidate[c].bond = collatorLock[c]
                                     /\ candidate[c].bond > 0
  <2>1. CandidatesInOrder /\ SelfBondIsLocked /\ CandidatesInOrder' /\ SelfBondIsLocked'
    BY DEF IInv, Coherent, SelfBondsStand
  <2>2. \A c \in DOMAIN candidate : c \in Account /\ candidate[c].bond = collatorLock[c]
    BY <2>1, LockedIsStake
  <2>3. \A c \in DOMAIN candidate' : collatorLock'[c] = candidate'[c].bond
    BY <2>1 DEF SelfBondIsLocked, CandidatesInOrder, IsStorageMap
  <2>4. SelfBondsArePositive' <=> \A c \in DOMAIN candidate' : candidate'[c].bond > 0
    BY DEF SelfBondsArePositive
  <2> QED BY <2>2, <2>3, <2>4 DEF SelfBondsArePositive
<1>2. collatorLock \in [Account -> Nat]
  BY DEF IInv, BalancesInOrder
<1>3. ASSUME DOMAIN candidate' \subseteq DOMAIN candidate, UNCHANGED collatorLock
      PROVE  SelfBondsArePositive'
  BY <1>1, <1>3
<1>4. ASSUME NEW c \in Account, NEW stake \in Nat \ {0},
             DOMAIN candidate' \subseteq DOMAIN candidate \cup {c},
             collatorLock' = [collatorLock EXCEPT ![c] = stake]
      PROVE  SelfBondsArePositive'
  <2>1. ASSUME NEW x \in DOMAIN candidate' PROVE collatorLock'[x] > 0
    BY <1>1, <1>2, <1>4
  <2> QED BY <1>1, <2>1
<1>5. ASSUME NEW c \in Joiners, CandidateCall(c) PROVE SelfBondsArePositive'
  <2>1. ASSUME NEW bond \in Amounts, JoinCandidates(c, bond)
        PROVE  SelfBondsArePositive'
    <3>1. bond \in Nat \ {0}
      <4>1. bond \in Nat
        BY AmountsAssumption
      <4>2. bond >= MinWhitelistCandidateStk \/ bond >= MinCandidateStk
        BY <2>1 DEF JoinCandidates
      <4> QED BY <4>1, <4>2, AmountsAssumption DEF CandidatesHaveStake
    <3>2. DOMAIN candidate' = DOMAIN candidate \cup {c}
      BY <2>1 DEF JoinCandidates, Put
    <3>3. c \in Account
      BY AccountsAssumption
    <3> QED BY <1>4, <2>1, <3>1, <3>2, <3>3 DEF JoinCandidates
  <2>2. CASE ExecuteLeaveCandidates(c)
    <3>1. DOMAIN candidate' = DOMAIN candidate \ {c}
      BY <2>2 DEF ExecuteLeaveCandidates, Drop
    <3>2. collatorLock' = [collatorLock EXCEPT ![c] = 0]
      BY <2>2 DEF ExecuteLeaveCandidates
    <3>3. ASSUME NEW x \in DOMAIN candidate' PROVE collatorLock'[x] > 0
      BY <1>1, <1>2, <3>1, <3>2
    <3> QED BY <1>1, <3>3
  <2>3. ASSUME NEW more \in Amounts, CandidateBondMore(c, more) PROVE SelfBondsArePositive'
    <3>1. c \in DOMAIN candidate /\ candidate[c].bond + more \in Nat \ {0} /\ c \in Account
      <4>1. c \in DOMAIN candidate /\ more \in Nat
        BY <2>3, AmountsAssumption DEF CandidateBondMore, IsCandidate
      <4>2. candidate[c].bond \in Nat /\ candidate[c].bond > 0 /\ c \in Account
        BY <1>1, <1>2, <4>1
      <4> QED BY <4>1, <4>2
    <3>2. DOMAIN candidate' = DOMAIN candidate
      BY <2>3 DEF CandidateBondMore, SetBond
    <3> QED BY <1>4, <2>3, <3>1, <3>2 DEF CandidateBondMore
  <2>4. CASE ExecuteCandidateBondLess(c)
    <3> DEFINE book == candidate[c]
               less == WithLessBond(book)
    <3>1. /\ c \in DOMAIN candidate /\ book.bondLess # NoBondLess
          /\ collatorLock' = [collatorLock EXCEPT ![c] = less.bond]
          /\ DOMAIN candidate' = DOMAIN candidate
      BY <2>4 DEF ExecuteCandidateBondLess, IsCandidate, SetBond
    <3>2. candidate[c] \in Book
      BY <3>1 DEF IInv, CandidatesInOrder, IsStorageMap
    <3>3. /\ book.bondLess.amount \in Nat /\ book.bond \in Nat
          /\ less.bond = Sub(book.bond, book.bondLess.amount)
      BY <3>2 DEF Book, BondLess, WithLessBond
    <3>4. book.bondLess.amount + MinCandidateStk <= book.bond
      BY <3>1 DEF Coherent, SelfBondsStand, SelfRequestsCanBeDone
    <3> HIDE DEF book, less
    <3>5. less.bond \in Nat \ {0}
      <4> DEFINE bond == book.bond
                 amount == book.bondLess.amount
      <4>1. /\ bond \in Nat /\ amount \in Nat /\ amount + MinCandidateStk <= bond
            /\ MinCandidateStk \in Nat /\ MinCandidateStk > 0
        BY <3>3, <3>4, AmountsAssumption DEF CandidatesHaveStake
      <4> HIDE DEF bond, amount
      <4>2. Sub(bond, amount) \in Nat \ {0}
        BY <4>1 DEF Sub
      <4> QED BY <3>3, <4>2 DEF bond, amount
    <3> QED BY <1>1, <1>4, <3>1, <3>5
  <2>5. CASE \/ ScheduleLeaveCandidates(c) \/ CancelLeaveCandidates(c) \/ GoOffline(c)
             \/ GoOnline(c) \/ CancelCandidateBondLess(c)
             \/ \E less : ScheduleCandidateBondLess(c, less)
    <3>1. DOMAIN candidate' = DOMAIN candidate /\ UNCHANGED collatorLock
      BY <2>5 DEF ScheduleLeaveCandidates, CancelLeaveCandidates, GoOffline, GoOnline,
                  CancelCandidateBondLess, ScheduleCandidateBondLess
    <3> QED BY <1>3, <3>1
  <2> QED BY <1>5, <2>1, <2>2, <2>3, <2>4, <2>5 DEF CandidateCall
<1>6. ASSUME NEW d, NEW c, DelegationCall(d, c) PROVE SelfBondsArePositive'
  <2>1. DOMAIN candidate' = DOMAIN candidate /\ UNCHANGED collatorLock
    BY <1>6 DEF DelegationCall, Delegate, DelegatorBondMore, ScheduleRevokeDelegation,
              ScheduleDelegatorBondLess, ScheduleRequest, CancelDelegationRequest,
              ExecuteDelegationRequest, ExecuteRevoke, ExecuteDecrease, SetBook
  <2> QED BY <1>3, <2>1
<1>7. ASSUME NEW d, DelegatorCall(d) PROVE SelfBondsArePositive'
  <2>1. DOMAIN candidate' = DOMAIN candidate /\ UNCHANGED collatorLock
    BY <1>7 DEF DelegatorCall, ScheduleLeaveDelegators, CancelLeaveDelegators,
              ExecuteLeaveDelegators
  <2> QED BY <1>3, <2>1
<1>8. CASE NextRound \/ UNCHANGED vars
  <2>1. UNCHANGED <<candidate, collatorLock>>
    BY <1>8 DEF NextRound, vars
  <2> QED BY <1>3, <2>1
<1> QED BY <1>5, <1>6, <1>7, <1>8 DEF Next, Call

\* What payouts are divided by starts in order, whatever the configuration.
LEMMA InitShares == ASSUME InitRounds PROVE ShareInv
<1>1. SelfBondsArePositive
  BY DEF InitRounds, Init, NoEntries, SelfBondsArePositive
<1>2. SnapshotsAreFair(atStake) /\ PayoutsAreWhole(delayedPayouts) /\ PointsAreNumbers
  BY DEF InitRounds, NoEntries, SnapshotsAreFair, PayoutsAreWhole, PointsAreNumbers
<1>3. SettingsInOrder
  <2>1. /\ InitialBondAccount \in Account /\ InitialBlocksPerRound \in 1 .. BlocksPerYear
        /\ InitialAnnual \in RangeOf(0 .. Accuracy)
        /\ InitialRound.min \in Nat /\ InitialRound.ideal \in Nat /\ InitialRound.max \in Nat
    BY RoundsAssumption DEF RangeOf
  <2>2. /\ commission = InitialCommission /\ reserve = InitialReserve
        /\ bondAccount = InitialBondAccount /\ roundLength = InitialBlocksPerRound
        /\ inflation.annual = InitialAnnual /\ inflation.round = InitialRound
    BY DEF InitRounds
  <2> QED BY <2>1, <2>2 DEF SettingsInOrder, RatesAreNumbers
<1> QED BY <1>1, <1>2, <1>3 DEF ShareInv

(***************************************************************************)
(* Every step keeps what payouts are divided by in order: fair snapshots,  *)
(* payouts of numbers, and settings governance may choose. *)
(***************************************************************************)
LEMMA StepKeepsShares ==
    ASSUME CandidatesHaveStake, IInv, IInv', Coherent, Coherent',
           PoolIsCurrent, RolesAreDisjoint, InflationInv, ShareInv, [NextInRounds]_allVars
    PROVE  ShareInv'
<1>1. [Next]_vars
  BY RoundsStepKeepsLedger
<1>2. SelfBondsArePositive'
  BY <1>1, StepKeepsSelfBonds DEF ShareInv
<1>3. ASSUME SettingsInOrder', UNCHANGED <<atStake, delayedPayouts, points, awardedPts>>
      PROVE  ShareInv'
  <2>1. SnapshotsAreFair(atStake') /\ PayoutsAreWhole(delayedPayouts')
    BY <1>3 DEF ShareInv
  <2>2. PointsAreNumbers'
    BY <1>3 DEF ShareInv, PointsAreNumbers
  <2> QED BY <1>2, <1>3, <2>1, <2>2 DEF ShareInv
<1>4. ASSUME UNCHANGED <<commission, reserve, bondAccount, roundLength, inflation>>
      PROVE  SettingsInOrder'
  BY <1>4 DEF ShareInv, SettingsInOrder, RatesAreNumbers
<1>5. ASSUME NEW now, NEW author, NEW prepared, NEW stakes,
             PayAndAward(now, author, prepared, stakes),
             SnapshotsAreFair(stakes), PayoutsAreWhole(prepared.payouts), SettingsInOrder'
      PROVE  ShareInv'
  <2>1. /\ SnapshotsAreFair(atStake') /\ PayoutsAreWhole(delayedPayouts')
        /\ PointsAreNumbers'
    BY <1>5, PayAndAwardKeepsShares DEF ShareInv
  <2> QED BY <1>2, <1>5, <2>1 DEF ShareInv
<1>6. CASE Call /\ UNCHANGED roundVars
  BY <1>3, <1>4, <1>6 DEF roundVars
<1>7. ASSUME NEW author \in Authors, BlockInRound(author) PROVE ShareInv'
  <2>1. PayAndAward(round, author, NoPayouts, atStake) /\ SettingsInOrder'
    BY <1>4, <1>7 DEF BlockInRound
  <2>2. SnapshotsAreFair(atStake) /\ PayoutsAreWhole(NoPayouts.payouts)
    BY DEF ShareInv, NoPayouts
  <2> QED BY <1>5, <2>1, <2>2
<1>8. ASSUME NEW author \in Authors, BlockOfNextRound(author) PROVE ShareInv'
  <2> DEFINE now == round + 1
  <2>1. PICK selection \in SelectTopCandidates(now) :
            PayAndAward(now, author, PreparePayouts(now), selection.stakes)
    BY <1>8 DEF BlockOfNextRound
  <2>2. SettingsInOrder'
    BY <1>4, <1>8 DEF BlockOfNextRound
  <2>3. SnapshotsAreFair(selection.stakes)
    BY <2>1, SelectionIsFair DEF ShareInv
  <2>4. PayoutsAreWhole(PreparePayouts(now).payouts)
    BY PreparedAreWhole DEF ShareInv
  <2> QED BY <1>5, <2>1, <2>2, <2>3, <2>4
<1>9. ASSUME NEW new \in RoundLengths, SetBlocksPerRound(new) PROVE ShareInv'
  <2>1. new \in 1 .. BlocksPerYear
    BY RoundsAssumption
  <2>2. /\ inflation'.annual = inflation.annual
        /\ inflation'.round = AnnualToRound(inflation.annual, new)
    BY <1>9 DEF SetBlocksPerRound, ResetRound, InflationInv
  <2>3. RatesAreNumbers'
    BY <2>2, ConvertedAreNumbers DEF ShareInv, SettingsInOrder
  <2>4. SettingsInOrder'
    BY <1>9, <2>1, <2>2, <2>3 DEF SetBlocksPerRound, SettingsInOrder, ShareInv
  <2> QED BY <1>3, <1>9, <2>4 DEF SetBlocksPerRound
<1>10. ASSUME NEW new \in Schedules, SetInflation(new) PROVE ShareInv'
  <2>1. new \in RangeOf(0 .. Accuracy)
    BY RoundsAssumption
  <2>2. inflation'.annual = new /\ inflation'.round = AnnualToRound(new, roundLength)
    BY <1>10 DEF SetInflation, InflationInv
  <2>3. RatesAreNumbers'
    BY <2>1, <2>2, ConvertedAreNumbers
  <2>4. SettingsInOrder'
    BY <1>10, <2>1, <2>2, <2>3 DEF SetInflation, SettingsInOrder, ShareInv
  <2> QED BY <1>3, <1>10, <2>4 DEF SetInflation
<1>11. ASSUME NEW new, SetStakingExpectations(new) PROVE ShareInv'
  <2>1. inflation'.annual = inflation.annual /\ inflation'.round = inflation.round
    BY <1>11 DEF SetStakingExpectations, InflationInv
  <2>2. SettingsInOrder'
    BY <1>11, <2>1 DEF SetStakingExpectations, SettingsInOrder, RatesAreNumbers, ShareInv
  <2> QED BY <1>3, <1>11, <2>2 DEF SetStakingExpectations
<1>12. ASSUME NEW new \in Commissions, SetCollatorCommission(new) PROVE ShareInv'
  <2>1. SettingsInOrder'
    BY <1>12 DEF SetCollatorCommission, SettingsInOrder, RatesAreNumbers, ShareInv
  <2> QED BY <1>3, <1>12, <2>1 DEF SetCollatorCommission
<1>13. ASSUME NEW new \in Reserves, SetParachainBondReservePercent(new) PROVE ShareInv'
  <2>1. SettingsInOrder'
    BY <1>13 DEF SetParachainBondReservePercent, SettingsInOrder, RatesAreNumbers, ShareInv
  <2> QED BY <1>3, <1>13, <2>1 DEF SetParachainBondReservePercent
<1>14. ASSUME NEW new \in BondAccounts, SetParachainBondAccount(new) PROVE ShareInv'
  <2>1. new \in Account
    BY RoundsAssumption
  <2>2. SettingsInOrder'
    BY <1>14, <2>1 DEF SetParachainBondAccount, SettingsInOrder, RatesAreNumbers, ShareInv
  <2> QED BY <1>3, <1>14, <2>2 DEF SetParachainBondAccount
<1>15. ASSUME NEW new, SetTotalSelected(new) PROVE ShareInv'
  BY <1>3, <1>4, <1>15 DEF SetTotalSelected
<1>16. CASE UNCHANGED allVars
  BY <1>3, <1>4, <1>16 DEF allVars, roundVars
<1> QED BY <1>6, <1>7, <1>8, <1>9, <1>10, <1>11, <1>12, <1>13, <1>14, <1>15, <1>16 DEF NextInRounds


-----------------------------------------------------------------------------
(* A payout is a share: the reward *)

\* Nothing is given to anyone but k, and no more than v to k.
OnlyTo(f, k, v) == \A a \in DOMAIN f : f[a] <= IF a = k THEN v ELSE 0

\* What only one may be given is all that is given.
LEMMA SumOfOnly ==
    ASSUME NEW D, IsFiniteSet(D), NEW f \in [D -> Nat], NEW k, NEW v \in Nat, OnlyTo(f, k, v)
    PROVE  SumOf(f) \in Nat /\ SumOf(f) <= v
<1> DEFINE one == [a \in {k} |-> v]
           given == [a \in D \cap {k} |-> f[a]]
           none == [a \in D \ {k} |-> f[a]]
<1>1. SumOf(f) \in Nat /\ DOMAIN f = D
  BY SumInNat
<1>2. \A a \in D : f[a] \in Nat /\ f[a] <= IF a = k THEN v ELSE 0
  BY DEF OnlyTo
<1>3. SumOf(f) = SumOf(given) + SumOf(none)
  <2>1. D = (D \cap {k}) \cup (D \ {k}) /\ (D \cap {k}) \cap (D \ {k}) = {}
    OBVIOUS
  <2> QED BY <1>1, <2>1, SumOfParts
<1>4. SumOf(none) = 0
  <2>1. \A a \in DOMAIN none : none[a] = 0
    BY <1>2
  <2> QED BY <2>1, SumOfZeros
<1>5. SumOf(given) <= SumOf(one)
  <2>1. /\ given \in [DOMAIN given -> Nat] /\ one \in [DOMAIN one -> Nat]
        /\ IsFiniteSet(DOMAIN one)
        /\ \A a \in DOMAIN given : a \in DOMAIN one /\ given[a] <= one[a]
    BY <1>2, FS_Singleton
  <2> HIDE DEF given, one
  <2> QED BY <2>1, SumOfLess
<1>6. SumOf(one) = v
  <2>1. DOMAIN one = {k} /\ one[k] = v
    OBVIOUS
  <2> QED BY <2>1, SumOfOne
<1>7. SumOf(given) \in Nat
  <2>1. IsFiniteSet(DOMAIN given) /\ given \in [DOMAIN given -> Nat]
    BY FS_Subset
  <2> QED BY <2>1, SumInNat
<1> HIDE DEF given, one, none
<1> QED BY <1>1, <1>3, <1>4, <1>5, <1>6, <1>7

\* What each is given is its part by weight, and the commission for one of them.
GivenBy(to, pay, com) == \A a \in DOMAIN to : to[a] = pay[a] + com[a]

(***************************************************************************)
(* Parts by weight of what is left and the commission make no more than    *)
(* the whole, up to half a unit for each payee.                            *)
(***************************************************************************)
LEMMA GivenIsWithin ==
    ASSUME NEW D, IsFiniteSet(D), NEW to \in [D -> Nat],
           NEW pay \in [D -> Nat], NEW com \in [D -> Nat], GivenBy(to, pay, com),
           NEW weight \in [D -> Nat], NEW all \in Nat \ {0}, SumOf(weight) <= all,
           NEW backed \in Nat, PaidByWeight(pay, weight, all, backed),
           NEW c, NEW extra \in Nat, OnlyTo(com, c, extra)
    PROVE  2 * SumOf(to) <= 2 * (backed + extra) + Cardinality({a \in D : to[a] > 0})
<1> DEFINE paid == {a \in D : to[a] > 0}
           weighed == {a \in D : pay[a] > 0}
<1>1. SumOf(to) = SumOf(pay) + SumOf(com)
  <2>1. \A a \in D : to[a] = pay[a] + com[a]
    BY DEF GivenBy
  <2> QED BY <2>1, SumOfTogether
<1>2. 2 * SumOf(pay) <= 2 * backed + Cardinality(weighed)
  BY Dividing
<1>3. SumOf(com) \in Nat /\ SumOf(com) <= extra
  BY SumOfOnly
<1>4. Cardinality(weighed) <= Cardinality(paid)
  <2>1. weighed \subseteq paid
    <3>1. \A a \in D : to[a] = pay[a] + com[a] /\ pay[a] \in Nat /\ com[a] \in Nat
      BY DEF GivenBy
    <3> QED BY <3>1
  <2>2. IsFiniteSet(paid)
    BY FS_Subset
  <2> HIDE DEF weighed, paid
  <2> QED BY <2>1, <2>2, FS_Subset
<1>5. IsFiniteSet(weighed) /\ IsFiniteSet(paid)
  BY FS_Subset
<1>6. Cardinality(weighed) \in Nat /\ Cardinality(paid) \in Nat
  BY <1>5, FS_CardinalityType
<1>7. SumOf(pay) \in Nat
  BY SumInNat
<1> HIDE DEF weighed, paid
<1>8. 2 * SumOf(to) <= 2 * (backed + extra) + Cardinality(paid)
  BY <1>1, <1>2, <1>3, <1>4, <1>6, <1>7
<1> QED BY <1>8 DEF paid

\* What a payout may come to: the share of the reward, or of a commission beyond it.
Most(payout, share) ==
    LET whole == Part(share, payout.reward)
        extra == Part(share, Part(payout.commission, payout.issuance))
    IN  IF extra <= whole THEN whole ELSE extra

\* What is left of a share for the backers is what the commission leaves of it.
LEMMA ShareIsDivided ==
    ASSUME NEW share \in Nat, NEW payout, IsPayout(payout)
    PROVE  LET whole == Part(share, payout.reward)
               extra == Part(share, Part(payout.commission, payout.issuance))
           IN  /\ whole \in Nat /\ extra \in Nat
               /\ Most(payout, share) \in Nat /\ whole <= Most(payout, share)
               /\ Most(payout, share) \in {whole, extra}
               /\ WholeSuffices => Most(payout, share) = whole
               /\ BackersPart(payout, share) \in Nat
               /\ BackersPart(payout, share) + extra = Most(payout, share)
<1> DEFINE whole == Part(share, payout.reward)
           extra == Part(share, Part(payout.commission, payout.issuance))
<1>1. /\ payout.reward \in Nat /\ Part(payout.commission, payout.issuance) \in Nat
      /\ WholeSuffices => Part(payout.commission, payout.issuance) <= payout.reward
  BY PartIsNearest DEF IsPayout
<1>2. whole \in Nat /\ extra \in Nat /\ (WholeSuffices => extra <= whole)
  BY <1>1, PartIsNearest, PartGrows
<1>3. /\ BackersPart(payout, share) = Sub(whole, extra)
      /\ Most(payout, share) = IF extra <= whole THEN whole ELSE extra
  BY DEF BackersPart, Most
<1> HIDE DEF whole, extra
<1>4. /\ Sub(whole, extra) \in Nat
      /\ Sub(whole, extra) + extra = IF extra <= whole THEN whole ELSE extra
  BY <1>2 DEF Sub
<1> QED BY <1>2, <1>3, <1>4 DEF whole, extra

\* Those in D are paid at most this, up to half a unit for each payee.
PaysAtMost(to, D, most) ==
    /\ \A a \in Account : to[a] \in Nat
    /\ 2 * SumOf([a \in D |-> to[a]]) <= 2 * most + Cardinality({a \in D : to[a] > 0})

(***************************************************************************)
(* One payout: the collator's commission and the parts by weight of what   *)
(* is left of its share make the share, or the commission where that is    *)
(* more, up to half a unit for each payee; whoever has no account gets     *)
(* nothing, and the bond account is left out.                              *)
(***************************************************************************)
LEMMA RewardsAreShares ==
    ASSUME NEW r, NEW c \in Account, NEW payout, IsPayout(payout),
           NEW snapshot, Fair(c, snapshot) \/ snapshot.delegations = <<>>,
           NEW share \in Nat, share = Share(r, c),
           NEW D \in SUBSET Account
    PROVE  PaysAtMost(Rewards(r, c, payout, snapshot), D, Most(payout, share))
<1> DEFINE to == Rewards(r, c, payout, snapshot)
           whole == Part(share, payout.reward)
           extra == Part(share, Part(payout.commission, payout.issuance))
           most == Most(payout, share)
           backed == BackersPart(payout, share)
           list == snapshot.delegations
           given == [a \in D |-> to[a]]
           paid == {a \in D : given[a] > 0}
<1>1. /\ whole \in Nat /\ extra \in Nat /\ most \in Nat /\ whole <= most
      /\ backed \in Nat /\ backed + extra = most
  BY ShareIsDivided
<1>2. IsFiniteSet(D)
  BY AccountsAssumption, FS_Subset
<1>3. Cardinality(paid) \in Nat
  <2>1. IsFiniteSet(paid)
    BY <1>2, FS_Subset
  <2> QED BY <2>1, FS_CardinalityType
<1>4. {a \in D : to[a] > 0} = paid
  OBVIOUS
<1>5. SUFFICES /\ \A a \in Account : to[a] \in Nat
               /\ 2 * SumOf(given) <= 2 * most + Cardinality(paid)
  BY <1>4 DEF PaysAtMost
<1>6. CASE list = <<>>
  <2>1. \A a \in Account : to[a] = Deposit(a, IF a = c THEN whole ELSE 0)
    <3>1. \A a : ~Holds(list, a)
      BY <1>6 DEF Holds
    <3>2. \A a \in Account : to[a] = Deposit(a, (IF a = c THEN whole ELSE 0) + 0)
      BY <1>6, <3>1 DEF Rewards
    <3>3. \A a : (IF a = c THEN whole ELSE 0) + 0 = IF a = c THEN whole ELSE 0
      BY <1>1
    <3> QED BY <3>2, <3>3
  <2> HIDE DEF to, whole
  <2>2. \A a \in Account : to[a] \in Nat /\ to[a] <= IF a = c THEN whole ELSE 0
    BY <1>1, <2>1 DEF Deposit
  <2>3. given \in [D -> Nat] /\ OnlyTo(given, c, whole)
    BY <2>2 DEF OnlyTo
  <2>4. SumOf(given) \in Nat /\ SumOf(given) <= whole
    BY <1>1, <1>2, <2>3, SumOfOnly
  <2> HIDE DEF given, paid, most
  <2> QED BY <1>1, <1>3, <2>2, <2>4
<1>7. CASE Fair(c, snapshot) /\ list # <<>>
  <2> DEFINE weight == WeightIn(snapshot, c)
             part(a) == Part(FromRational(weight[a], snapshot.total), backed)
             mine(a) == IF a = c \/ Holds(list, a) THEN Deposit(a, part(a)) ELSE 0
             bonus(a) == IF a = c THEN Deposit(a, extra) ELSE 0
             pay == [a \in D |-> mine(a)]
             com == [a \in D |-> bonus(a)]
             some == [a \in D |-> weight[a]]
  <2>1. /\ weight \in [Account -> Nat] /\ SumOf(weight) = snapshot.total
        /\ snapshot.total \in Nat \ {0}
    BY <1>7, WeightsAddUp
  <2>2. ~Holds(list, c)
    BY <1>7 DEF Fair, Holds
  <2>3. \A a \in Account : part(a) \in Nat /\ weight[a] \in Nat
    <3>1. \A a \in Account : weight[a] \in Nat
      BY <2>1
    <3> HIDE DEF weight, backed
    <3> QED BY <1>1, <2>1, <3>1, RationalIsBelow, PartIsNearest
  <2>4. \A a \in Account : /\ mine(a) \in Nat /\ bonus(a) \in Nat
                           /\ mine(a) \in {0, part(a)}
                           /\ bonus(a) <= IF a = c THEN extra ELSE 0
    <3> HIDE DEF part, extra, list
    <3> QED BY <1>1, <2>3 DEF Deposit
  <2>5. \A a \in Account : to[a] = mine(a) + bonus(a)
    <3> DEFINE due(amount) == Part(FromRational(amount, snapshot.total), backed)
               from(a) == (IF a = c THEN due(snapshot.bond) + extra ELSE 0)
                        + (IF Holds(list, a) THEN due(AmountOf(list, a)) ELSE 0)
    <3>1. \A a \in Account : to[a] = Deposit(a, from(a))
      BY <1>7 DEF Rewards
    <3>2. /\ weight[c] = snapshot.bond
          /\ \A a \in Account \ {c} : Holds(list, a) => weight[a] = AmountOf(list, a)
      BY DEF WeightIn
    <3>3. /\ due(snapshot.bond) = part(c)
          /\ \A a \in Account \ {c} : Holds(list, a) => due(AmountOf(list, a)) = part(a)
      BY <3>2
    <3>4. /\ from(c) = part(c) + extra
          /\ \A a \in Account \ {c} : from(a) = IF Holds(list, a) THEN part(a) ELSE 0
      <4> HIDE DEF due, part, extra, list
      <4> QED BY <1>1, <2>2, <2>3, <3>3
    <3> HIDE DEF due, part, extra, list, from, to
    <3> QED BY <1>1, <2>2, <2>3, <3>1, <3>4 DEF Deposit
  <2>6. /\ pay \in [D -> Nat] /\ com \in [D -> Nat] /\ given \in [D -> Nat]
        /\ some \in [D -> Nat]
    <3> HIDE DEF mine, bonus, to, weight
    <3> QED BY <2>3, <2>4, <2>5
  <2>7. /\ GivenBy(given, pay, com) /\ OnlyTo(com, c, extra)
        /\ PaidByWeight(pay, some, snapshot.total, backed)
    <3>1. \A a \in D : some[a] = weight[a] /\ pay[a] = mine(a) /\ com[a] = bonus(a) /\ given[a] = to[a]
      OBVIOUS
    <3>2. DOMAIN given = D /\ DOMAIN com = D /\ DOMAIN pay = D
      OBVIOUS
    <3>3. \A a \in D : pay[a] \in {0, Part(FromRational(some[a], snapshot.total), backed)}
      BY <2>4, <3>1
    <3> HIDE DEF mine, bonus, to, weight, some, pay, com, given, extra, backed
    <3> QED BY <2>4, <2>5, <3>1, <3>2, <3>3 DEF GivenBy, OnlyTo, PaidByWeight
  <2>8. SumOf(some) <= snapshot.total
    <3>1. /\ IsFiniteSet(DOMAIN weight) /\ weight \in [DOMAIN weight -> Nat]
          /\ \A a \in DOMAIN some : a \in DOMAIN weight /\ some[a] <= weight[a]
      <4>1. DOMAIN weight = Account
        BY <2>1
      <4> HIDE DEF weight
      <4> QED BY <2>1, <2>3, <4>1, AccountsAssumption
    <3> HIDE DEF weight, some
    <3> QED BY <2>1, <2>6, <3>1, SumOfLess
  <2> HIDE DEF pay, com, some, given, backed, extra, whole, most
  <2>9. 2 * SumOf(given) <= 2 * (backed + extra) + Cardinality(paid)
    BY <1>1, <1>2, <2>1, <2>6, <2>7, <2>8, GivenIsWithin
  <2> HIDE DEF mine, bonus, to, paid
  <2> QED BY <1>1, <2>4, <2>5, <2>9
<1> QED BY <1>6, <1>7

-----------------------------------------------------------------------------
(* A payout is a share: the step *)

\* What the properties say of the author k that a step pays.
IsWithinShare(k) ==
    /\ IsAtMost(ShareOfReward(k)) \/ IsAtMost(ShareOfCommission(k))
    /\ WholeSuffices => IsAtMost(ShareOfReward(k))

\* An author's points are a part of a round's.
LEMMA ShareIsNat ==
    ASSUME PointsAreNumbers, NEW r, NEW c, <<r, c>> \in DOMAIN awardedPts, PointsOf(r) # 0
    PROVE  Share(r, c) \in Nat
<1>1. r \in DOMAIN points
  BY DEF PointsOf
<1>2. points[r] \in Nat /\ awardedPts[<<r, c>>] \in Nat
  BY <1>1 DEF PointsAreNumbers
<1> QED BY <1>2, RationalIsBelow DEF Share

\* Only a payout takes points from an author, and only from the one it pays.
LEMMA PayAndAwardPays ==
    ASSUME NEW now, NEW author, NEW prepared, NEW stakes,
           PayAndAward(now, author, prepared, stakes),
           NEW k \in DOMAIN awardedPts, k \notin DOMAIN awardedPts'
    PROVE  \E r : \E c \in Account :
            /\ k = <<r, c>> /\ r \in DOMAIN prepared.payouts /\ PointsOf(r) # 0
            /\ delayedPayouts' = prepared.payouts
            /\ LET to == Rewards(r, c, prepared.payouts[r], SnapshotAt(stakes, r, c))
               IN  minted' = [to EXCEPT ![bondAccount] = @ + prepared.reserved]
<1> DEFINE r == now - RewardPaymentDelay
<1>1. ASSUME NEW awarded, awardedPts' = Earned(awarded, <<now, author>>)
      PROVE  DOMAIN awarded \subseteq DOMAIN awardedPts'
  BY <1>1 DEF Earned, Put
<1>2. awardedPts' # Earned(awardedPts, <<now, author>>)
  BY <1>1
<1>3. PICK c \in AuthorsOf(r) :
        /\ r \in DOMAIN prepared.payouts /\ ~PaidInFull(r)
        /\ delayedPayouts' = prepared.payouts
        /\ minted' = [Rewards(r, c, prepared.payouts[r], SnapshotAt(stakes, r, c))
                        EXCEPT ![bondAccount] = @ + prepared.reserved]
        /\ awardedPts' = Earned(Drop(awardedPts, <<r, c>>), <<now, author>>)
  BY <1>2 DEF PayAndAward
<1>4. k = <<r, c>>
  <2>1. DOMAIN Drop(awardedPts, <<r, c>>) = DOMAIN awardedPts \ {<<r, c>>}
    BY DEF Drop
  <2> QED BY <1>1, <1>3, <2>1
<1>5. PointsOf(r) # 0 /\ c \in Account
  BY <1>3 DEF PaidInFull, AuthorsOf
<1> QED BY <1>3, <1>4, <1>5

\* The reserve goes to the bond account on top; the others have their rewards.
LEMMA PayAndAwardIsWithinShare ==
    ASSUME NEW now, NEW author, NEW prepared, NEW stakes,
           PayAndAward(now, author, prepared, stakes),
           SnapshotsAreFair(stakes), PayoutsAreWhole(prepared.payouts), PointsAreNumbers,
           NEW k \in DOMAIN awardedPts, k \notin DOMAIN awardedPts'
    PROVE  IsWithinShare(k)
<1>1. PICK r : \E c \in Account :
            /\ k = <<r, c>> /\ r \in DOMAIN prepared.payouts /\ PointsOf(r) # 0
            /\ delayedPayouts' = prepared.payouts
            /\ minted' = [Rewards(r, c, prepared.payouts[r], SnapshotAt(stakes, r, c))
                            EXCEPT ![bondAccount] = @ + prepared.reserved]
  BY PayAndAwardPays
<1>2. PICK c \in Account :
            /\ k = <<r, c>> /\ r \in DOMAIN prepared.payouts /\ PointsOf(r) # 0
            /\ delayedPayouts' = prepared.payouts
            /\ minted' = [Rewards(r, c, prepared.payouts[r], SnapshotAt(stakes, r, c))
                            EXCEPT ![bondAccount] = @ + prepared.reserved]
  BY <1>1
<1> DEFINE payout == prepared.payouts[r]
           snapshot == SnapshotAt(stakes, r, c)
           to == Rewards(r, c, payout, snapshot)
           share == Share(r, c)
           D == Account \ {bondAccount}
           given == [a \in D |-> to[a]]
           few == {a \in D : to[a] > 0}
           most == Most(payout, share)
<1>3. IsPayout(payout)
  BY <1>2 DEF PayoutsAreWhole
<1>4. Fair(c, snapshot) \/ snapshot.delegations = <<>>
  <2>1. CASE <<r, c>> \in DOMAIN stakes
    <3>1. Fair(<<r, c>>[2], stakes[<<r, c>>]) /\ snapshot = stakes[<<r, c>>]
      BY <2>1 DEF SnapshotsAreFair, SnapshotAt
    <3> QED BY <3>1
  <2>2. CASE <<r, c>> \notin DOMAIN stakes
    BY <2>2 DEF SnapshotAt
  <2> QED BY <2>1, <2>2
<1>5. share \in Nat
  BY <1>2, ShareIsNat
<1>6. /\ \A a \in Account : to[a] \in Nat
      /\ 2 * SumOf(given) <= 2 * most + Cardinality(few)
  <2> HIDE DEF snapshot, payout
  <2>1. D \in SUBSET Account
    OBVIOUS
  <2>2. share = Share(r, c)
    OBVIOUS
  <2> HIDE DEF D, share
  <2>3. PaysAtMost(Rewards(r, c, payout, snapshot), D, Most(payout, share))
    BY <1>3, <1>4, <1>5, <2>1, <2>2, RewardsAreShares
  <2> QED BY <2>3 DEF PaysAtMost
<1>7. \A a \in D : minted'[a] = to[a]
  <2>1. DOMAIN to = Account
    BY DEF Rewards
  <2> HIDE DEF to
  <2> QED BY <1>2, <2>1 DEF to
<1>8. PaidNow = SumOf(given) /\ Payees = few
  <2>1. [a \in D |-> minted'[a]] = given
    <3> HIDE DEF to
    <3> QED BY <1>7
  <2>2. Payees = few
    <3> HIDE DEF to
    <3> QED BY <1>7 DEF Payees
  <2> HIDE DEF to, given, few
  <2> QED BY <2>1, <2>2 DEF PaidNow
<1>9. IsAtMost(most)
  <2> HIDE DEF given, few, most
  <2> QED BY <1>6, <1>8 DEF IsAtMost
<1>10. ShareOfReward(k) = Part(share, payout.reward)
  BY <1>2 DEF ShareOfReward
<1>11. ShareOfCommission(k) = Part(share, Part(payout.commission, payout.issuance))
  BY <1>2 DEF ShareOfCommission
<1>12. most \in {ShareOfReward(k), ShareOfCommission(k)} /\ (WholeSuffices => most = ShareOfReward(k))
  <2> HIDE DEF share, payout
  <2> QED BY <1>3, <1>5, <1>10, <1>11, ShareIsDivided
<1> HIDE DEF most
<1> QED BY <1>9, <1>12 DEF IsWithinShare

(***************************************************************************)
(* Whichever author a block pays, the payout is within its share.          *)
(***************************************************************************)
LEMMA StepPaysWithinShare ==
    ASSUME IInv, Coherent, PoolIsCurrent, RolesAreDisjoint, InflationInv,
           ShareInv, [NextInRounds]_allVars,
           NEW k \in DOMAIN awardedPts, k \notin DOMAIN awardedPts'
    PROVE  IsWithinShare(k)
<1>1. CASE UNCHANGED awardedPts
  BY <1>1
<1>2. ASSUME NEW author \in Authors, BlockInRound(author) PROVE IsWithinShare(k)
  <2>1. PayAndAward(round, author, NoPayouts, atStake)
    BY <1>2 DEF BlockInRound
  <2>2. SnapshotsAreFair(atStake) /\ PayoutsAreWhole(NoPayouts.payouts) /\ PointsAreNumbers
    BY DEF ShareInv, NoPayouts
  <2> QED BY <2>1, <2>2, PayAndAwardIsWithinShare
<1>3. ASSUME NEW author \in Authors, BlockOfNextRound(author) PROVE IsWithinShare(k)
  <2> DEFINE now == round + 1
  <2>1. PICK selection \in SelectTopCandidates(now) :
            PayAndAward(now, author, PreparePayouts(now), selection.stakes)
    BY <1>3 DEF BlockOfNextRound
  <2>2. SnapshotsAreFair(selection.stakes)
    BY <2>1, SelectionIsFair DEF ShareInv
  <2>3. PayoutsAreWhole(PreparePayouts(now).payouts) /\ PointsAreNumbers
    BY PreparedAreWhole DEF ShareInv
  <2> QED BY <2>1, <2>2, <2>3, PayAndAwardIsWithinShare
<1>4. CASE Call /\ UNCHANGED roundVars
  BY <1>1, <1>4 DEF roundVars
<1>5. ASSUME NEW new, \/ SetTotalSelected(new) \/ SetBlocksPerRound(new)
                      \/ SetCollatorCommission(new) \/ SetParachainBondReservePercent(new)
                      \/ SetParachainBondAccount(new) \/ SetStakingExpectations(new)
                      \/ SetInflation(new)
      PROVE  UNCHANGED awardedPts
  BY <1>5 DEF SetTotalSelected, SetBlocksPerRound, SetCollatorCommission,
              SetParachainBondReservePercent, SetParachainBondAccount,
              SetStakingExpectations, SetInflation
<1>6. CASE UNCHANGED allVars
  BY <1>1, <1>6 DEF allVars, roundVars
<1> QED BY <1>1, <1>2, <1>3, <1>4, <1>5, <1>6 DEF NextInRounds

\* What payouts are divided by stays in order, and with it all it rests on.
LEMMA SharesStayInOrder ==
    ASSUME CandidatesHaveStake
    PROVE  RoundsSpec => [](/\ IInv /\ Coherent /\ PoolIsCurrent /\ RolesAreDisjoint
                            /\ InflationInv /\ ShareInv)
<1>1. InitRounds => ShareInv
  BY InitShares
<1>2. /\ IInv /\ Coherent /\ PoolIsCurrent /\ RolesAreDisjoint /\ InflationInv /\ ShareInv
      /\ IInv' /\ Coherent' /\ [NextInRounds]_allVars
      => ShareInv'
  BY StepKeepsShares
<1>3. RoundsSpec => [](IInv /\ Coherent /\ PoolIsCurrent /\ RolesAreDisjoint)
  BY RoundsKeepLedger, LedgerStaysCoherent, PoolStaysCurrent, RolesStayDisjoint, PTL
<1>4. RoundsSpec => []InflationInv
  BY InflationInvHolds
<1> QED BY <1>1, <1>2, <1>3, <1>4, PTL DEF RoundsSpec

\* So every payout is within its share, and within the reward if the whole suffices.
LEMMA PayoutsAreBounded ==
    ASSUME CandidatesHaveStake
    PROVE  RoundsSpec
           => [][\A k \in DOMAIN awardedPts \ DOMAIN awardedPts' : IsWithinShare(k)]_allVars
<1> DEFINE Paying == \A k \in DOMAIN awardedPts \ DOMAIN awardedPts' : IsWithinShare(k)
<1>1. /\ IInv /\ Coherent /\ PoolIsCurrent /\ RolesAreDisjoint /\ InflationInv /\ ShareInv
      /\ [NextInRounds]_allVars
      => [Paying]_allVars
  <2> SUFFICES ASSUME IInv, Coherent, PoolIsCurrent, RolesAreDisjoint, InflationInv, ShareInv,
                      [NextInRounds]_allVars,
                      NEW k \in DOMAIN awardedPts, k \notin DOMAIN awardedPts'
               PROVE  IsWithinShare(k)
    OBVIOUS
  <2> QED BY StepPaysWithinShare
<1>2. RoundsSpec => [][Paying]_allVars
  BY <1>1, SharesStayInOrder, PTL DEF RoundsSpec
<1> QED BY <1>2

(***************************************************************************)
(* What a block pays to a collator and its backers is at most its share of *)
(* the round's reward by points, or of the commission where that is more,  *)
(* up to half a unit of rounding for each payee: whatever was bonded,      *)
(* asked back, revoked or changed by governance since the round.           *)
(***************************************************************************)
THEOREM PayoutsStayWithinShare ==
    ASSUME CandidatesHaveStake
    PROVE  RoundsSpec => PayoutIsWithinShare
<1> DEFINE Paying == \A k \in DOMAIN awardedPts \ DOMAIN awardedPts' : IsWithinShare(k)
           Within == \A k \in DOMAIN awardedPts \ DOMAIN awardedPts' :
                        IsAtMost(ShareOfReward(k)) \/ IsAtMost(ShareOfCommission(k))
<1>1. [Paying]_allVars => [Within]_allVars
  BY DEF IsWithinShare
<1>2. RoundsSpec => [][Within]_allVars
  BY <1>1, PayoutsAreBounded, PTL
<1> QED BY <1>2 DEF PayoutIsWithinShare

(***************************************************************************)
(* The reward is overdrawn by nothing else than a commission and a reserve *)
(* that exceed the whole together: where no two that governance may set    *)
(* do, every payout is within its share of the reward.                     *)
(***************************************************************************)
THEOREM PayoutsStayWithinReward ==
    ASSUME WholeSuffices, CandidatesHaveStake
    PROVE  RoundsSpec => PayoutIsWithinReward
<1> DEFINE Paying == \A k \in DOMAIN awardedPts \ DOMAIN awardedPts' : IsWithinShare(k)
           Within == \A k \in DOMAIN awardedPts \ DOMAIN awardedPts' : IsAtMost(ShareOfReward(k))
<1>1. [Paying]_allVars => [Within]_allVars
  BY DEF IsWithinShare
<1>2. RoundsSpec => [][Within]_allVars
  BY <1>1, PayoutsAreBounded, PTL
<1> QED BY <1>2 DEF PayoutIsWithinReward
=============================================================================
