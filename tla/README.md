# A TLA+ verification of the hackathon-parity-eu chain

The repository is a privacy-preserving parachain (a fork of Manta's Dolphin),
with its pallets, node, wallet SDK and web front-end.  This directory holds
TLA+ models of its stateful parts, TLC configurations that check them on small
instances, and theorems that TLAPS checks for every instance.

    tlc -workers 2 -config staking_kicks.cfg MCParachainStaking
    tlapm ParachainStakingProofs.tla

Line numbers below refer to the sources under `src/`.

## 1. The system

| component | state it keeps | operations | interacts with |
|---|---|---|---|
| parachain-staking, bonding ledger (`types.rs`, `delegation_requests.rs`, extrinsics of `lib.rs`) | `CandidateInfo`, `TopDelegations`, `BottomDelegations`, `DelegatorState`, `DelegationScheduledRequests`, `CandidatePool`, `Total`, two balance locks per account | 10 candidate calls, 9 delegator calls | balances (locks), collator-selection (whitelist), rounds |
| parachain-staking, rounds (`lib.rs` hooks) | `Round`, `SelectedCandidates`, `AtStake`, `Staked`, `Points`, `AwardedPts`, `DelayedPayouts`, `InflationConfig` | `on_initialize`, `on_finalize`, 7 governance setters | bonding ledger, balances, block author |
| collator-selection | `Invulnerables`, `Candidates`, `DesiredCandidates`, `BlocksPerCollatorThisSession`, eviction parameters | register, leave, remove, set_*, `new_session`, `note_author` | session, balances (reserve, pot), staking (whitelist) |
| manta-pay | `UtxoSet`, `Shards`, `ShardTrees`, `UtxoAccumulatorOutputs`, `NullifierCommitmentSet`, `NullifierSetInsertionOrder`, `NullifierSetSize` | `to_private`, `to_public`, `private_transfer`, pull of receivers and senders | asset-manager (fungible ledger), NFT ledger, wallets |
| asset-manager | asset id, location and metadata maps, `UnitsPerSecond`, `AllowedDestParaIds`, `NextAssetId` | register, move, change metadata, price, mint, migration of the counts | fungible ledger, manta-pay, XCM |
| fungible ledger (`primitives/manta/src/assets.rs`) | none of its own: balances of pallet_balances and pallet_assets | `can_deposit`, `can_withdraw`, deposit, withdraw, mint, transfer | asset-manager, manta-pay, XCM |
| tx-pause | `PausedTransactions` | pause and unpause calls and pallets | base call filter of the runtime |
| XCM fee trader, barrier and transactor (`primitives/manta/src/xcm.rs`, `xcm_config.rs`) | weight and refund bought by one message | buy, refund, drop; withdraw and deposit | asset-manager, fungible ledger, treasury |
| runtime | composition, call filter, nimbus filter | | all pallets |
| node | consensus verifier by seal, RPC, commands | | runtime |
| SDK and wallet bindings (`sdk.ts`, wallet crate) | one WASM wallet behind an async lock | sync, sign, post | node RPC, signer, front-end |
| front-end private wallet (`privateWalletContext.tsx`) | `sdk`, `isReady`, `isInitialSync`, `walletIsBusy`, `balancesAreStale`, transaction status | init, sync, transfers, balances | SDK, signer, node |
| front-end forms (`SendContext`, `sendReducer.ts`, of `SendPage` and `NftTransactPage`) | selected asset, the two sides, balances shown | select, toggle, fetch, send | private wallet, node |
| NFT gallery and creation (`nftContext.tsx`) | lists of owned NFTs | create, view | SDK, IPFS |

What is hard in them:

* the same stake is written in five places by nineteen calls, and cached
  amounts decide which of two lists a call works on;
* requests are scheduled in one round and executed in another, after other
  accounts' calls have changed what they were about;
* round changes, payouts spread over blocks and snapshots of an earlier round;
* session boundaries against registrations and removals;
* the several steps of posting a shielded transfer, and paged synchronisation
  of a ledger that keeps growing;
* one location, count and id of an asset kept in several maps, before and after a
  migration;
* weight that is bought, refunded in pieces and kept as a fee, by a message that
  may fail anywhere;
* a wallet that may not be entered twice, kept apart by a flag that every caller
  sets for itself, and balances that arrive late.

What makes each component correct: the ledger's copies agree and nobody's stake
moves without cause (checked here); a payout stays within its collator's share of
the round (of its reward, as long as governance keeps commission and reserve
within the whole) and its snapshots add up; the collator set is what sessions and evictions say;
no nullifier is spent twice, private value is backed and pulling neither skips
nor repeats; identifiers, locations and their counters agree; a paused call is
exactly one that was paused and not unpaused; no message makes units of an
asset, if it pays for the first weight it buys; the wallet is never called twice at once, and what the form shows is what
is selected.

`PROJECT.json` lists the hazards at their lines, with the properties that cover
them or the reason why none does.

## 2. The modules

| module | models |
|---|---|
| `StorageMaps` | FRAME storage maps as functions on the keys present, saturating subtraction, sums over a map |
| `CandidateBook` | one candidate's `CandidateMetadata` with its two lists: pure operators for the functions of `types.rs` |
| `ParachainStaking` | the bonding ledger: one action per extrinsic |
| `ParachainStakingProperties` | its invariants, action property and refinement mapping |
| `StakeLedger` | the abstract ledger it implements: stakes, own bonds, ranks |
| `MCParachainStaking` | instances for TLC |
| `StakingRounds` | rounds, selection, snapshots, points and payouts, composed with the ledger |
| `StakingRoundsProperties`, `MCStakingRounds` | its properties and instances |
| `CollatorSelection` | candidates, invulnerables, evictions and sessions |
| `CollatorSelectionProperties`, `MCCollatorSelection` | its properties and instance |
| `MantaPay` | the ledger of private notes of fungible assets: nullifiers, shards, trees, roots, public balances |
| `PrivatePool` | the abstract pool it implements: notes made once and spent at most once, value conserved |
| `MantaPayProperties`, `MCMantaPay` | its properties, refinement mapping and instance |
| `LedgerSync` | a wallet that pulls that ledger page by page while it grows |
| `LedgerSyncProperties`, `MCLedgerSync` | its properties and instance |
| `FungibleLedger` | the interface to native and registered assets: what may be deposited and withdrawn, and what that leaves |
| `AssetManager` | the registry of assets over that ledger: one action per call, and the migration |
| `XcmExecution` | one message of another chain after another, beside the registry's calls: barrier, trader, transactor, refunds |
| `XcmExecutionProperties`, `MCXcmExecution` | the properties of both and an instance |
| `PrivateWallet` | the front-end's shared wallet: signer, initialisations, syncs, transactions, in turns of the event loop |
| `SendForm` | the send form beside it, on either of two pages: selection, balances on their way, public transfers |
| `SendFormProperties`, `MCSendForm` | the properties of both and an instance |
| `StorageMapsProofs`, `CandidateBookProofs`, `ParachainStakingProofs`, `StakingRoundsProofs`, `CollatorSelectionProofs`, `MantaPayProofs`, `XcmExecutionProofs`, `SendFormProofs` | the proofs |

### The bonding ledger

`candidate` is `CandidateInfo` with `TopDelegations` and `BottomDelegations`
(the code inserts and removes the three together), `delegator` is
`DelegatorState`, `pool` is `CandidatePool`, `collatorLock` and `delegatorLock`
are the two lock identifiers, `total` is `Total` and `whitelist` the candidates
of collator-selection, which `join_candidates` removes.  `requests` is the set
of all scheduled requests with their collator: the code keeps a vector per
collator but only ever searches it by delegator and keeps at most one request
per delegator, so that the order cannot be seen.  That at most one is kept is a
property (`RequestsStayValid`), not an assumption of the model.

An extrinsic that returns an error is rolled back by FRAME (calls are
transactional in the Substrate version used), so its checks are guards, and so
are the places where the code would panic (`expect`): Delegate requires that
the kicked delegators have a state.  Two checks that the code makes although it
does not need them are kept: a listed owner without `DelegatorState` fails
`execute_leave_candidates`, and a collator's book that does not give up a
delegation is passed over by `execute_leave_delegators`.

`pool` keeps only the amount per candidate: `CandidatePool` is an `OrderedSet`
keyed by the candidate, and `update_active` removes and inserts.

Left out: the weight hints (taken as sufficient), events, the governance
setters, and the migration and genesis paths.  The free balance of an account
is a constant, so that the checks against it are real ones, but no transfers
happen beside staking.

### Rounds

`StakingRounds` extends `ParachainStaking`: a step of the composition is a call
of the ledger, a block, or a governance call.  A block is `on_initialize`
followed by `on_finalize`: nothing that runs between the two reads or writes
`Points` and `AwardedPts`, so that awarding the author at once changes nothing
that can be seen.  In `BlockOfNextRound` the order is the code's: prepare the
payout, select, start the round, store `Staked`, then pay one collator, which
is also what `BlockInRound` does.  `age` is the block number less `Round.first`.

Which collator is paid next is any of those with points left, since the code
drains a map keyed by a hash.  Among equal stakes the selection is a choice
too, where the code uses the order of account identifiers.  Perbill and Percent
are multiples of `1/Accuracy` with the rounding of Substrate (fractions down,
products to the nearest); the instances use 100.

Rewards are kept per block (`minted`, the block's `Rewarded` events) and are
not added to `FreeBalance`.  Block authors are any of `Authors`, selected or
not: the runtime decides on authorship, and an author without snapshot is paid
as a collator without backers.

`inflation` is `InflationConfig`: the expectations, the annual rates and the
rates of a round, which `set_inflation` and `set_blocks_per_round` both derive
with `AnnualToRound`.  The code computes a root in fixed point and rounds it up;
`RoundRate` is the least rate that compounds to the annual one.  The genesis
(`lib.rs:642`), and `initialize_pallet` (`lib.rs:1431`), store annual and round
rates as they are given them (`InitialRound`): those of the mock
(`mock.rs:269-287`, 50 % a year and 5 % a round) do not fit, and stay until the
annual rates or the length of rounds change, since `set_inflation` refuses the
rates that are there already.  `InflationIsCurrent` says just that.  A payout uses
the rates in force when it is prepared, not those of the round it pays for, in
the code as in the model.  The rates apply to a constant `Supply`.  The bond
account starts as one that does not exist, as at the genesis, and until it is
replaced the reserve goes to the collators and backers.

A selection that finds nobody keeps the collators and snapshots of the last
round.  The code means it as a fallback; it also keeps collators that have left
with their stake meanwhile.  No property forbids it.

### Collators

`CollatorSelection` has one action per call of the pallet (registering for
oneself and by governance differ in the origin only) and two more: `NoteAuthor`,
a block of an author in office, and `NewSession`, one rotation of
pallet_session.  A rotation starts the queued set and then calls `new_session`
for the set after it: the eviction, the assembly, and the reset of the counts
for the set that has just started.  Only members with registered keys are
queued, and keys come and go on their own (`SetKeys`, `PurgeKeys`).  The
genesis sessions are assembled before anybody can be counted, which is why the
performance map starts empty.

The eviction keeps the code's form, a sorted list with an index into it
(`Rankings`, `Underperformers`), with any order among equals since the sort is
unstable; what it should amount to is stated without sorting, ranks or rounding
in `FallsShort`.  Deposits are what the currency holds for this pallet.  Free
balances, the pot among them, belong to the environment, so a registration may
fail for lack of funds at any time, and the author's reward is left out.

`WF(NewSession)` is the only fairness: sessions have a fixed number of blocks,
and blocks are made whatever the users do.  No block, call or decision of
governance is assumed to happen.

### Private notes

`MantaPay` has one action per call; `PrivateTransfer` stands for both private
transfers, since `private_transfer_asset` checks more and does the same.  Each
action is the call with all of `TransferPost::post`: the checks on accounts,
senders, receivers and proof, then `spend_all`, `register_all` and
`update_public_balances` in the code's order.  The code is `#[transactional]`,
so a post that fails on the way (a tree without room, a payout that panics)
leaves nothing, and the checks may be guards.

A note stands for its UTXO and its nullifier, which it determines; what it is
worth, its asset and the shard its hash falls into are constants of the note.
A root is named by the leaves below it, `[shard, leaves]`, and a proof of
membership is the leaf being below the root; that is all that a collision-free
hash and a sound proof system leave to choose.  `trees` keeps of `ShardTrees`
what the ledger uses: whether there is a leaf, and the index of the last.
`SpendAll` and `RegisterAll` take the sequences the code iterates over;
`InsertAll` carries tree, shards and set from one insertion to the next, as
`register_all` does within a shard.  The order between two shards cannot be
seen, so the sort by shard is left out.

manta_accounting and manta_pay, which check a post and its proof before the
ledger writes, are not in the repository: `Proven`, `Member`, `Distinct` and
`ValidSenders` are modelled from the traits the pallet implements for them.

`LedgerSync` adds the wallet: `Pull` is the RPC at the finalized state,
`Receive` the wallet's side, which appends what it gets, and `Lose` an answer
that never comes.  `Taken` is the loop over indices that stops at a missing
one, `ReceiversOf` what it yields for one shard and `Room` what the shards before
left of the page's limit: the loop over shards is greedy, so that each of them gave
all it had or filled the page.  The page is kept by shard, as the wallet sorts it.  The wallet sends a new
request only when there is none under way: its methods are async and borrow the
wallet mutably.  `WF(Pull)` is the front-end's interval timer; `SF(Receive)`
says that not every answer is lost.  Neither block nor call is assumed to happen.

### Assets and messages of other chains

`AssetManager` has one action per call.  Metadata is its kind, the identifier in
it and an owner; `Mapping` is what `registered_asset_id` is keyed by.  Calls are
transactional, so that checks are guards and a call that fails is no step;
reserving a deposit may fail at any time.  A chain starts fresh, counted, or as one
from before the counts (`OldAssets`); `RuntimeUpgrade` is the migration, which may
run at any time, and again.  `CountsAreExact` is asked once it has run
(`Migrated`), and says nothing of this chain's own count: the native asset and the
assets of users have the native location and are not counted (`lib.rs:331`).

`Foreign`: governance is taken to give an asset only locations of other chains.
The code would let it give the native location again, or leave it, and what the
location then leads to is governance's business.  Leaving it is in the model:
assets of users have the native location, and moving one of them removes that
location's entry (`lib.rs:459`), which was the native asset's.  `RegistryAgrees`
does not notice, since it asks of every entry that it points back and not that
there is one.  The transactor does not need it (`IsNative`); the trader sells no
weight for the native asset from then on.

`XcmExecution` is one message at a time: the weight limit is written by the barrier
(`xcm_config.rs:167-214`; the copy in `primitives/manta/src/xcm.rs:418-466` is not
used), funds arrive as `WithdrawAsset` or `ReserveAssetDeposited`, `BuyExecution`
pays in the first asset, and `Transact`, `RefundSurplus` and `DepositAsset` follow
in any order and number.  `End` is the end of a message, successful or not: what
surplus is left is refunded, the trader is dropped with its cache, the holding is
trapped.  The executor is outside the repository and modelled as far as it calls
these parts.  `entered` is a ghost: the units of each asset that were minted or
sent here.  What left for the reserve is taken from accounts and from `entered`.

The trader counts the weight of a purchase twice when it goes into the refund
cache (`xcm.rs:213`, `236`).  Nothing comes of it when the first purchase, which is
of the whole weight of the message, was paid for.  But a price may be zero:
`set_units_per_second` takes any rate, small ones round down, and `buy_weight`
returns early then (`xcm.rs:192-194`).  The ghost `free` of a message says that
its first purchase cost nothing.  `NothingIsMade` allows what such a message may be
given back beyond what it paid, the price of its weight at most (`Unpaid`), and
nothing else; without `Unpaid` the run `xcm` finds such a message.

Fees paid in a second asset are in no cache: the trader gives neither a refund nor
anything to the treasury for them.  The model does the same, and `NothingIsMade`
allows units to vanish.

### The wallet and the form

A step of `PrivateWallet` is a turn of the event loop: up to the next `await` that
waits for the network, the signer or a timer.  This is what makes
`waitForWallet` work at all: it reads the flag and its caller sets it in the same
turn.  `calls` are the async methods under way on a WASM wallet, which panics when
a second one begins; which calls may overlap is the question.  Effects of React
are part of the turn that changes what they depend on (`Rendered`).

The SDK keeps its failures to itself: a sync that failed is a sync that ended, and
a transaction that failed is reported as finalized.  Hence one `SyncEnds`, and
`Reported` for both outcomes.  `unsynced` and `missed` are ghosts that follow
which transactions a sync has seen.

`SendForm` is the form of `SendPage` or that of `NftTransactPage`, whose reducer is
the same file, each with the wallet of its page.  They differ in that the NFT page
does not ask `isValidToSend`, resets its form when the user turns to another part
of the page, and has no handler for public transfers (`page`).  A balance is
modelled by the type it is of.  A fetch is a request of the node or a reader that
waits for the wallet; both are answered in any order and checked by
`balanceUpdateIsStale`, as in the code.

Fairness: the interval of sync and the polling go on (`WF` of `Sync` and
`WaitEnds`), and a sync and a transaction end, if only with an error (`WF` of
`SyncEnds` and `SendEnds`), since signer and node answer or their connection
fails.  Nothing is assumed of the signer's coming back, of initialisations, of
balances and of public transfers, which in the code may indeed never end.

### Runs

| run | instance | what it shows |
|---|---|---|
| `staking_kicks` | 1 candidate, 5 backers, both lists hold 2, amounts 1..3, 2 rounds | the five backers can fill both lists and kick; amounts repeat, so that the ambiguous lookup (`lowTop = highBottom`) happens in every list position |
| `staking_portfolios` | 2 candidates who may raise and lower their own bonds and 2 backers, one of them with funds for both candidates, one account in both roles, lists of 1, minimum stakes of 2 | own bonds with requests pending, portfolios of two delegations, exits, leaving delegators, offline candidates; refinement of `StakeLedger` |
| `rounds_selection` | 2 candidates, 1 backer, 3 rounds of 2 blocks, 1 or 2 collators selected, other expectations and reserves set | snapshots that add up, and the expect of the fallback selection |
| `rounds_payouts` | 1 candidate, 1 backer, an author that is not selected, commissions of 20% and 80%, two inflations, a reserve of 30% without and then with an account to receive it, rounds of 2 and then 3 blocks, round rates that do not fit the annual ones at the start | everybody is paid, nobody more than the share of the reward or of the commission, at rates that fit the length of rounds once either was set |
| `rounds_short_doc` | rounds of 3 blocks cut to 1 | violation, see below |
| `collators` | an invulnerable that may change and two candidates with keys that may be lost, two deposits, percentiles 0, 50 and 80, tolerances 40 and 100, up to 2 blocks each and any number of sessions | deposits, evictions, seats; joining and leaving reach the set of authors |
| `manta_pay` | six notes of two assets, worth 0, 1 or 2, in two shards of three leaves, four of them in one shard; two users and the pallet | no note spent twice, lost or locked in, no payout that panics; refinement of `PrivatePool` |
| `manta_pay_unendowed` | the same without endowment of the pallet | violation, see below |
| `ledger_sync` | five notes in two shards, pages of two receivers and one sender, any number of pulls and losses | pulls neither skip nor repeat, the flag is right, the wallet catches up |
| `xcm` | locations of two assets of one other parachain and of one of the relay chain, two ids beside the native one, of either kind, the native one and one other with rates, one account and the treasury, a smallest balance of two, three units, rates of 0 and 1, messages of weight 3, later purchases of weight 1, one message after another | registry and counts agree before and after the migration, identifiers keep their meaning; what a message is given back was paid, or is the price of a message that paid nothing first |
| `wallet` | two wallets, two assets, one balance on its way, both pages, any number of transactions and syncs | calls of a wallet stay apart, fresh means synced, the form shows what is selected, nobody waits for ever |
| `staking_total_doc` | 2 candidates with lists of 1 | violation, see below |

Why these bounds suffice: the book distinguishes a list that is empty, partial
or full, and a list of two is the least that is all three; a fifth backer is
the least that kicks; three amounts are the least with one strictly between two
others; delays are shorter than the number of rounds, so that every request
both waits and comes due.  Backers are symmetric in `staking_kicks` only, and
only those that differ in nothing but their name.  `MaxRound` is the only
counter bound; amounts are bounded by the free balances.

Three rounds with a payment delay of one are the least in which a round that had
a selection is paid and another selection has overwritten nothing of it.  In
`rounds_selection` the issuance is zero (the snapshots do not depend on it), in
`rounds_payouts` there is nothing to choose between, which keeps both small.  A
year of 6 blocks is the least that has a whole number of rounds of 2 and of 3,
at different rates.

Three authors are the least with somebody below, at and above a percentile, and
two blocks with a tolerance of 40% make a threshold that is not a whole number
(1.2).  Nothing else is bounded in `collators`.

In `manta_pay` the notes bound everything: each can be registered once.  Two
notes worth something are the least that two senders need besides a worthless
one each, three leaves with four notes for them the least that fills a shard in
the middle of a post with two receivers.  The ledger may stop for lack of notes,
which is why deadlock is not checked there.  In `ledger_sync` both limits are
less than what a post can add, and the limit can be met at the end of a shard,
within one, and with nothing left.

In `xcm` three units of one mint are the least with which a message of weight 3
can pay, get something back and leave the smallest balance behind, or less; a second
BuyExecution with a limit of 1 and a second asset meet every branch of the trader.
A weight of 3 leaves a surplus of up to 2, more than the 1 that a second purchase
buys and as much as it counts in the cache, which is the least with which more is
given back than was paid; rates change between messages.  Two assets of one
parachain are the least whose count goes up, down and to nothing while the other
moves, and a relay chain's is where the last may go; the run uses that the two are
symmetric.  Two assets with rates are the least that a message can buy weight in one
after the other (`Priced`; what the run shows is proved for all of them).
`MaxId` and `MaxValue` are the only bounds on growth: ids, the units of an asset that
come in, and those in accounts when a message is taken (a message may leave more of
them, as was said, and without that bound the next one still more).

In `wallet` two wallets are the least that overlap in initialisation, and a
third could only be made after the second is given up, as the second after the
first.  One balance on its way is enough for it to be late; several do not see
each other.  Deadlock is checked: the timer of the signer's version never stops.

The ledger's and the rounds' properties are safety properties: every call is
somebody's choice, so no fairness is assumed.  `MembershipMovesSeats` of the
collators is a liveness property.

### Disagreements found

* `staking_total_doc`: `decrease_bottom_delegation` (`types.rs:1095-1128`)
  changes an amount in the bottom list but stores the list with its old total.
  When the candidate leaves, `execute_leave_candidates` subtracts that total
  from `Total`, which is from then on less than "Total capital locked by this
  staking pallet" (`lib.rs:564`).  `Total` is the base of the round issuance.
  The error is in one direction only: `TotalIsNeverOverstated` holds.
* `rounds_short_doc`: one collator is paid per block and only for the round
  exactly `RewardPaymentDelay` ago.  `set_blocks_per_round` asks for a length of
  at least `TotalSelected`, but not of at least the number of collators still to
  be paid: when rounds are cut, some are never paid, although "payments are made
  once-per-block until all payments have been made" (`lib.rs:31-32`).  With
  lengths that only grow, `EveryAuthorIsPaid` holds (`rounds_payouts`).
* `manta_pay_unendowed`: the payout of `to_public` keeps the pallet's account
  alive, and `update_public_balances` expects it to succeed (`ftledger.rs:261`).
  If nobody has endowed that account with the existential deposit, the post that
  takes out the last private value passes all checks and then panics.  Tests and
  benchmarks endow the account (`test/payment.rs:331-335`,
  `benchmark/mod.rs:71-77`); nothing else under `src/` does.  With an endowment
  no payout fails: `PayoutsSucceed` holds in `manta_pay` and is proved.

Seen and not made a run of, each by reading the code a model was made from:

* The comment at `delegation_requests.rs:143-144` ("Net Total is always >=
  MinDelegatorStk") is not so once a revoke has been scheduled; the computation
  that relies on it saturates, so the effect is only that no decrease can be
  scheduled.
* The commission is taken of the whole issuance of a round, the rest is paid of what
  the reserve left of it.  `set_collator_commission` and
  `set_parachain_bond_reserve_percent` each accept up to the whole without a look at
  the other (`lib.rs:844`, `lib.rs:801`).  With 80 % and 30 %, the values of
  `rounds_payouts`, a collator with backers is paid its share of the commission, 80 %
  of the issuance, of a reward of 70 %: `saturating_sub` (`lib.rs:1649`) leaves
  nothing for the backers but does not take the excess back, so that more is minted
  than "the total inflation paid this round to stakers (e.g. less parachain bond
  fund)" (`types.rs:161`).  This is `PayoutIsWithinReward`, which TLC refutes under
  that cfg and which is proved for settings that stay within the whole;
  `PayoutIsWithinShare` says what bounds a payout in every case.
* A message whose first `BuyExecution` costs nothing and leaves no cache, and a second
  one for weight 1 in an asset with a rate: the cache has weight 2, a surplus of 2 is
  refunded for two units, where one was paid (`xcm.rs:236`), and nobody sent the
  other.  "In short, we only refund on the asset the trader first successfully was able
  to pay for an execution" (`xcm.rs:221-222`) speaks of what was paid.
  `NothingIsMade` bounds it by `Unpaid`; with nothing allowed, TLC refutes it in `xcm`.
* `DelegationBondLessDelay` is the "Number of rounds that delegation less requests
  must wait before executable" (`lib.rs:150-152`), but a decrease that is scheduled
  waits `RevokeDelegationDelay` (`delegation_requests.rs:152`); the pallet reads the
  other constant in benchmarks only.  The model waits as the code does.
* `senders_receivers_total`, "Total Number of Senders/Receivers in Ledger"
  (`types.rs:913`), adds up the indices of the last leaves (`impl_pay.rs:121`),
  which start at 0: it is one short per shard with a leaf.
* XCM: the trader's drop "Handles spent fees, depositing them" (`xcm.rs:274`), but
  fees paid in a second asset are in no cache and vanish.
* "WASM wallet doesn't allow you to call two methods at once"
  (`privateWalletContext.tsx:188-189`), but the SDK does not await the private
  transfer of an NFT (`sdk.ts:1003-1005`), so that it is reported as finalized when
  it has begun and runs beside the next call; and creating an NFT reads the
  wallet's address (`sdk.ts:744-816`), the gallery its balances, without waiting.
  `CallsAreAlone` exempts the first; the others are outside the model.
* `toPrivate` and `toPrivateNFT` set `walletIsBusy` and read the amount outside the
  `try` (`privateWalletContext.tsx:490-503`, `525-537`).  The NFT page does not
  check that there is one: pressing its button with an empty form leaves the flag
  set for good.  From then on there is no sync, and a private transaction waits for
  ever (`SendEmpty`, `flagIsLost`: the properties hold up to that point).
* Two initialisations that overlap: the interval of sync closes over the first
  wallet, since it depends on `isReady` only (lines 222-229), and the wallet in use
  is never synced while its balances count as fresh.  `FreshAfterSync` therefore
  speaks of the wallet that is synced.
* A sync that fails clears the stale flag, although `SendContext` (lines 423-424)
  waits for it so that balances are up to date; a reader that found the balances
  fresh and then waited for a transaction shows them as they were until it fetches
  again; an initialisation that fails leaves `isInitialSync` set; a public transfer
  that is never included leaves the form at processing.
* `createNFT` "Returns the Asset ID of the newly created NFT" (`sdk.ts:742-743`) but
  reads the next id before it signs: another registration in between makes it
  wrong, as it does for collections; and `utility.batch` goes on after an error.
* An account without collections never leaves `currentlyFetching` of the gallery
  (`nftContext.tsx`).
* The runtime sets the authorship `EventHandler` to nothing (`lib.rs:341`): no block
  is ever noted, so that on this chain collator-selection evicts nobody.
  `set_invulnerables` does not look at the candidates, so that an account can stand
  twice in the assembled vector (`collator-selection/src/lib.rs:346`).

## 3. Proofs

`ParachainStakingProofs` proves, for all sets of accounts, amounts, delays,
minima and list capacities allowed by the assumptions in `CandidateBook` and
`ParachainStaking`:

| theorem | says |
|---|---|
| `TypesAreKept` | `Spec => []TypeOK` |
| `RolesStayDisjoint` | `Spec => []RolesAreDisjoint` |
| `PoolStaysCurrent` | `Spec => []PoolIsCurrent` |
| `BooksStayInOrder` | `Spec => []IInv`, the invariant the others follow from |
| `LedgerStaysCoherent` | `Spec => [](IInv /\ Coherent)`, the invariant of the next seven |
| `LocksStayStakes` | `Spec => []LocksMatchStake` |
| `RequestsAreAlwaysValid` | `Spec => []RequestsStayValid` |
| `BondsAreAlwaysFound` | `Spec => []EveryBondIsFound` |
| `TopStaysGreatest` | `Spec => []TopIsGreatest` |
| `BooksAlwaysAgree` | `Spec => []BooksAgree` |
| `TotalIsAlwaysBacked` | `Spec => []TotalIsNeverOverstated` |
| `StakeIsOnlyTakenWithCause` | `Spec => StakeIsTakenWithCause` |
| `LocksAreAlwaysCovered` | `Spec => []LocksAreCovered`, of the proofs only: neither lock of an account exceeds its free balance |
| `LedgerIsImplemented` | `Spec => ImplementsLedger`, the refinement of `StakeLedger` |

`StakingRoundsProofs` adds, over rounds:

| theorem | says |
|---|---|
| `RoundsKeepLedger` | `RoundsSpec => Spec`: what is proved of the ledger holds over rounds |
| `PoolIsCurrentInRounds` | `RoundsSpec => []PoolIsCurrent`, which meets the selection's two expects |
| `SelectedKeepSnapshots` | `RoundsSpec => []SelectedHaveSnapshots` |
| `InflationStaysCurrent` | `RoundsSpec => []InflationIsCurrent`, whatever the conversion of rates computes and the genesis is given |
| `SnapshotsAlwaysAddUp` | `RoundsSpec => []SnapshotsAddUp` |
| `AuthorsAreAlwaysPaid` | `RoundsAreLong => (RoundsSpec => []EveryAuthorIsPaid)` |
| `PayoutsStayWithinShare` | `CandidatesHaveStake => (RoundsSpec => PayoutIsWithinShare)` |
| `PayoutsStayWithinReward` | `WholeSuffices /\ CandidatesHaveStake => (RoundsSpec => PayoutIsWithinReward)` |

`IInv` has four parts: `CandidatesInOrder` (every book is well typed and its
caches are those of its lists, `BookInv`; a pending decrease of the self bond is
at most the bond; the pool is that of the active candidates; no candidate is a
delegator), `DelegatorsInOrder`, `BalancesInOrder` and `CalendarInOrder`.

`TypeOK` is not inductive: popping a list whose cached capacity says it is full
is well typed only if the cache is right, so the caches must be in the
invariant; `counted` must be the self bond and the top total, for the pool
after a saturating subtraction to be what the metadata says; and since
`execute_bond_less` subtracts from bond and counted stake with saturation, the
two stay equal by the same amount only if the pending decrease is at most the
bond.  `CandidateBookProofs` proves, operator by operator, that books in order
lead to books in order; `ParachainStakingProofs` has one lemma per extrinsic.

`Coherent` relates the parts of the ledger to each other, again with one lemma
per extrinsic.  None of its parts is inductive alone:

* `BooksAreOrdered`: both lists of a book fall, nobody is listed twice, and the
  bottom list is empty unless the top one is full.  The calls that rebuild a list
  (`rm_bottom`, `bump_bottom`, `increase_top`...) find their entry by owner or by
  the cached amounts, which is only right if owners are unique; and the cached
  extremes are those of the lists only if they are sorted.
* `BooksListBonds`: the entries of a book are exactly the bonds on the candidate
  in the delegators' records (`Listed(c) = OnRecord(delegator, c)`).  This is
  what makes a bond findable, and needs the order: where the code decides by
  comparing an amount with the cached lowest top amount whether to look in the top
  or in the bottom list, ties at that amount would be lost if the lists were not
  in the order the cache was taken from.
* `DelegatorsAreSound`, `StakeIsLocked`: a delegator's total is the sum of its
  bonds and what is locked; every bond is positive, for which `StakesArePositive`
  is assumed: `execute_leave_candidates` takes a total of 0 to mean that no bond is
  left, and would remove a delegator with bonds of 0 elsewhere (the
  mock sets both minima above zero; the runtime of the repository does not include
  the pallet).
* `RequestsCanBeDone`, `PendingAddsUp`: a pending request fits the bond it is about,
  and the pending sum of a delegator (`lessTotal`) is that of its requests, so that
  a revoke can tell whether it is the last.
* `SelfBondIsLocked`, `SelfRequestsCanBeDone`: the same for candidates.

The calls are reduced to four ways a book and the records change together: one
backer's bond is rewritten (`Rewrites`), some lose theirs (`Loses`), some lose
theirs to a newcomer (`GivesWay`), nothing changes (`ChangesOnly`); the lemmas of
`CandidateBookProofs` say of every list operation which entries it adds, replaces
or drops.  `TotalIsAlwaysBacked` is an invariant beside: `Total` falls at least as
the locks do, and may be overtaken (`staking_total_doc`), but never the other way.
`StakeIsOnlyTakenWithCause` goes through the calls once more and finds for every
bond that is smaller or gone the request, the exit or the bid that caused it.

`LedgerIsImplemented` reads the books as the records of `StakeLedger` (`SelfStake`,
`ListedStake`).  Its invariant `Seen` says what the others mean there:

* `StakesAreOwn`: the entries of both lists of a candidate are the bonds of the
  delegators on it, by `BooksListBonds`, so that a step can be followed in the
  records alone, where it touches one delegator, and not in the lists, where it
  may move several entries.
* `RanksAreTop`: the pool has the self bond and the greatest sum that at most
  `MaxTop` of the stakes have.  `TopListIsTop` shows it of two sorted lists of
  which the second is used only when the first is full, by `GreatestSum`: no set
  has a greater sum than a set of the same size, or than all there is, whose
  members are at least as great as everything outside it.
* `StakesAreBalances`, from `LocksAreAlwaysCovered`: every amount is one that an
  account may have.  It takes the other invariants too: what is locked for a
  delegator falls with the bonds the call drops, and only the sum of the bonds
  left bounds each of them.
* `BooksHaveRoom`: nobody has more backers than both lists hold.

Then each call is the step of the abstract ledger it is meant to be, one lemma
each (`DelegateSeen`, `ExecuteRequestSeen`, `LeaveSeen`, `JoinSeen`,
`LeaveCandidatesSeen`, `SelfBondSeen`, `MetadataSeen`), and what moves entries,
caches or requests alone is a stutter; `StepImplements` puts them together.

`SelectedHaveSnapshots` needs that a payout, which takes snapshots, is never for
the present round (`SelectionInv`): a payout is prepared only for a round with
points, and points exist only for rounds up to the present one.  So it holds for
every `RewardPaymentDelay`, zero included.

`AuthorsAreAlwaysPaid` rests on `PaymentInv`: authors are awarded points only in
rounds whose payment is not over; the payout of the round whose turn it is, is
prepared if it has authors left; and those left are at most as many as the round
has blocks left (`PaidInTime`), as each block pays one.  `RoundsAreLong` (payments
are of earlier rounds, and no round is shorter than there are authors) is a
hypothesis and not an assumption of the model: the code compares a new length of
rounds only with the number selected at that moment, and the run
`rounds_short_doc` has a schedule where authors go unpaid.

`PayoutsStayWithinShare` is the arithmetic of a payout for every precision of
parts, every stake and every number of backers.  `ShareInv` is what it divides by:
every snapshot kept adds up, has a positive self bond and names each backer once
and never its collator (`Fair`); every payout prepared holds its commission
(`IsPayout`); governance has set what it may.  The collator and its backers divide
what the commission left of the reward, beside the commission: together the share
of the reward, or the share of the commission if that is more and nothing is left
to divide (`PayoutsAreBounded`).  A weight over the total is rounded
down, so that all weights together are at most the whole (`RationalIsBelow`,
`WeightsAddUp`); a part is rounded to the nearest, so that it is at most half a
unit more than what is due (`PartIsNearest`); over all payees that is half a unit
each (`Dividing`).  Its hypothesis: no candidate stands without stake of its own
(`CandidatesHaveStake`, as in the mock), for which the step lemmas follow the self
bond through every call (`StepKeepsSelfBonds`).  `PayoutsStayWithinReward` adds
that no commission and reserve that governance may set exceed the whole together
(`WholeSuffices`): then the commission is never the greater of the two.  The calls
check each by itself, and the disagreements above have what happens without it.

Sums are counts of units (`StorageMaps`), so that what the proof needs of them, that
they are additive, monotonic and proportional, is proved in `StorageMapsProofs`
without induction on data: `SumOfScaled` takes the least factor for which it would
fail.

`CollatorSelectionProofs` proves, for every set of accounts and all parameters:

| theorem | says |
|---|---|
| `SelectionTypeCorrect` | `Spec => []TypeOK` |
| `DepositsStayReserved` | `Spec => []DepositsAreReserved`, inductive with `TypeOK` |
| `PerformanceStaysOfThisSession` | `Spec => []PerformanceIsOfThisSession` |
| `SeatsStayCurrent` | `Spec => SeatsAreCurrent` |
| `EvictsByPercentile` | `Spec => EvictionIsByPercentile` |

The last is the algorithm against its definition.  A ranking is an injection
into a finite set of the same size, so it lists everybody once; the first `r` of
it are therefore `r` collators, which makes the count at the ordinal rank the
least that enough collators do not exceed (`RankIsPercentile`); whoever misses
the rounded threshold misses the exact one (`MissesThreshold`) and is ranked
below it (`WalkFindsThem`); and in the cases of the early returns nobody falls
short (`NobodyFallsShort`), so they only save work.

`MantaPayProofs` proves, for any finite set of notes with any worths, assets and
shards, any capacity and any accounts:

| theorem | says |
|---|---|
| `PayTypeCorrect` | `Spec => []TypeOK` |
| `SpentStaysInOrder` | `Spec => []SpentIsInOrder` |
| `ShardsAlwaysHoldUtxos` | `Spec => []ShardsHoldUtxos` |
| `UnspentStaysSpendable` | `Spec => []UnspentCanBeSpent` |
| `PoolAlwaysBacksNotes` | `Spec => []PoolBacksNotes` |
| `PayoutsAlwaysSucceed` | `Endowed => (Spec => []PayoutsSucceed)`, `Endowed` being the existential deposit in every asset |
| `LedgerImplementsPool` | `Spec => ImplementsPool` |
| `PullsStayBeginnings` | `SyncSpec => []PullsAreBeginnings` |
| `PagesSayWhatIsLeft` | `SyncSpec => ContinuesIffUnfinished` |

Its `IInv` adds two facts to the properties.  `RootsAreStored`: the root over all
leaves of a shard is accepted, of which `UnspentCanBeSpent` is a consequence but
which it does not imply (a shard may have no unspent note).  `SpentWereThere`:
what was spent and is worth something was on the ledger, without which a new
note might already be spent and would add to the pool nothing that is unspent.
`InsertKeeps` is about one leaf in one tree and leaves the capacity out, so that
it can be used twice for two receivers; `WrittenFacts` puts the two together;
`WorthOfExchange` is the arithmetic of a post, and from it come both the backing
of the notes and that a payout is never more than what backs its senders.
Sums of worths obey `SumOfParts` of `StorageMapsProofs`: sums are cardinalities,
so that their laws follow from those of finite sets without an induction.

For the pulls `SyncInv` adds to `IInv` that the wallet's trees and the page on its
way continue each other (`Continues`, `PageFits`): what was written meanwhile does
not change what was there (`shards` only grows at its ends), and a page that was
lost is asked for again from the same place.  That a page says truly whether
something is left is arithmetic over the shards: a page is greedy, so either it
took all that follows in every shard, or it is full, and then something is left
exactly if the shard it stopped at, or a later one, has more
(`UnfinishedShards`).  The sum over the shards before a shard is what
`Room` subtracts; the laws for it (`SumOfLess`, `SumOfTogether`, `SumOfBelow`)
are in `StorageMapsProofs`.

The refinement maps each call to the step of `PrivatePool` it is named after, on
the notes that are worth something; worthless ones are padding and may be spent
without ever having been there.

`XcmExecutionProofs` proves, for any locations, parachains, metadata, accounts,
prices and messages:

| theorem | says |
|---|---|
| `RegistryTypeCorrect` | `Spec => []TypeOK` |
| `RegistryStaysInAgreement` | `Spec => []RegistryAgrees` |
| `FungiblesStayKnown` | `Spec => []FungiblesExist` |
| `IdentifiersStayForEver` | `Spec => IdentifiersAreForEver` |
| `NothingIsEverMade` | `Spec => NothingIsMade` |

Locations must lead to ids and ids back to locations (`LocationsPointBack`, which
the run checks, and `IdsPointBack`, which it needs): only then is the number of
assets of a parachain the number of its locations, which is what the migration
counts, by a bijection between the two; and only then does a move remove the
location of no other asset.  Every call adds or removes one asset of one
parachain, and the count follows by the cardinality of a set with one element
more or less.  That the next id is new to every map (`IdsWereTaken`) makes
identifiers differ.  Messages touch the ledger only, and leave known what is known
(`LedgerStep`).

`NothingIsEverMade` needs `UnitsInv`: that the transactor, which goes by the names
a location has, and the trader, which goes by the registry, mean the same asset
(`NativeNames`); and that from the first purchase on, unless it was free, the fees
kept would pay for all the weight not yet refunded (`Covered` in `FeesStand`).
Each instruction is shown to move units between accounts, holding register and
fees without making any, with the sums of `StorageMapsProofs` for the many names
one asset may have.  A refund takes off the fees what it gives: parts never cost
more than the whole, as division rounds down (`PartsCostLess`, from `Quotient`), so
that the saturation of that subtraction is never met.  After a free purchase it
may be, and what comes on top is the price of the weight given back (`Bonus`), no
more than the message's (`LessCostsLess`).  No price, rate or limit is excluded.

`SendFormProofs` proves, for any number of wallets, assets and requests:

| theorem | says |
|---|---|
| `FormTypeCorrect` | `Spec => []FormTypeOK` |
| `CallsStayAlone` | `Spec => []CallsAreAlone` |
| `FreshOnlyAfterSync` | `Spec => []FreshAfterSync` |
| `BalancesStayOfSelection` | `Spec => []BalancesAreOfSelection` |

The flag is set exactly while one call that sets it runs, or for good
(`FlagIsTrue`); a wallet that is being initialised is known to nothing else, and
no other initialisation has it (`RestartsAreApart`, from the counter of wallets);
nothing is reported while a sync runs, because whoever reports has the flag
(`SyncsMissNothing`).

The assumptions are those on the constants: finite sets of accounts, notes and
locations, positive capacities, positive minima of a delegation and of a
delegator's total (`StakesArePositive`), natural numbers elsewhere; for the
registry also that the ids of an old chain fit below the bound on ids.

Only model-checked, as all liveness: `MembershipMovesSeats`, `EverythingIsPulled`
and `WalletMakesProgress`, which need fairness and ENABLED.  Every other property
of a passing run is a theorem.

## 4. Plan

1. done: the bonding ledger above.
2. done: `StakingRounds`, rounds, selection, snapshots, points and payouts.
3. done: `CollatorSelection`, the collator set over sessions, evictions against
   a reference definition.
4. done: `MantaPay`, an abstract private pool and the ledger that implements it;
   `LedgerSync`, the wallet that pulls it page by page.
5. done: `FungibleLedger`, `AssetManager`, `XcmExecution`, the registry and the
   messages that use it.
6. done: `PrivateWallet`, `SendForm`, the shared wallet and the form beside it.
7. done: proofs of every invariant and action property the runs check
   (`Coherent`, `PaymentInv`, `UnitsInv`, `SyncInv`) and of both refinements.
   What is left to TLC is liveness.

## 5. Not modelled

* Posts of NFTs and SBTs (`ledgers/nftledger.rs`): they share nullifiers, shards
  and roots with the fungible ones and differ in the public side, one transfer of
  an item.  Creating NFTs and showing them in the SDK and the front-end.
* tx-pause: no runtime of the repository includes it.
* The runtime's composition beyond the parameters the instances use: its call
  filter (`lib.rs:201-290`) and the adapters of authorship and sessions have no
  state of their own.
* The node: service wiring, command line and RPC around the Substrate client.
* `migrations.rs` of parachain-staking, which is commented out as a whole; weights,
  benchmarks, mocks and tests.
* `manta-pay`'s `types.rs` and `errors.rs`: conversions between the encodings of
  the ledger and of the proof system; the proof system and the signer themselves,
  which are not in the repository.
* Of XCM: the trader of the native currency, claims of trapped assets, `MinXcmFee`,
  converters of origins, messages that pay nothing.
* In the front-end: amounts and fees, the choice among accounts, a change of the
  socket, MetaMask, presentation.

These make up most of the lines no definition is mapped to: the larger part of the
repository configures, converts, measures or presents what the modelled part does.
