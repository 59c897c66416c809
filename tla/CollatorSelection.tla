-------------------------- MODULE CollatorSelection --------------------------
(***************************************************************************)
(* pallets/collator-selection: who authors blocks from which session on.   *)
(*                                                                         *)
(* Governance appoints invulnerables, anybody with session keys registers  *)
(* as a candidate against a deposit, every block counts for its author,    *)
(* and when a session ends the candidates far below the performance of     *)
(* their fellows are evicted before the set after next is assembled.       *)
(*                                                                         *)
(* Outside src/ and modelled from its use here: pallet_session, which asks *)
(* for the set that follows the one it starts and seats only members with  *)
(* registered keys, and the currency's reserves.  Free balances belong to  *)
(* the environment: a reserve may fail at any time, and the reward out of  *)
(* the pot, which nothing here reads, is left out.  The lists of accounts  *)
(* are sets, so an invulnerable that is also a candidate has one seat      *)
(* here and two in the vector of the code.                                 *)
(***************************************************************************)
EXTENDS StorageMaps, Sequences, SequencesExt

CONSTANTS
    Account,
    InitialInvulnerables, InitialBond, InitialDesired,   \* the genesis config
    InitialBaseline, InitialTolerance,
    InvulnerableChoices, BondChoices, DesiredChoices,    \* what governance sets
    BaselineChoices, ToleranceChoices,
    Rekeying,     \* accounts that set and purge their session keys
    MaxBlocks     \* bound: blocks counted for one author in one session

Percent == 0 .. 100

ASSUME SelectionConstants ==
    /\ IsFiniteSet(Account) /\ InitialInvulnerables \subseteq Account
    /\ InvulnerableChoices \subseteq SUBSET Account
    /\ InitialBond \in Nat /\ BondChoices \subseteq Nat
    /\ InitialDesired \in Nat /\ DesiredChoices \subseteq Nat
    /\ InitialBaseline \in Percent /\ BaselineChoices \subseteq Percent
    /\ InitialTolerance \in Percent /\ ToleranceChoices \subseteq Percent
    /\ Rekeying \subseteq Account
    /\ MaxBlocks \in Nat

VARIABLES
    invulnerables,     \* Invulnerables
    candidates,        \* Candidates: a set of CandidateInfo
    candidacyBond,     \* CandidacyBond
    desired,           \* DesiredCandidates
    baseline,          \* EvictionBaseline
    tolerance,         \* EvictionTolerance
    blocks,            \* BlocksPerCollatorThisSession: a storage map
    reserved,          \* what the currency holds of each account for this pallet
    keys,              \* pallet_session: the accounts with registered keys
    validators,        \* pallet_session: the set of the present session
    queued             \* pallet_session: the set of the next one

parameters == <<invulnerables, candidacyBond, desired, baseline, tolerance>>
session == <<validators, queued>>
vars == <<parameters, candidates, blocks, reserved, keys, session>>

CandidateInfo == [who : Account, deposit : Nat]
Members == {c.who : c \in candidates}

TypeOK ==
    /\ invulnerables \subseteq Account
    /\ candidates \subseteq CandidateInfo
    /\ candidacyBond \in Nat /\ desired \in Nat
    /\ baseline \in Percent /\ tolerance \in Percent
    /\ IsStorageMap(blocks, Account, Nat)
    /\ reserved \in [Account -> Nat]
    /\ keys \subseteq Account
    /\ validators \subseteq Account /\ queued \subseteq Account

\* the genesis sessions are assembled before there is anybody to count blocks for
Init ==
    /\ invulnerables = InitialInvulnerables
    /\ candidates = {}
    /\ candidacyBond = InitialBond /\ desired = InitialDesired
    /\ baseline = InitialBaseline /\ tolerance = InitialTolerance
    /\ blocks = NoEntries
    /\ reserved = [a \in Account |-> 0]
    /\ keys = InitialInvulnerables
    /\ validators = InitialInvulnerables /\ queued = InitialInvulnerables

-----------------------------------------------------------------------------
(* Candidates come and go *)

\* register_as_candidate by the account, register_candidate by governance
Register(who) ==
    /\ Cardinality(candidates) < desired
    /\ who \notin invulnerables
    /\ who \in keys
    /\ who \notin Members
    /\ candidates' = candidates \cup {[who |-> who, deposit |-> candidacyBond]}
    /\ reserved' = [reserved EXCEPT ![who] = @ + candidacyBond]
    /\ UNCHANGED <<parameters, blocks, keys, session>>

\* Mistake (DepositsAreReserved must notice): the present bond is given back
PresentBond(c) == candidacyBond

\* the deposit to give back, fixed when the candidate registered
Held(c) == c.deposit

Refunded(gone) ==
    [a \in Account |->
        IF \E c \in gone : c.who = a
        THEN Sub(reserved[a], Held(CHOOSE c \in gone : c.who = a)) ELSE reserved[a]]

\* try_remove_candidate
TryRemove(who) ==
    LET gone == {c \in candidates : c.who = who} IN
    /\ gone # {}
    /\ candidates' = candidates \ gone
    /\ reserved' = Refunded(gone)
    /\ UNCHANGED <<parameters, blocks, keys, session>>

LeaveIntent(who) == TryRemove(who)

RemoveCollator(who) == who \notin invulnerables /\ TryRemove(who)

-----------------------------------------------------------------------------
(* Governance *)

SetInvulnerables(new) ==
    /\ invulnerables' = new
    /\ UNCHANGED <<candidacyBond, desired, baseline, tolerance>>
    /\ UNCHANGED <<candidates, blocks, reserved, keys, session>>

SetCandidacyBond(bond) ==
    /\ candidacyBond' = bond
    /\ UNCHANGED <<invulnerables, desired, baseline, tolerance>>
    /\ UNCHANGED <<candidates, blocks, reserved, keys, session>>

SetDesiredCandidates(max) ==
    /\ desired' = max
    /\ UNCHANGED <<invulnerables, candidacyBond, baseline, tolerance>>
    /\ UNCHANGED <<candidates, blocks, reserved, keys, session>>

SetEvictionBaseline(percentile) ==
    /\ baseline' = percentile
    /\ UNCHANGED <<invulnerables, candidacyBond, desired, tolerance>>
    /\ UNCHANGED <<candidates, blocks, reserved, keys, session>>

SetEvictionTolerance(percentage) ==
    /\ tolerance' = percentage
    /\ UNCHANGED <<invulnerables, candidacyBond, desired, baseline>>
    /\ UNCHANGED <<candidates, blocks, reserved, keys, session>>

-----------------------------------------------------------------------------
(* Eviction *)

\* Percent::mul_ceil
MulCeil(percent, n) == (percent * n + 99) \div 100

\* what sort_unstable_by_key may make of the performance list
Rankings ==
    {order \in SetToSeqs(DOMAIN blocks) :
        \A i, j \in DOMAIN order : i < j => blocks[order[i]] <= blocks[order[j]]}

NothingToEvict ==
    \/ candidates = {}
    \/ baseline = 0
    \/ tolerance = 100
    \/ DOMAIN blocks = {}

\* Mistake (EvictionIsByPercentile must notice): the threshold is rounded down
EvictBelowFloor(atBaseline) == ((100 - tolerance) * atBaseline) \div 100

\* the count a collator must reach to stay
EvictBelow(atBaseline) == MulCeil(100 - tolerance, atBaseline)

\* evict_bad_collators: who is removed, for one ranking of the performance list
Underperformers(order) ==
    LET rank == MulCeil(baseline, Len(order))
        below == EvictBelow(blocks[order[rank]])
    IN  {order[i] : i \in {i \in 1 .. (rank - 1) : blocks[order[i]] < below}} \cap Members

Evictions == IF NothingToEvict THEN {{}} ELSE {Underperformers(order) : order \in Rankings}

-----------------------------------------------------------------------------
(* Sessions *)

\* Mistake (SeatsAreCurrent must notice): the list read before the evictions
AssembledBefore(evicted) == invulnerables \cup Members

\* Mistake (MembershipMovesSeats must notice): candidates are never elected
AssembledWithout(evicted) == invulnerables

\* assemble_collators, of the candidates read before and not evicted since
Assembled(evicted) == invulnerables \cup (Members \ evicted)

\* Mistake (PerformanceIsOfThisSession must notice): old entries are not cleared
ResetKeepingOld(active) ==
    [a \in active \cup DOMAIN blocks |-> IF a \in active THEN 0 ELSE blocks[a]]

\* reset_collator_performance
ResetPerformance(active) == [a \in active |-> 0]

\* pallet_session rotates: the queued set starts, and new_session names the next
NewSession ==
    /\ validators' = queued
    /\ \E evicted \in Evictions :
        LET gone == {c \in candidates : c.who \in evicted} IN
        /\ candidates' = candidates \ gone
        /\ reserved' = Refunded(gone)
        /\ queued' = Assembled(evicted) \cap keys
    /\ blocks' = ResetPerformance(queued)
    /\ UNCHANGED <<parameters, keys>>

\* a block of an eligible author
NoteAuthor(author) ==
    LET count == IF author \in DOMAIN blocks THEN blocks[author] ELSE 0 IN
    /\ author \in validators \cap keys
    /\ count < MaxBlocks
    /\ blocks' = Put(blocks, author, count + 1)
    /\ UNCHANGED <<parameters, candidates, reserved, keys, session>>

SetKeys(a) ==
    /\ keys' = keys \cup {a}
    /\ UNCHANGED <<parameters, candidates, blocks, reserved, session>>

PurgeKeys(a) ==
    /\ keys' = keys \ {a}
    /\ UNCHANGED <<parameters, candidates, blocks, reserved, session>>

-----------------------------------------------------------------------------
Call ==
    \/ \E who \in Account : Register(who) \/ LeaveIntent(who) \/ RemoveCollator(who)
    \/ \E who \in Rekeying : SetKeys(who) \/ PurgeKeys(who)

Governance ==
    \/ \E new \in InvulnerableChoices : SetInvulnerables(new)
    \/ \E bond \in BondChoices : SetCandidacyBond(bond)
    \/ \E max \in DesiredChoices : SetDesiredCandidates(max)
    \/ \E percentile \in BaselineChoices : SetEvictionBaseline(percentile)
    \/ \E percentage \in ToleranceChoices : SetEvictionTolerance(percentage)

Next == Call \/ Governance \/ NewSession \/ \E author \in Account : NoteAuthor(author)

Spec == Init /\ [][Next]_vars

\* sessions are a fixed number of blocks long, and blocks go on being made
FairSpec == Spec /\ WF_vars(NewSession)
=============================================================================
