----------------------------- MODULE StakeLedger -----------------------------
(***************************************************************************)
(* What the bonding ledger promises to those who stake, without lists,     *)
(* caches, requests or rounds: who stakes how much on whom, and the rank   *)
(* of each candidate offering to collate, which is its own bond plus the   *)
(* MaxTop greatest stakes on it.                                           *)
(***************************************************************************)
EXTENDS Naturals, FiniteSets, FiniteSetsExt, StorageMaps

CONSTANTS Account, Balance, MaxTop, MaxBacking

VARIABLES
    self,   \* own bond, by candidate
    stake,  \* stakes on each candidate, by delegator
    rank    \* by candidate offering to collate

vars == <<self, stake, rank>>

Restricted(f, S) == [x \in S |-> f[x]]

\* the greatest sum of at most MaxTop of the stakes
TopStake(stakes) ==
    Max({SumOf(Restricted(stakes, S)) :
            S \in {S \in SUBSET DOMAIN stakes : Cardinality(S) <= MaxTop}})

\* after the step, the candidates of `offering` are ranked by what is then staked
Rank(offering) ==
    /\ DOMAIN rank' = offering
    /\ \A c \in offering : rank'[c] = self'[c] + TopStake(stake'[c])

Init == self = NoEntries /\ stake = NoEntries /\ rank = NoEntries

-----------------------------------------------------------------------------
Enter(c, amount) ==
    /\ c \notin DOMAIN self
    /\ self' = Put(self, c, amount)
    /\ stake' = Put(stake, c, NoEntries)
    /\ Rank(DOMAIN rank \cup {c})

\* stop or resume offering to collate; what is staked stays
StopOffering(c) == c \in DOMAIN rank /\ Rank(DOMAIN rank \ {c})

Resume(c) == c \notin DOMAIN rank /\ Rank(DOMAIN rank \cup {c})

\* only a candidate that stopped offering leaves, and everyone gets their stake back
Exit(c) ==
    /\ c \in DOMAIN self \ DOMAIN rank
    /\ self' = Drop(self, c)
    /\ stake' = Drop(stake, c)
    /\ UNCHANGED rank

Rebond(c, amount) ==
    /\ self' = [self EXCEPT ![c] = amount]
    /\ Rank(DOMAIN rank)

Stake(d, c, amount) ==
    /\ d \notin DOMAIN stake[c]
    /\ Cardinality(DOMAIN stake[c]) < MaxBacking
    /\ stake' = [stake EXCEPT ![c] = Put(@, d, amount)]
    /\ Rank(DOMAIN rank)

\* with no room left, one of the least stakes gives way to a greater one
Outbid(d, c, amount) ==
    /\ d \notin DOMAIN stake[c]
    /\ Cardinality(DOMAIN stake[c]) = MaxBacking
    /\ \E k \in DOMAIN stake[c] :
        /\ amount > stake[c][k]
        /\ \A x \in DOMAIN stake[c] : stake[c][x] >= stake[c][k]
        /\ stake' = [stake EXCEPT ![c] = Put(Drop(@, k), d, amount)]
    /\ Rank(DOMAIN rank)

Restake(d, c, amount) ==
    /\ d \in DOMAIN stake[c]
    /\ stake' = [stake EXCEPT ![c] = Put(@, d, amount)]
    /\ Rank(DOMAIN rank)

\* a delegator takes back its stake on some candidates at once
Unstake(d, C) ==
    /\ \A c \in C : d \in DOMAIN stake[c]
    /\ stake' = [c \in DOMAIN stake |-> IF c \in C THEN Drop(stake[c], d) ELSE stake[c]]
    /\ Rank(DOMAIN rank)

\* the candidates whose own bond a step changes, and those on whom it changes the stakes
Rebonded == {c \in DOMAIN self \cap DOMAIN self' : self'[c] # self[c]}
Restaked == {c \in DOMAIN stake \cap DOMAIN stake' : stake'[c] # stake[c]}

Next ==
    \/ /\ UNCHANGED <<self, stake>>
       /\ \E c \in DOMAIN self : StopOffering(c) \/ Resume(c)
    \/ \E c \in DOMAIN self \ DOMAIN self' : Exit(c)
    \/ \E c \in DOMAIN self' \ DOMAIN self, amount \in Balance : Enter(c, amount)
    \/ /\ \E c \in Rebonded, amount \in Balance : Rebond(c, amount)
       /\ UNCHANGED stake
    \/ /\ UNCHANGED self
       /\ Restaked # {}
       /\ \/ \E d \in Account : Unstake(d, Restaked)
          \/ \E c \in Restaked, d \in Account, amount \in Balance :
                Stake(d, c, amount) \/ Outbid(d, c, amount) \/ Restake(d, c, amount)

Spec == Init /\ [][Next]_vars
=============================================================================
