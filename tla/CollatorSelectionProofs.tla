----------------------- MODULE CollatorSelectionProofs -----------------------
(***************************************************************************)
(* Deposits, seats and evictions, for every set of accounts and every      *)
(* choice of the parameters.                                               *)
(***************************************************************************)
EXTENDS CollatorSelectionProperties, FiniteSetTheorems, TLAPS

(***************************************************************************)
(* Facts about the operators                                               *)
(***************************************************************************)

\* A refund leaves a balance, and touches only those who left.
LEMMA RefundedType ==
    ASSUME TypeOK, NEW gone \in SUBSET candidates
    PROVE  /\ Refunded(gone) \in [Account -> Nat]
           /\ \A a \in Account \ {c.who : c \in gone} : Refunded(gone)[a] = reserved[a]
<1>1. ASSUME NEW m \in Nat, NEW n PROVE Sub(m, n) \in Nat
  BY <1>1 DEF Sub
<1>2. \A a \in Account : reserved[a] \in Nat
  BY DEF TypeOK
<1>3. Refunded(gone) \in [Account -> Nat]
  BY <1>1, <1>2 DEF Refunded
<1>4. ASSUME NEW a \in Account \ {c.who : c \in gone} PROVE Refunded(gone)[a] = reserved[a]
  BY <1>4 DEF Refunded
<1> QED BY <1>3, <1>4

\* Every block counted leaves a performance map.
LEMMA CountedType ==
    ASSUME TypeOK, NEW a \in Account, NEW n \in Nat
    PROVE  /\ IsStorageMap(Put(blocks, a, n), Account, Nat)
           /\ DOMAIN Put(blocks, a, n) = DOMAIN blocks \cup {a}
BY DEF TypeOK, IsStorageMap, Put

(***************************************************************************)
(* Type correctness                                                        *)
(***************************************************************************)

LEMMA InitType == Init => TypeOK
BY SelectionConstants DEF Init, TypeOK, IsStorageMap, NoEntries

LEMMA RegisterType == ASSUME TypeOK, NEW who \in Account, Register(who) PROVE TypeOK'
<1>1. candidates' \subseteq CandidateInfo /\ reserved' \in [Account -> Nat]
  BY DEF Register, TypeOK, CandidateInfo
<1> QED BY <1>1 DEF Register, TypeOK, parameters, session

LEMMA TryRemoveType == ASSUME TypeOK, NEW who, TryRemove(who) PROVE TypeOK'
<1>1. candidates' \subseteq candidates /\ reserved' \in [Account -> Nat]
  BY RefundedType DEF TryRemove
<1> QED BY <1>1 DEF TryRemove, TypeOK, parameters, session

LEMMA NewSessionType == ASSUME TypeOK, NewSession PROVE TypeOK'
<1>1. PICK evicted \in Evictions :
        LET gone == {c \in candidates : c.who \in evicted} IN
        /\ candidates' = candidates \ gone
        /\ reserved' = Refunded(gone)
        /\ queued' = Assembled(evicted) \cap keys
  BY DEF NewSession
<1>2. candidates' \subseteq candidates /\ reserved' \in [Account -> Nat]
  BY <1>1, RefundedType
<1>3. validators' \subseteq Account /\ queued' \subseteq Account
  BY <1>1 DEF NewSession, TypeOK
<1>4. IsStorageMap(blocks', Account, Nat)
  BY DEF NewSession, ResetPerformance, TypeOK, IsStorageMap
<1> QED BY <1>2, <1>3, <1>4 DEF NewSession, TypeOK, parameters

LEMMA NoteAuthorType == ASSUME TypeOK, NEW a \in Account, NoteAuthor(a) PROVE TypeOK'
<1>1. (IF a \in DOMAIN blocks THEN blocks[a] ELSE 0) + 1 \in Nat
  BY DEF TypeOK, IsStorageMap
<1>2. IsStorageMap(blocks', Account, Nat)
  BY <1>1, CountedType DEF NoteAuthor
<1> QED BY <1>2 DEF NoteAuthor, TypeOK, parameters, session

LEMMA SettingsType ==
    ASSUME TypeOK, Governance \/ \E a \in Rekeying : SetKeys(a) \/ PurgeKeys(a)
    PROVE  TypeOK'
<1>1. CASE \E new \in InvulnerableChoices : SetInvulnerables(new)
  BY <1>1, SelectionConstants DEF SetInvulnerables, TypeOK, session
<1>2. CASE \E bond \in BondChoices : SetCandidacyBond(bond)
  BY <1>2, SelectionConstants DEF SetCandidacyBond, TypeOK, session
<1>3. CASE \E max \in DesiredChoices : SetDesiredCandidates(max)
  BY <1>3, SelectionConstants DEF SetDesiredCandidates, TypeOK, session
<1>4. CASE \E percentile \in BaselineChoices : SetEvictionBaseline(percentile)
  BY <1>4, SelectionConstants DEF SetEvictionBaseline, TypeOK, session
<1>5. CASE \E percentage \in ToleranceChoices : SetEvictionTolerance(percentage)
  BY <1>5, SelectionConstants DEF SetEvictionTolerance, TypeOK, session
<1>6. CASE \E a \in Rekeying : SetKeys(a) \/ PurgeKeys(a)
  BY <1>6, SelectionConstants DEF SetKeys, PurgeKeys, TypeOK, parameters, session
<1> QED BY <1>1, <1>2, <1>3, <1>4, <1>5, <1>6 DEF Governance

LEMMA NextType == TypeOK /\ [Next]_vars => TypeOK'
<1> SUFFICES ASSUME TypeOK, [Next]_vars PROVE TypeOK'
  OBVIOUS
<1>1. ASSUME NEW who \in Account, Register(who) \/ LeaveIntent(who) \/ RemoveCollator(who)
      PROVE  TypeOK'
  BY <1>1, RegisterType, TryRemoveType DEF LeaveIntent, RemoveCollator
<1>2. CASE UNCHANGED vars
  BY <1>2 DEF vars, parameters, session, TypeOK
<1> QED BY <1>1, <1>2, SettingsType, NewSessionType, NoteAuthorType DEF Next, Call

\* Every state of the selection is one of its storage's types.
THEOREM SelectionTypeCorrect == Spec => []TypeOK
BY InitType, NextType, PTL DEF Spec
-----------------------------------------------------------------------------
(***************************************************************************)
(* Deposits.  The property is inductive as it stands: a candidate's        *)
(* balance in reserve is its deposit, so that what a refund takes back     *)
(* leaves nothing, and who registers had nothing in reserve.               *)
(***************************************************************************)
LEMMA RegisterKeepsDeposits ==
    ASSUME TypeOK, DepositsAreReserved, NEW who \in Account, Register(who)
    PROVE  DepositsAreReserved'
<1> DEFINE new == [who |-> who, deposit |-> candidacyBond]
<1>1. candidates' = candidates \cup {new} /\ who \notin Members
  BY DEF Register
<1>2. reserved' = [reserved EXCEPT ![who] = @ + candidacyBond] /\ reserved[who] = 0
  BY DEF Register, DepositsAreReserved
<1>3. reserved'[who] = new.deposit
  BY <1>2 DEF TypeOK
<1>4. \A a \in Account : a # who => reserved'[a] = reserved[a]
  BY <1>2 DEF TypeOK
<1>5. \A c \in candidates : c.who \in Account /\ c.who # who
  BY <1>1 DEF Members, TypeOK, CandidateInfo
<1>6. \A c, d \in candidates' : c.who = d.who => c = d
  BY <1>1, <1>5 DEF DepositsAreReserved
<1>7. \A c \in candidates' : reserved'[c.who] = c.deposit
  BY <1>1, <1>3, <1>4, <1>5 DEF DepositsAreReserved
<1>8. Members \subseteq Members' /\ who \in Members'
  <2>1. new \in candidates' /\ new.who = who
    BY <1>1
  <2> QED BY <1>1, <2>1 DEF Members
<1>9. \A a \in Account \ Members' : reserved'[a] = 0
  BY <1>4, <1>8 DEF DepositsAreReserved
<1> QED BY <1>6, <1>7, <1>9 DEF DepositsAreReserved

LEMMA RemovalKeepsDeposits ==
    ASSUME TypeOK, DepositsAreReserved, NEW S,
           candidates' = candidates \ {c \in candidates : c.who \in S},
           reserved' = Refunded({c \in candidates : c.who \in S})
    PROVE  DepositsAreReserved'
<1> DEFINE gone == {c \in candidates : c.who \in S}
<1>1. \A a \in Account \ {c.who : c \in gone} : reserved'[a] = reserved[a]
  BY RefundedType
<1>2. ASSUME NEW d \in gone PROVE d.who \in Account /\ reserved'[d.who] = 0
  <2>1. d.who \in Account /\ d.deposit \in Nat
    BY DEF TypeOK, CandidateInfo
  <2>2. \A c \in gone : c.who = d.who => c = d
    BY DEF DepositsAreReserved
  <2>3. (CHOOSE c \in gone : c.who = d.who) = d
    BY <2>2
  <2>4. reserved'[d.who] = Sub(reserved[d.who], d.deposit)
    BY <2>1, <2>3 DEF Refunded, Held
  <2>5. reserved[d.who] = d.deposit
    BY DEF DepositsAreReserved
  <2> QED BY <2>1, <2>4, <2>5 DEF Sub
<1>3. \A c \in candidates' : c \in candidates /\ c.who \in Account /\ c.who \notin S
  BY DEF TypeOK, CandidateInfo
<1>4. \A c \in candidates' : reserved'[c.who] = c.deposit
  BY <1>1, <1>3 DEF DepositsAreReserved
<1>5. ASSUME NEW a \in Account \ Members' PROVE reserved'[a] = 0
  <2>1. CASE \E d \in gone : d.who = a
    BY <2>1, <1>2
  <2>2. CASE ~ \E d \in gone : d.who = a
    <3>1. a \notin Members
      BY <2>2, <1>5 DEF Members
    <3> QED BY <3>1, <2>2, <1>1 DEF DepositsAreReserved
  <2> QED BY <2>1, <2>2
<1> QED BY <1>3, <1>4, <1>5 DEF DepositsAreReserved

LEMMA NextKeepsDeposits == TypeOK /\ DepositsAreReserved /\ [Next]_vars => DepositsAreReserved'
<1> SUFFICES ASSUME TypeOK, DepositsAreReserved, [Next]_vars PROVE DepositsAreReserved'
  OBVIOUS
<1>1. CASE candidates' = candidates /\ reserved' = reserved
  BY <1>1 DEF DepositsAreReserved, Members
<1>2. ASSUME NEW who, TryRemove(who) PROVE DepositsAreReserved'
  <2>1. {c \in candidates : c.who = who} = {c \in candidates : c.who \in {who}}
    OBVIOUS
  <2> QED BY <1>2, <2>1, RemovalKeepsDeposits DEF TryRemove
<1>3. CASE NewSession
  BY <1>3, RemovalKeepsDeposits DEF NewSession
<1>4. ASSUME NEW who \in Account, Register(who) \/ LeaveIntent(who) \/ RemoveCollator(who)
      PROVE  DepositsAreReserved'
  BY <1>4, <1>2, RegisterKeepsDeposits DEF LeaveIntent, RemoveCollator
<1>5. CASE \E who \in Rekeying : SetKeys(who) \/ PurgeKeys(who)
  BY <1>5, <1>1 DEF SetKeys, PurgeKeys
<1>6. CASE Governance
  BY <1>6, <1>1 DEF Governance, SetInvulnerables, SetCandidacyBond, SetDesiredCandidates,
                    SetEvictionBaseline, SetEvictionTolerance
<1>7. CASE \E author \in Account : NoteAuthor(author)
  BY <1>7, <1>1 DEF NoteAuthor
<1>8. CASE UNCHANGED vars
  BY <1>8, <1>1 DEF vars
<1> QED BY <1>3, <1>4, <1>5, <1>6, <1>7, <1>8 DEF Next, Call

\* The reserve of an account is the deposit it registered with, and is given
\* back in full by whichever call or eviction ends the candidacy.
THEOREM DepositsStayReserved == Spec => []DepositsAreReserved
<1>1. Init => DepositsAreReserved
  BY DEF Init, DepositsAreReserved, Members
<1> QED BY <1>1, NextKeepsDeposits, SelectionTypeCorrect, PTL DEF Spec

-----------------------------------------------------------------------------
(***************************************************************************)
(* Sessions                                                                *)
(***************************************************************************)

LEMMA NextKeepsPerformance ==
    TypeOK /\ PerformanceIsOfThisSession /\ [Next]_vars => PerformanceIsOfThisSession'
<1> SUFFICES ASSUME TypeOK, PerformanceIsOfThisSession, [Next]_vars
             PROVE  PerformanceIsOfThisSession'
  OBVIOUS
<1>1. CASE blocks' = blocks /\ validators' = validators
  BY <1>1 DEF PerformanceIsOfThisSession
<1>2. ASSUME NEW who \in Account, Register(who) \/ LeaveIntent(who) \/ RemoveCollator(who)
      PROVE  PerformanceIsOfThisSession'
  BY <1>1, <1>2 DEF Register, LeaveIntent, RemoveCollator, TryRemove, session
<1>3. CASE NewSession
  BY <1>3 DEF NewSession, ResetPerformance, PerformanceIsOfThisSession
<1>4. ASSUME NEW a \in Account, NoteAuthor(a) PROVE PerformanceIsOfThisSession'
  BY <1>4 DEF NoteAuthor, Put, session, PerformanceIsOfThisSession
<1>5. CASE \E who \in Rekeying : SetKeys(who) \/ PurgeKeys(who)
  BY <1>5, <1>1 DEF SetKeys, PurgeKeys, session
<1>6. CASE Governance
  BY <1>6, <1>1 DEF Governance, SetInvulnerables, SetCandidacyBond, SetDesiredCandidates,
                    SetEvictionBaseline, SetEvictionTolerance, session
<1>7. CASE UNCHANGED vars
  BY <1>7, <1>1 DEF vars, session
<1> QED BY <1>2, <1>3, <1>4, <1>5, <1>6, <1>7 DEF Next, Call

\* No collator is ever judged by a session it had no part in.
THEOREM PerformanceStaysOfThisSession == Spec => []PerformanceIsOfThisSession
<1>1. Init => PerformanceIsOfThisSession
  BY DEF Init, PerformanceIsOfThisSession, NoEntries
<1> QED BY <1>1, NextKeepsPerformance, SelectionTypeCorrect, PTL DEF Spec

\* The members that are left, seen from the set of those that went.
LEMMA MembersAfter ==
    ASSUME NEW S, candidates' = candidates \ {c \in candidates : c.who \in S}
    PROVE  {c.who : c \in candidates'} = Members \ S
BY DEF Members

\* Seats are handed out after the evictions, to those that are left.
THEOREM SeatsStayCurrent == Spec => SeatsAreCurrent
<1>1. NewSession => queued' = (invulnerables \cup {c.who : c \in candidates'}) \cap keys
  BY MembersAfter DEF NewSession, Assembled
<1> QED BY <1>1, PTL DEF Spec, SeatsAreCurrent
-----------------------------------------------------------------------------
(***************************************************************************)
(* Eviction.  The collator at the ordinal rank of any ranking has produced *)
(* the nearest-rank percentile; those ranked below it that miss the        *)
(* rounded threshold are those that fall short of it.                      *)
(***************************************************************************)

\* A ranking lists every collator of the performance map once, in order.
LEMMA RankingFacts ==
    ASSUME IsFiniteSet(DOMAIN blocks), NEW order \in Rankings
    PROVE  LET n == Cardinality(DOMAIN blocks) IN
           /\ n \in Nat /\ order \in [1 .. n -> DOMAIN blocks] /\ Len(order) = n
           /\ \A i, j \in 1 .. n : order[i] = order[j] => i = j
           /\ \A i, j \in 1 .. n : i < j => blocks[order[i]] <= blocks[order[j]]
           /\ \A a \in DOMAIN blocks : \E i \in 1 .. n : order[i] = a
<1> DEFINE n == Cardinality(DOMAIN blocks)
<1>1. n \in Nat
  BY FS_CardinalityType
<1>2. order \in [1 .. n -> DOMAIN blocks] /\ DOMAIN order = 1 .. n
  BY DEF Rankings, SetToSeqs
<1>3. \A i, j \in 1 .. n : order[i] = order[j] => i = j
  BY DEF Rankings, SetToSeqs
<1>4. Len(order) = n
  BY <1>1, <1>2
<1>5. \A i, j \in 1 .. n : i < j => blocks[order[i]] <= blocks[order[j]]
  BY <1>2 DEF Rankings
<1>6. order \in Injection(1 .. n, DOMAIN blocks)
  BY <1>2, <1>3 DEF Injection, IsInjective
<1>7. Cardinality(1 .. n) = n
  BY <1>1, FS_Interval
<1>8. order \in Surjection(1 .. n, DOMAIN blocks)
  BY <1>6, <1>7, FS_Injection
<1> QED BY <1>1, <1>2, <1>3, <1>4, <1>5, <1>8 DEF Surjection

\* What mul_ceil of a positive percentage of n entries is, without division.
LEMMA RankBounds ==
    ASSUME NEW p \in 1 .. 100, NEW n \in Nat \ {0}
    PROVE  /\ p * n \in Nat
           /\ MulCeil(p, n) \in 1 .. n
           /\ 100 * MulCeil(p, n) >= p * n
           /\ 100 * (MulCeil(p, n) - 1) < p * n
<1> DEFINE k == p * n
<1>1. k \in Nat /\ k >= 1 /\ k <= 100 * n
  OBVIOUS
<1>2. MulCeil(p, n) = (k + 99) \div 100
  BY DEF MulCeil
<1> HIDE DEF k
<1>3. /\ (k + 99) \div 100 \in 1 .. n
      /\ 100 * ((k + 99) \div 100) >= k
      /\ 100 * ((k + 99) \div 100 - 1) < k
  BY <1>1
<1> QED BY <1>1, <1>2, <1>3 DEF k

\* The first r collators of a ranking are r collators.
LEMMA FirstOfRanking ==
    ASSUME IsFiniteSet(DOMAIN blocks), NEW order \in Rankings,
           NEW r \in 0 .. Cardinality(DOMAIN blocks)
    PROVE  LET first == {order[i] : i \in 1 .. r} IN
           IsFiniteSet(first) /\ Cardinality(first) = r
<1> DEFINE n == Cardinality(DOMAIN blocks)
           first == {order[i] : i \in 1 .. r}
           prefix == [i \in 1 .. r |-> order[i]]
<1>1. n \in Nat /\ order \in [1 .. n -> DOMAIN blocks]
      /\ \A i, j \in 1 .. n : order[i] = order[j] => i = j
  BY RankingFacts
<1>2. first \subseteq DOMAIN blocks /\ IsFiniteSet(first)
  BY <1>1, FS_Subset
<1>3. prefix \in [1 .. r -> first]
  OBVIOUS
<1>4. \A i, j \in 1 .. r : prefix[i] = prefix[j] => i = j
  BY <1>1
<1>5. prefix \in Injection(1 .. r, first)
  BY <1>3, <1>4 DEF Injection, IsInjective
<1>6. prefix \in Surjection(1 .. r, first)
  BY <1>3 DEF Surjection
<1>7. Cardinality(1 .. r) = r
  BY FS_Interval
<1> QED BY <1>2, <1>5, <1>6, <1>7, FS_Injection

\* The percentile is unique.
LEMMA OnePercentile ==
    ASSUME blocks \in [DOMAIN blocks -> Nat], NEW v, IsPercentile(v), NEW w, IsPercentile(w)
    PROVE  v = w
<1>1. v \in Nat /\ w \in Nat
  BY DEF IsPercentile
<1>2. v <= w /\ w <= v
  BY DEF IsPercentile
<1> QED BY <1>1, <1>2

\* The collator at the ordinal rank has produced the nearest-rank percentile.
LEMMA RankIsPercentile ==
    ASSUME IsFiniteSet(DOMAIN blocks), blocks \in [DOMAIN blocks -> Nat],
           DOMAIN blocks # {}, baseline \in 1 .. 100, NEW order \in Rankings
    PROVE  IsPercentile(blocks[order[MulCeil(baseline, Len(order))]])
<1> DEFINE n == Cardinality(DOMAIN blocks)
           rank == MulCeil(baseline, Len(order))
           v == blocks[order[rank]]
           atMost(u) == {a \in DOMAIN blocks : blocks[a] <= u}
           counts == {blocks[a] : a \in DOMAIN blocks}
           k == baseline * n
<1>1. /\ n \in Nat /\ order \in [1 .. n -> DOMAIN blocks] /\ Len(order) = n
      /\ \A i, j \in 1 .. n : i < j => blocks[order[i]] <= blocks[order[j]]
      /\ \A a \in DOMAIN blocks : \E i \in 1 .. n : order[i] = a
  BY RankingFacts
<1>2. n \in Nat \ {0}
  BY <1>1, FS_EmptySet
<1>3. /\ k \in Nat /\ rank \in 1 .. n
      /\ 100 * rank >= k /\ 100 * (rank - 1) < k
  BY <1>1, <1>2, RankBounds
<1>4. v \in counts /\ v \in Nat
  BY <1>1, <1>3
<1>5. ASSUME NEW u PROVE atMost(u) \subseteq DOMAIN blocks /\ IsFiniteSet(atMost(u))
                         /\ Cardinality(atMost(u)) \in Nat
  BY FS_Subset, FS_CardinalityType
<1> HIDE DEF rank
<1>6. Cardinality(atMost(v)) >= rank
  <2> DEFINE first == {order[i] : i \in 1 .. rank}
  <2>1. \A i \in 1 .. rank : order[i] \in DOMAIN blocks /\ blocks[order[i]] <= v
    BY <1>1, <1>3
  <2>2. first \subseteq atMost(v)
    BY <2>1
  <2>3. Cardinality(first) = rank
    <3>1. rank \in 0 .. n
      BY <1>1, <1>3
    <3> QED BY <3>1, FirstOfRanking
  <2> QED BY <2>2, <2>3, <1>5, FS_Subset
<1> HIDE DEF k
<1>7. 100 * Cardinality(atMost(v)) >= k
  <2>1. Cardinality(atMost(v)) \in Nat
    BY <1>5
  <2> HIDE DEF atMost
  <2> QED BY <2>1, <1>2, <1>3, <1>6
<1>8. ASSUME NEW u \in counts, 100 * Cardinality(atMost(u)) >= k PROVE v <= u
  <2> SUFFICES ASSUME u < v PROVE FALSE
    BY <1>4
  <2> DEFINE first == {order[i] : i \in 1 .. (rank - 1)}
  <2>1. ASSUME NEW i \in 1 .. n, blocks[order[i]] <= u PROVE i < rank
    <3>1. blocks[order[i]] \in Nat /\ u \in Nat
      BY <1>1
    <3>2. rank < i \/ rank = i => v <= blocks[order[i]]
      BY <1>1, <1>3, <1>4
    <3> QED BY <3>1, <3>2, <2>1, <1>1, <1>3, <1>4
  <2>2. atMost(u) \subseteq first
    BY <1>1, <1>3, <2>1
  <2>3. IsFiniteSet(first) /\ Cardinality(first) = rank - 1
    <3>1. rank - 1 \in 0 .. n
      BY <1>1, <1>3
    <3> QED BY <3>1, FirstOfRanking
  <2>4. Cardinality(atMost(u)) <= rank - 1
    BY <2>2, <2>3, FS_Subset
  <2>5. Cardinality(atMost(u)) \in Nat
    BY <1>5
  <2> HIDE DEF atMost
  <2> QED BY <2>4, <2>5, <1>2, <1>3, <1>8
<1> QED BY <1>4, <1>7, <1>8 DEF IsPercentile, rank, k

\* Rounding the threshold up does not change who misses it.
LEMMA MissesThreshold ==
    ASSUME NEW b \in Nat, NEW v \in Nat, tolerance \in Percent
    PROVE  /\ (100 - tolerance) * v \in Nat /\ (100 - tolerance) * v <= 100 * v
           /\ b < EvictBelow(v) <=> 100 * b < (100 - tolerance) * v
<1> DEFINE x == (100 - tolerance) * v
<1>1. x \in Nat /\ x <= 100 * v
  BY DEF Percent
<1>2. EvictBelow(v) = (x + 99) \div 100
  BY DEF EvictBelow, MulCeil
<1> HIDE DEF x
<1>3. b < (x + 99) \div 100 <=> 100 * b < x
  BY <1>1
<1> QED BY <1>1, <1>2, <1>3 DEF x

\* With a percentile to judge by, the walk finds those that fall short of it.
LEMMA WalkFindsThem ==
    ASSUME TypeOK, IsFiniteSet(DOMAIN blocks), DOMAIN blocks # {}, baseline # 0,
           NEW order \in Rankings
    PROVE  Underperformers(order) = {a \in Members : FallsShort(a)}
<1> DEFINE n == Cardinality(DOMAIN blocks)
           rank == MulCeil(baseline, Len(order))
           v == blocks[order[rank]]
<1>1. blocks \in [DOMAIN blocks -> Nat] /\ baseline \in 1 .. 100 /\ tolerance \in Percent
  BY DEF TypeOK, IsStorageMap, Percent
<1>2. /\ n \in Nat /\ order \in [1 .. n -> DOMAIN blocks] /\ Len(order) = n
      /\ \A i, j \in 1 .. n : i < j => blocks[order[i]] <= blocks[order[j]]
      /\ \A a \in DOMAIN blocks : \E i \in 1 .. n : order[i] = a
  BY RankingFacts
<1>3. rank \in 1 .. n
  BY <1>1, <1>2, RankBounds, FS_EmptySet
<1>4. v \in Nat /\ v \in {blocks[b] : b \in DOMAIN blocks}
  BY <1>1, <1>2, <1>3
<1>5. IsPercentile(v)
  BY <1>1, RankIsPercentile
<1>6. \A a \in DOMAIN blocks :
        FallsShort(a) <=> 100 * blocks[a] < (100 - tolerance) * v
  BY <1>1, <1>4, <1>5, OnePercentile DEF FallsShort
<1>7. \A a \in DOMAIN blocks : FallsShort(a) <=> blocks[a] < EvictBelow(v)
  BY <1>1, <1>4, <1>6, MissesThreshold
<1>8. ASSUME NEW a \in DOMAIN blocks, FallsShort(a) PROVE blocks[a] < v
  <2> DEFINE x == (100 - tolerance) * v
  <2>1. blocks[a] \in Nat
    BY <1>1
  <2>2. x \in Nat /\ x <= 100 * v /\ 100 * blocks[a] < x
    BY <1>1, <1>4, <1>6, <1>8, <2>1, MissesThreshold
  <2> HIDE DEF x
  <2> QED BY <2>1, <2>2, <1>4
<1> HIDE DEF rank
<1>9. ASSUME NEW i \in 1 .. n, FallsShort(order[i]) PROVE i \in 1 .. (rank - 1)
  <2>1. blocks[order[i]] < v /\ blocks[order[i]] \in Nat
    BY <1>1, <1>2, <1>8, <1>9
  <2> QED BY <1>2, <1>3, <1>4, <2>1
<1>10. \A a : FallsShort(a) => a \in DOMAIN blocks
  BY DEF FallsShort
<1>11. Underperformers(order) =
         {order[i] : i \in {i \in 1 .. (rank - 1) : blocks[order[i]] < EvictBelow(v)}}
           \cap Members
  BY DEF Underperformers, rank
<1>12. ASSUME NEW a \in Members PROVE a \in Underperformers(order) <=> FallsShort(a)
  <2>1. ASSUME a \in Underperformers(order) PROVE FallsShort(a)
    BY <2>1, <1>2, <1>3, <1>7, <1>11
  <2>2. ASSUME FallsShort(a) PROVE a \in Underperformers(order)
    <3>1. PICK i \in 1 .. n : order[i] = a
      BY <2>2, <1>2, <1>10
    <3> QED BY <2>2, <3>1, <1>7, <1>9, <1>10, <1>11
  <2> QED BY <2>1, <2>2
<1>13. Underperformers(order) \subseteq Members
  BY DEF Underperformers
<1> QED BY <1>12, <1>13

\* The early returns are cases in which nobody falls short.
LEMMA NobodyFallsShort ==
    ASSUME TypeOK, NothingToEvict
    PROVE  \A a \in Members : ~FallsShort(a)
<1> SUFFICES ASSUME NEW a \in Members, FallsShort(a) PROVE FALSE
  OBVIOUS
<1>1. blocks \in [DOMAIN blocks -> Nat] /\ baseline \in Nat /\ tolerance \in Percent
  BY DEF TypeOK, IsStorageMap, Percent
<1>2. PICK v \in {blocks[b] : b \in DOMAIN blocks} :
        IsPercentile(v) /\ 100 * blocks[a] < (100 - tolerance) * v
  BY DEF FallsShort
<1>3. a \in DOMAIN blocks /\ v \in Nat /\ blocks[a] \in Nat
  BY <1>1 DEF FallsShort
<1>4. candidates # {} /\ DOMAIN blocks # {}
  BY <1>3 DEF Members
<1>5. tolerance # 100
  BY <1>2, <1>3
<1>6. CASE baseline = 0
  <2> DEFINE atMost(u) == {b \in DOMAIN blocks : blocks[b] <= u}
  <2>1. Cardinality(DOMAIN blocks) \in Nat /\ Cardinality(atMost(blocks[a])) \in Nat
    <3>1. IsFiniteSet(DOMAIN blocks)
      BY SelectionConstants, FS_Subset DEF TypeOK, IsStorageMap
    <3>2. IsFiniteSet(atMost(blocks[a]))
      BY <3>1, FS_Subset
    <3> QED BY <3>1, <3>2, FS_CardinalityType
  <2>2. 100 * Cardinality(atMost(blocks[a])) >= baseline * Cardinality(DOMAIN blocks)
    BY <1>6, <2>1
  <2>3. v <= blocks[a]
    BY <1>2, <1>3, <2>2 DEF IsPercentile
  <2> QED BY <1>1, <1>2, <1>3, <2>3, MissesThreshold
<1> QED BY <1>4, <1>5, <1>6 DEF NothingToEvict

\* A session's end removes exactly the candidates that fall short of the
\* percentile, whatever the percentages and however the sort breaks ties.
THEOREM EvictsByPercentile == Spec => EvictionIsByPercentile
<1>1. TypeOK /\ NewSession => {c.who : c \in candidates'} = {a \in Members : ~FallsShort(a)}
  <2> SUFFICES ASSUME TypeOK, NewSession
               PROVE  {c.who : c \in candidates'} = {a \in Members : ~FallsShort(a)}
    OBVIOUS
  <2>1. PICK evicted \in Evictions : candidates' = candidates \ {c \in candidates : c.who \in evicted}
    BY DEF NewSession
  <2>2. IsFiniteSet(DOMAIN blocks)
    BY SelectionConstants, FS_Subset DEF TypeOK, IsStorageMap
  <2>3. evicted = {a \in Members : FallsShort(a)}
    <3>1. CASE NothingToEvict
      BY <3>1, <2>1, NobodyFallsShort DEF Evictions
    <3>2. CASE ~NothingToEvict
      BY <3>2, <2>1, <2>2, WalkFindsThem DEF Evictions, NothingToEvict
    <3> QED BY <3>1, <3>2
  <2>4. {c.who : c \in candidates'} = Members \ evicted
    BY <2>1, MembersAfter
  <2> QED BY <2>3, <2>4
<1> QED BY <1>1, SelectionTypeCorrect, PTL DEF Spec, EvictionIsByPercentile
=============================================================================
