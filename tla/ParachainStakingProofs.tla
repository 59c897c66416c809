------------------------ MODULE ParachainStakingProofs ------------------------
(***************************************************************************)
(* The bonding ledger keeps its types, its books in order, its pool        *)
(* current and its roles apart, whatever the accounts, the capacities, the *)
(* minima and the delays.  The invariant all of this rests on says of      *)
(* every book what CandidateBookProofs shows the book operations preserve; *)
(* without it the counted stake would not be a sum the next call can trust *)
(* (a saturating subtraction would silently cut it).                       *)
(*                                                                         *)
(* On top of it, Coherent relates the parts of the ledger to each other:   *)
(* the two lists of a book are sorted and without repetition, a bond of a  *)
(* delegator is an entry of one list and every entry is a bond, totals are *)
(* sums, requests fit the bonds they are about, and every lock is a stake. *)
(* From that follow what a call may take from a delegator, that the cached *)
(* total of the pallet is backed by bonds, and that no bond is ever lost.  *)
(*                                                                         *)
(* Last, the whole of it implements StakeLedger: two sorted lists, caches  *)
(* and a pool rank each candidate by its bond and the greatest stakes.     *)
(***************************************************************************)
EXTENDS ParachainStakingProperties, CandidateBookProofs

\* A pending decrease never exceeds the self bond: executing it does not saturate.
CandidateInv(book) ==
    /\ BookInv(book)
    /\ book.bondLess.amount <= book.bond

CandidatesInOrder ==
    /\ IsStorageMap(candidate, Account, Book)
    /\ \A c \in DOMAIN candidate : CandidateInv(candidate[c])

DelegatorsInOrder ==
    /\ DOMAIN delegator \subseteq Account
    /\ \A d \in DOMAIN delegator : IsDelegatorState(delegator[d])

BalancesInOrder ==
    /\ IsStorageMap(pool, Account, Nat)
    /\ collatorLock \in [Account -> Nat]
    /\ delegatorLock \in [Account -> Nat]
    /\ total \in Nat

CalendarInOrder ==
    /\ requests \subseteq Request
    /\ whitelist \subseteq Account
    /\ round \in Nat \ {0}

IInv == CandidatesInOrder /\ DelegatorsInOrder /\ BalancesInOrder /\ CalendarInOrder

-----------------------------------------------------------------------------
(* Books, seen from the calls that change more than the lists *)

\* go_offline, go_online, schedule_leave and the bond_less requests touch no list.
LEMMA RestatusKeepsInv ==
    ASSUME NEW book, CandidateInv(book),
           NEW status \in {"Active", "Idle", "Leaving"}, NEW leaveAt \in Nat,
           NEW bondLess \in BondLess, bondLess.amount <= book.bond,
           NEW new, new = [book EXCEPT !.status = status, !.leaveAt = leaveAt,
                                       !.bondLess = bondLess]
    PROVE  CandidateInv(new)
BY DEF CandidateInv, BookInv, Book, TopCached, BottomCached, Sized

\* bond_more and execute_bond_less move the self bond and the counted stake together.
LEMMA RebondKeepsInv ==
    ASSUME NEW book, CandidateInv(book), NEW bond \in Nat, NEW counted \in Nat,
           counted = bond + book.top.total,
           NEW bondLess \in BondLess, bondLess.amount <= bond,
           NEW new, new = [book EXCEPT !.bond = bond, !.counted = counted,
                                       !.bondLess = bondLess]
    PROVE  CandidateInv(new) /\ new.status = book.status
BY DEF CandidateInv, BookInv, Book, TopCached, BottomCached, Sized

\* An operation on the lists keeps what CandidateInv says of the self bond.
LEMMA SameCandidateKeepsInv ==
    ASSUME NEW book, CandidateInv(book), NEW new, BookInv(new), SameCandidate(book, new)
    PROVE  CandidateInv(new) /\ new.status = book.status
BY DEF CandidateInv, SameCandidate

\* Saturating subtraction, within bounds, is subtraction.
LEMMA SubWithin ==
    ASSUME NEW m \in Nat, NEW n \in Nat, n <= m
    PROVE  Sub(m, n) \in Nat /\ Sub(m, n) = m - n
BY DEF Sub

\* The types of the parts of a book.
LEMMA BookParts ==
    ASSUME NEW book, CandidateInv(book)
    PROVE  /\ book \in Book
           /\ book.bond \in Nat /\ book.counted \in Nat /\ book.top.total \in Nat
           /\ book.counted = book.bond + book.top.total
           /\ book.leaveAt \in Nat /\ book.status \in {"Active", "Idle", "Leaving"}
           /\ book.bondLess \in BondLess /\ book.bondLess.amount \in Nat
           /\ book.bondLess.amount <= book.bond
BY DEF CandidateInv, BookInv, Book, TopCached, BondLess, Delegations

\* Writing one candidate's book, with whatever becomes of the pool.
LEMMA WriteBook ==
    ASSUME CandidatesInOrder, IsStorageMap(pool, Account, Nat),
           NEW c \in DOMAIN candidate, NEW book, CandidateInv(book),
           SetBook(c, book) \/ SetBond(c, book)
    PROVE  /\ CandidatesInOrder'
           /\ IsStorageMap(pool, Account, Nat)'
           /\ DOMAIN candidate' = DOMAIN candidate
<1>1. candidate' = [candidate EXCEPT ![c] = book]
  BY DEF SetBook, SetBond
<1>2. book \in Book /\ book.counted \in Nat
  BY BookParts
<1>3. CandidatesInOrder' /\ DOMAIN candidate' = DOMAIN candidate
  BY <1>1, <1>2 DEF CandidatesInOrder, IsStorageMap
<1>4. c \in Account
  BY DEF CandidatesInOrder, IsStorageMap
<1>5. pool' = pool \/ pool' = Put(pool, c, book.counted)
  BY DEF SetBook, SetBond
<1>6. IsStorageMap(Put(pool, c, book.counted), Account, Nat)
  BY <1>2, <1>4, PutStorage
<1> QED BY <1>3, <1>5, <1>6

\* One field of a candidate's metadata is rewritten and no list is touched.
LEMMA WriteCandidate ==
    ASSUME CandidatesInOrder, NEW c \in DOMAIN candidate, NEW book, CandidateInv(book),
           candidate' = [candidate EXCEPT ![c] = book]
    PROVE  CandidatesInOrder' /\ DOMAIN candidate' = DOMAIN candidate
<1>1. book \in Book
  BY BookParts
<1> QED BY <1>1 DEF CandidatesInOrder, IsStorageMap

-----------------------------------------------------------------------------
(* Delegator states *)

\* A delegator's record put together of parts of the right types.
LEMMA DelegatorParts ==
    ASSUME NEW bonds, IsStorageMap(bonds, Account, Nat), NEW sum \in Nat, NEW less \in Nat
    PROVE  IsDelegatorState([bonds |-> bonds, total |-> sum, lessTotal |-> less])
BY DEF IsDelegatorState

\* The same for a record of which some fields are rewritten.
LEMMA DelegatorExcept ==
    ASSUME NEW ds, IsDelegatorState(ds),
           NEW bonds, IsStorageMap(bonds, Account, Nat), NEW sum \in Nat, NEW less \in Nat
    PROVE  /\ IsDelegatorState([ds EXCEPT !.bonds = bonds, !.total = sum])
           /\ IsDelegatorState([ds EXCEPT !.lessTotal = less])
<1>1. [ds EXCEPT !.bonds = bonds, !.total = sum]
        \in [bonds : {bonds}, total : Nat, lessTotal : Nat]
  BY DEF IsDelegatorState
<1>2. [ds EXCEPT !.lessTotal = less]
        \in [bonds : {ds.bonds}, total : Nat, lessTotal : Nat]
  BY DEF IsDelegatorState
<1> QED BY <1>1, <1>2 DEF IsDelegatorState

\* The types of the fields of a delegator's record.
LEMMA DelegatorFields ==
    ASSUME NEW ds, IsDelegatorState(ds)
    PROVE  /\ IsStorageMap(ds.bonds, Account, Nat)
           /\ ds.total \in Nat /\ ds.lessTotal \in Nat
BY DEF IsDelegatorState

\* DelegatorState::rm_delegation keeps the types.
LEMMA WithoutBondType ==
    ASSUME NEW ds, IsDelegatorState(ds), NEW c
    PROVE  IsDelegatorState(WithoutBond(ds, c))
<1> DEFINE rest == Drop(ds.bonds, c)
           sum == Sub(ds.total, ds.bonds[c])
<1>1. IsStorageMap(rest, Account, Nat) /\ sum \in Nat
  BY DelegatorFields, DropStorage, SubInNat
<1>2. ASSUME c \in DOMAIN ds.bonds
      PROVE  WithoutBond(ds, c) = [ds EXCEPT !.bonds = rest, !.total = sum]
  BY <1>2 DEF WithoutBond, IsDelegatorState
<1> HIDE DEF rest, sum
<1>3. IsDelegatorState([ds EXCEPT !.bonds = rest, !.total = sum])
  BY <1>1, DelegatorExcept
<1>4. CASE c \in DOMAIN ds.bonds
  BY <1>2, <1>3, <1>4
<1>5. CASE c \notin DOMAIN ds.bonds
  BY <1>5 DEF WithoutBond
<1> QED BY <1>4, <1>5

\* Giving back pending amounts keeps the types, whatever the amounts.
LEMMA LessPendingType ==
    ASSUME NEW ds, IsDelegatorState(ds), NEW less
    PROVE  IsDelegatorState([ds EXCEPT !.lessTotal = Sub(@, less)])
<1>1. ds.lessTotal \in Nat
  BY DEF IsDelegatorState
<1>2. Sub(ds.lessTotal, less) \in Nat
  BY <1>1, SubInNat
<1> DEFINE pending == Sub(ds.lessTotal, less)
<1> HIDE DEF pending
<1>3. pending \in Nat
  BY <1>2 DEF pending
<1>4. IsDelegatorState([ds EXCEPT !.lessTotal = pending])
  BY <1>3 DEF IsDelegatorState
<1> QED BY <1>4 DEF pending

\* One delegator's record is rewritten.
LEMMA WriteDelegator ==
    ASSUME DelegatorsInOrder, NEW d \in DOMAIN delegator, NEW ds, IsDelegatorState(ds),
           delegator' = [delegator EXCEPT ![d] = ds]
    PROVE  DelegatorsInOrder'
BY DEF DelegatorsInOrder

\* The sum of a delegator's bonds is a balance: there are finitely many accounts.
LEMMA BondsSumInNat ==
    ASSUME NEW ds, IsDelegatorState(ds)
    PROVE  SumOf(ds.bonds) \in Nat
<1>1. DOMAIN ds.bonds \subseteq Account /\ ds.bonds \in [DOMAIN ds.bonds -> Nat]
  BY DEF IsDelegatorState, IsStorageMap
<1>2. IsFiniteSet(DOMAIN ds.bonds)
  BY <1>1, AccountsAssumption, FS_Subset
<1> QED BY <1>1, <1>2, SumInNat

-----------------------------------------------------------------------------
(* Each call keeps the invariant: candidates *)

\* Nothing is in storage at genesis.
LEMMA InitInv == ASSUME Init PROVE IInv
<1>1. DOMAIN NoEntries = {}
  BY DEF NoEntries
<1>2. IsStorageMap(NoEntries, Account, Nat) /\ IsStorageMap(NoEntries, Account, Book)
  BY DEF NoEntries, IsStorageMap
<1>3. CandidatesInOrder
  BY <1>1, <1>2, Zenon DEF Init, CandidatesInOrder
<1>4. DelegatorsInOrder
  BY <1>1, Zenon DEF Init, DelegatorsInOrder
<1>5. BalancesInOrder
  BY <1>2 DEF Init, BalancesInOrder
<1>6. CalendarInOrder
  BY AccountsAssumption DEF Init, CalendarInOrder
<1> QED BY <1>3, <1>4, <1>5, <1>6 DEF IInv

\* A new candidate starts with an empty book.
LEMMA JoinCandidatesInv ==
    ASSUME IInv, NEW a \in Account, NEW bond \in Nat, JoinCandidates(a, bond)
    PROVE  IInv'
<1>1. CandidateInv(NewBook(bond)) /\ NewBook(bond) \in Book
  <2>1. BookInv(NewBook(bond))
    BY NewBookInv
  <2>2. NewBook(bond).bondLess.amount = 0 /\ NewBook(bond).bond = bond
    BY DEF NewBook, NoBondLess
  <2> QED BY <2>1, <2>2 DEF CandidateInv, BookInv
<1> DEFINE new == NewBook(bond)
<1> HIDE DEF new
<1>2. candidate' = Put(candidate, a, new) /\ CandidateInv(new) /\ new \in Book
  BY <1>1 DEF JoinCandidates, new
<1>3. CandidatesInOrder'
  BY <1>2 DEF IInv, CandidatesInOrder, IsStorageMap, Put
<1>4. IsStorageMap(Put(pool, a, bond), Account, Nat)
  BY PutStorage DEF IInv, BalancesInOrder
<1>5. BalancesInOrder'
  BY <1>4 DEF JoinCandidates, IInv, BalancesInOrder
<1>6. DelegatorsInOrder' /\ CalendarInOrder'
  BY DEF JoinCandidates, IInv, DelegatorsInOrder, CalendarInOrder
<1> QED BY <1>3, <1>5, <1>6 DEF IInv

(***************************************************************************)
(* The calls that rewrite a candidate's status, exit round or pending      *)
(* decrease and at most take it off the pool or put it back.               *)
(***************************************************************************)
LEMMA MetadataCallInv ==
    ASSUME IInv, NEW c \in DOMAIN candidate,
           NEW status \in {"Active", "Idle", "Leaving"}, NEW leaveAt \in Nat,
           NEW bondLess \in BondLess, bondLess.amount <= candidate[c].bond,
           candidate' = [candidate EXCEPT ![c] =
                [candidate[c] EXCEPT !.status = status, !.leaveAt = leaveAt,
                                     !.bondLess = bondLess]],
           \/ pool' = pool
           \/ pool' = Drop(pool, c)
           \/ pool' = Put(pool, c, candidate[c].counted),
           UNCHANGED <<delegator, requests, collatorLock, delegatorLock, total,
                       whitelist, round>>
    PROVE  IInv'
<1> DEFINE new == [candidate[c] EXCEPT !.status = status, !.leaveAt = leaveAt,
                                       !.bondLess = bondLess]
<1>1. CandidateInv(candidate[c]) /\ c \in Account
  BY DEF IInv, CandidatesInOrder, IsStorageMap
<1>2. CandidateInv(new)
  BY <1>1, RestatusKeepsInv
<1> HIDE DEF new
<1>3. candidate' = [candidate EXCEPT ![c] = new]
  BY DEF new
<1>4. CandidatesInOrder'
  BY <1>2, <1>3, WriteCandidate DEF IInv
<1>5. IsStorageMap(pool, Account, Nat) /\ candidate[c].counted \in Nat
  BY <1>1, BookParts DEF IInv, BalancesInOrder
<1>6. /\ IsStorageMap(Drop(pool, c), Account, Nat)
      /\ IsStorageMap(Put(pool, c, candidate[c].counted), Account, Nat)
  BY <1>1, <1>5, PutStorage, DropStorage
<1>7. BalancesInOrder'
  BY <1>5, <1>6 DEF IInv, BalancesInOrder
<1>8. DelegatorsInOrder' /\ CalendarInOrder'
  BY DEF IInv, DelegatorsInOrder, CalendarInOrder
<1> QED BY <1>4, <1>7, <1>8 DEF IInv

\* The parts of the metadata a call leaves alone are written back as they were.
LEMMA CandidateFields ==
    ASSUME IInv, NEW c \in DOMAIN candidate
    PROVE  /\ candidate[c] \in Book
           /\ candidate[c].status \in {"Active", "Idle", "Leaving"}
           /\ candidate[c].leaveAt \in Nat /\ candidate[c].bond \in Nat
           /\ candidate[c].bondLess \in BondLess
           /\ candidate[c].bondLess.amount <= candidate[c].bond
BY BookParts DEF IInv, CandidatesInOrder

\* Leaving, and offering to collate or not.
LEMMA StatusCallsInv ==
    ASSUME IInv, NEW c \in Account,
           \/ ScheduleLeaveCandidates(c) \/ CancelLeaveCandidates(c)
           \/ GoOffline(c) \/ GoOnline(c)
    PROVE  IInv'
<1>1. c \in DOMAIN candidate
  BY DEF ScheduleLeaveCandidates, CancelLeaveCandidates, GoOffline, GoOnline, IsCandidate
<1> DEFINE book == candidate[c]
<1>2. /\ book \in Book /\ book.leaveAt \in Nat /\ book.bondLess \in BondLess
      /\ book.bondLess.amount <= book.bond
  BY <1>1, CandidateFields
<1>3. CASE ScheduleLeaveCandidates(c)
  <2> DEFINE at == round + LeaveCandidatesDelay
  <2>1. at \in Nat
    BY DelaysAssumption DEF IInv, CalendarInOrder
  <2>2. candidate' = [candidate EXCEPT ![c] =
            [book EXCEPT !.status = "Leaving", !.leaveAt = at, !.bondLess = book.bondLess]]
    BY <1>1, <1>2, <1>3 DEF ScheduleLeaveCandidates, Book
  <2> HIDE DEF at
  <2> QED BY <1>1, <1>2, <1>3, <2>1, <2>2, MetadataCallInv DEF ScheduleLeaveCandidates
<1>4. CASE CancelLeaveCandidates(c)
  <2>1. candidate' = [candidate EXCEPT ![c] =
            [book EXCEPT !.status = "Active", !.leaveAt = 0, !.bondLess = book.bondLess]]
    BY <1>1, <1>2, <1>4 DEF CancelLeaveCandidates, Book
  <2> QED BY <1>1, <1>2, <1>4, <2>1, MetadataCallInv DEF CancelLeaveCandidates
<1>5. CASE GoOffline(c)
  <2>1. candidate' = [candidate EXCEPT ![c] =
            [book EXCEPT !.status = "Idle", !.leaveAt = book.leaveAt,
                         !.bondLess = book.bondLess]]
    BY <1>1, <1>2, <1>5 DEF GoOffline, Book
  <2> QED BY <1>1, <1>2, <1>5, <2>1, MetadataCallInv DEF GoOffline
<1>6. CASE GoOnline(c)
  <2>1. candidate' = [candidate EXCEPT ![c] =
            [book EXCEPT !.status = "Active", !.leaveAt = book.leaveAt,
                         !.bondLess = book.bondLess]]
    BY <1>1, <1>2, <1>6 DEF GoOnline, Book
  <2> QED BY <1>1, <1>2, <1>6, <2>1, MetadataCallInv DEF GoOnline
<1> QED BY <1>3, <1>4, <1>5, <1>6

\* A decrease of the self bond is scheduled only for less than the bond.
LEMMA BondLessCallsInv ==
    ASSUME IInv, NEW c \in Account, NEW less \in Nat,
           ScheduleCandidateBondLess(c, less) \/ CancelCandidateBondLess(c)
    PROVE  IInv'
<1>1. c \in DOMAIN candidate
  BY DEF ScheduleCandidateBondLess, CancelCandidateBondLess, IsCandidate
<1> DEFINE book == candidate[c]
<1>2. /\ book \in Book /\ book.leaveAt \in Nat /\ book.bond \in Nat
      /\ book.status \in {"Active", "Idle", "Leaving"}
  BY <1>1, CandidateFields
<1>3. CASE ScheduleCandidateBondLess(c, less)
  <2> DEFINE request == [amount |-> less, when |-> round + CandidateBondLessDelay]
  <2>1. request \in BondLess /\ request.amount <= book.bond
    BY <1>2, <1>3, DelaysAssumption
       DEF IInv, CalendarInOrder, BondLess, ScheduleCandidateBondLess
  <2>2. candidate' = [candidate EXCEPT ![c] =
            [book EXCEPT !.status = book.status, !.leaveAt = book.leaveAt,
                         !.bondLess = request]]
    BY <1>1, <1>2, <1>3 DEF ScheduleCandidateBondLess, Book
  <2> HIDE DEF request
  <2> QED BY <1>1, <1>2, <1>3, <2>1, <2>2, MetadataCallInv DEF ScheduleCandidateBondLess
<1>4. CASE CancelCandidateBondLess(c)
  <2>1. NoBondLess \in BondLess /\ NoBondLess.amount <= book.bond
    BY <1>2 DEF NoBondLess, BondLess
  <2>2. candidate' = [candidate EXCEPT ![c] =
            [book EXCEPT !.status = book.status, !.leaveAt = book.leaveAt,
                         !.bondLess = NoBondLess]]
    BY <1>1, <1>2, <1>4 DEF CancelCandidateBondLess, Book
  <2> QED BY <1>1, <1>2, <1>4, <2>1, <2>2, MetadataCallInv DEF CancelCandidateBondLess
<1> QED BY <1>3, <1>4

\* More self bond: the counted stake grows with it.
LEMMA CandidateBondMoreInv ==
    ASSUME IInv, NEW c \in Account, NEW more \in Nat, CandidateBondMore(c, more)
    PROVE  IInv'
<1>1. c \in DOMAIN candidate
  BY DEF CandidateBondMore, IsCandidate
<1> DEFINE book == candidate[c]
           bond == book.bond + more
           counted == book.counted + more
           new == [book EXCEPT !.bond = @ + more, !.counted = @ + more]
<1>2. CandidateInv(book)
  BY <1>1 DEF IInv, CandidatesInOrder
<1>3. /\ bond \in Nat /\ counted \in Nat /\ counted = bond + book.top.total
      /\ book.bondLess \in BondLess /\ book.bondLess.amount <= bond
  BY <1>2, BookParts
<1>4. new = [book EXCEPT !.bond = bond, !.counted = counted, !.bondLess = book.bondLess]
  BY <1>2, BookParts DEF Book
<1>5. SetBond(c, new) /\ collatorLock' = [collatorLock EXCEPT ![c] = bond]
  BY DEF CandidateBondMore
<1> HIDE DEF bond, counted, new
<1>6. CandidateInv(new)
  BY <1>2, <1>3, <1>4, RebondKeepsInv
<1>7. CandidatesInOrder' /\ IsStorageMap(pool, Account, Nat)'
  BY <1>1, <1>5, <1>6, WriteBook DEF IInv, BalancesInOrder
<1>8. BalancesInOrder'
  BY <1>3, <1>5, <1>7 DEF CandidateBondMore, IInv, BalancesInOrder
<1>9. DelegatorsInOrder' /\ CalendarInOrder'
  BY DEF CandidateBondMore, IInv, DelegatorsInOrder, CalendarInOrder
<1> QED BY <1>7, <1>8, <1>9 DEF IInv

(***************************************************************************)
(* Less self bond.  The code subtracts from bond and counted stake alike;  *)
(* that neither subtraction saturates needs the pending amount to be no    *)
(* more than the bond, since the counted stake may be larger.              *)
(***************************************************************************)
LEMMA ExecuteCandidateBondLessInv ==
    ASSUME IInv, NEW c \in Account, ExecuteCandidateBondLess(c)
    PROVE  IInv'
<1>1. c \in DOMAIN candidate
  BY DEF ExecuteCandidateBondLess, IsCandidate
<1> DEFINE book == candidate[c]
           less == book.bondLess.amount
           bond == Sub(book.bond, less)
           counted == Sub(book.counted, less)
           new == WithLessBond(book)
<1>2. CandidateInv(book)
  BY <1>1 DEF IInv, CandidatesInOrder
<1>3. /\ less \in Nat /\ book.bond \in Nat /\ book.counted \in Nat
      /\ book.top.total \in Nat /\ book.counted = book.bond + book.top.total
      /\ less <= book.bond
  BY <1>2, BookParts
<1>4. /\ bond \in Nat /\ bond = book.bond - less
      /\ counted \in Nat /\ counted = book.counted - less
  <2>1. less <= book.counted
    BY <1>3
  <2> QED BY <1>3, <2>1, SubWithin
<1>5. counted = bond + book.top.total
  BY <1>3, <1>4
<1>6. NoBondLess \in BondLess /\ NoBondLess.amount <= bond
  BY <1>4 DEF NoBondLess, BondLess
<1>7. new = [book EXCEPT !.bond = bond, !.counted = counted, !.bondLess = NoBondLess]
  BY <1>2, BookParts DEF Book, WithLessBond
<1>8. /\ SetBond(c, new) /\ collatorLock' = [collatorLock EXCEPT ![c] = new.bond]
      /\ total' = Sub(total, less)
  BY DEF ExecuteCandidateBondLess
<1> HIDE DEF bond, counted, new, less
<1>9. CandidateInv(new)
  BY <1>2, <1>4, <1>5, <1>6, <1>7, RebondKeepsInv
<1>10. CandidatesInOrder' /\ IsStorageMap(pool, Account, Nat)'
  BY <1>1, <1>8, <1>9, WriteBook DEF IInv, BalancesInOrder
<1>11. total' \in Nat
  BY <1>8, SubInNat DEF IInv, BalancesInOrder
<1>12. BalancesInOrder'
  <2>1. new.bond \in Nat
    BY <1>9 DEF CandidateInv, BookInv, Book
  <2> QED
    BY <2>1, <1>8, <1>10, <1>11 DEF ExecuteCandidateBondLess, IInv, BalancesInOrder
<1>13. DelegatorsInOrder' /\ CalendarInOrder'
  BY DEF ExecuteCandidateBondLess, IInv, DelegatorsInOrder, CalendarInOrder
<1> QED BY <1>10, <1>12, <1>13 DEF IInv

\* A delegation and the request on it are struck from the delegator's record.
LEMMA StruckType ==
    ASSUME NEW ds, IsDelegatorState(ds), NEW d, NEW c
    PROVE  /\ IsDelegatorState(WithoutRequest(WithoutBond(ds, c), d, c))
           /\ WithoutRequest(WithoutBond(ds, c), d, c).total \in Nat
<1> DEFINE rest == WithoutBond(ds, c)
           less == SumOf([r \in RequestsFrom(d, c) |-> r.amount])
<1>1. IsDelegatorState(rest)
  BY WithoutBondType
<1>2. WithoutRequest(rest, d, c) = [rest EXCEPT !.lessTotal = Sub(@, less)]
  BY DEF WithoutRequest
<1> HIDE DEF rest, less
<1>3. IsDelegatorState(WithoutRequest(rest, d, c))
  BY <1>1, <1>2, LessPendingType
<1> QED BY <1>3, DelegatorFields DEF rest

\* Everyone backing a candidate that leaves gets the bond back.
LEMMA ExecuteLeaveCandidatesInv ==
    ASSUME IInv, NEW c \in Account, ExecuteLeaveCandidates(c)
    PROVE  IInv'
<1> DEFINE book == candidate[c]
           backers == Owners(book.top.list) \cup Owners(book.bottom.list)
           backing == book.bond + book.top.total + book.bottom.total
           returned == {d \in backers : Backs(d, c)}
           struck(d) == WithoutRequest(WithoutBond(delegator[d], c), d, c)
           left(d) == IF d \in returned THEN struck(d) ELSE delegator[d]
           gone == {d \in returned : left(d).total = 0}
<1>1. /\ backers \subseteq DOMAIN delegator
      /\ delegator' = [d \in DOMAIN delegator \ gone |-> left(d)]
      /\ delegatorLock' = [d \in Account |->
            IF d \in returned THEN left(d).total
            ELSE IF d \in backers THEN 0 ELSE delegatorLock[d]]
      /\ total' = Sub(total, backing)
      /\ candidate' = Drop(candidate, c)
      /\ requests' = {r \in requests : r.collator # c}
      /\ collatorLock' = [collatorLock EXCEPT ![c] = 0]
      /\ UNCHANGED <<pool, whitelist, round>>
  BY DEF ExecuteLeaveCandidates
<1>2. returned \subseteq backers
  OBVIOUS
<1>3. \A d \in DOMAIN delegator : IsDelegatorState(delegator[d])
  BY DEF IInv, DelegatorsInOrder
<1>4. \A d \in DOMAIN delegator : IsDelegatorState(struck(d)) /\ struck(d).total \in Nat
  BY <1>3, StruckType
<1> HIDE DEF backers, backing, returned, struck, gone
<1>5. \A d \in DOMAIN delegator : IsDelegatorState(left(d)) /\ left(d).total \in Nat
  BY <1>3, <1>4, DelegatorFields
<1> HIDE DEF left
<1>6. DelegatorsInOrder'
  BY <1>1, <1>5 DEF IInv, DelegatorsInOrder
<1>7. delegatorLock' \in [Account -> Nat]
  BY <1>1, <1>2, <1>5 DEF IInv, BalancesInOrder
<1>8. total' \in Nat
  BY <1>1, SubInNat DEF IInv, BalancesInOrder
<1>9. BalancesInOrder'
  BY <1>1, <1>7, <1>8 DEF IInv, BalancesInOrder
<1>10. CandidatesInOrder'
  BY <1>1 DEF IInv, CandidatesInOrder, IsStorageMap, Drop
<1>11. CalendarInOrder'
  BY <1>1 DEF IInv, CalendarInOrder
<1> QED BY <1>6, <1>9, <1>10, <1>11 DEF IInv

-----------------------------------------------------------------------------
(* Each call keeps the invariant: delegations *)

\* A first bond, or one more.
LEMMA WithBondType ==
    ASSUME DelegatorsInOrder, NEW d \in Account, NEW c \in Account, NEW amount \in Nat
    PROVE  IsDelegatorState(WithBond(d, c, amount)) /\ WithBond(d, c, amount).total \in Nat
<1>1. CASE IsDelegator(d)
  <2> DEFINE ds == delegator[d]
             bonds == Put(ds.bonds, c, amount)
             sum == ds.total + amount
  <2>1. IsDelegatorState(ds)
    BY <1>1 DEF IsDelegator, DelegatorsInOrder
  <2>2. IsStorageMap(ds.bonds, Account, Nat) /\ ds.total \in Nat
    BY <2>1, DelegatorFields
  <2>3. IsStorageMap(bonds, Account, Nat) /\ sum \in Nat
    <3>1. IsStorageMap(bonds, Account, Nat)
      BY <2>2, PutStorage, Zenon
    <3> QED BY <2>2, <3>1
  <2>4. WithBond(d, c, amount) = [ds EXCEPT !.bonds = bonds, !.total = sum]
    BY <1>1, <2>1 DEF WithBond, IsDelegatorState
  <2> HIDE DEF ds, bonds, sum
  <2>5. IsDelegatorState([ds EXCEPT !.bonds = bonds, !.total = sum])
    BY <2>1, <2>3, DelegatorExcept
  <2> QED BY <2>4, <2>5, DelegatorFields
<1>2. CASE ~IsDelegator(d)
  <2> DEFINE bonds == Put(NoEntries, c, amount)
  <2>1. IsStorageMap(NoEntries, Account, Nat)
    BY DEF NoEntries, IsStorageMap
  <2>2. IsStorageMap(bonds, Account, Nat)
    BY <2>1, PutStorage
  <2>3. WithBond(d, c, amount) = [bonds |-> bonds, total |-> amount, lessTotal |-> 0]
    BY <1>2 DEF WithBond
  <2> HIDE DEF bonds
  <2> QED BY <2>2, <2>3, DelegatorParts, DelegatorFields
<1> QED BY <1>1, <1>2

\* A new delegation, and the one it may push out.
LEMMA DelegateInv ==
    ASSUME IInv, NEW d \in Account, NEW c \in Account, NEW amount \in Nat,
           Delegate(d, c, amount)
    PROVE  IInv'
<1> DEFINE bond == [owner |-> d, amount |-> amount]
           added == AddDelegation(candidate[c], bond)
           kicked == {b.owner : b \in added.kicked}
           left(k) == WithoutRequest(WithoutBond(delegator[k], c), k, c)
           gone == {k \in kicked : Cardinality(DOMAIN delegator[k].bonds) = 1}
           joined == WithBond(d, c, amount)
<1>1. /\ c \in DOMAIN candidate
      /\ kicked \subseteq DOMAIN delegator
      /\ SetBook(c, added.book)
      /\ delegator' = [x \in (DOMAIN delegator \ gone) \cup {d} |->
            IF x = d THEN joined ELSE IF x \in kicked THEN left(x) ELSE delegator[x]]
      /\ delegatorLock' = [x \in Account |->
            IF x = d THEN joined.total
            ELSE IF x \in kicked THEN left(x).total ELSE delegatorLock[x]]
      /\ requests' = {r \in requests : ~(r.collator = c /\ r.delegator \in kicked)}
      /\ total' = total + Sub(amount, added.less)
      /\ UNCHANGED <<collatorLock, whitelist, round>>
  BY DEF Delegate, IsCandidate
<1>2. bond \in Bond
  BY DEF Bond
<1>3. CandidateInv(candidate[c])
  BY <1>1 DEF IInv, CandidatesInOrder
<1>4. BookInv(added.book) /\ SameCandidate(candidate[c], added.book)
  BY <1>2, <1>3, AddDelegationKeepsInv DEF CandidateInv
<1>5. Sub(amount, added.less) \in Nat
  BY SubInNat
<1>6. \A k \in DOMAIN delegator : IsDelegatorState(left(k)) /\ left(k).total \in Nat
  BY StruckType DEF IInv, DelegatorsInOrder
<1>7. IsDelegatorState(joined) /\ joined.total \in Nat
  BY WithBondType DEF IInv
<1> HIDE DEF bond, added, kicked, left, gone, joined
<1>8. CandidateInv(added.book)
  BY <1>3, <1>4, SameCandidateKeepsInv
<1>9. CandidatesInOrder' /\ IsStorageMap(pool, Account, Nat)'
  BY <1>1, <1>8, WriteBook DEF IInv, BalancesInOrder
<1>10. DelegatorsInOrder'
  BY <1>1, <1>6, <1>7 DEF IInv, DelegatorsInOrder
<1>11. delegatorLock' \in [Account -> Nat]
  BY <1>1, <1>6, <1>7 DEF IInv, BalancesInOrder
<1>12. total' \in Nat
  BY <1>1, <1>5 DEF IInv, BalancesInOrder
<1>13. BalancesInOrder'
  BY <1>1, <1>9, <1>11, <1>12 DEF IInv, BalancesInOrder
<1>14. CalendarInOrder'
  BY <1>1 DEF IInv, CalendarInOrder
<1> QED BY <1>9, <1>10, <1>13, <1>14 DEF IInv

\* More stake on a candidate already backed.
LEMMA DelegatorBondMoreInv ==
    ASSUME IInv, NEW d \in Account, NEW c \in Account, NEW more \in Nat,
           DelegatorBondMore(d, c, more)
    PROVE  IInv'
<1> DEFINE ds == delegator[d]
           bond == ds.bonds[c]
           grown == IncreaseDelegation(candidate[c], d, bond, more)
           bonds == Put(ds.bonds, c, bond + more)
           sum == ds.total + more
           new == [ds EXCEPT !.bonds = bonds, !.total = sum]
<1>1. /\ c \in DOMAIN candidate /\ d \in DOMAIN delegator /\ c \in DOMAIN ds.bonds
      /\ grown.ok /\ SetBook(c, grown.book)
      /\ delegatorLock' = [delegatorLock EXCEPT ![d] = sum]
      /\ total' = total + more
      /\ UNCHANGED <<requests, collatorLock, whitelist, round>>
  BY DEF DelegatorBondMore, IsCandidate, Backs, IsDelegator
<1>2. IsDelegatorState(ds)
  BY <1>1 DEF IInv, DelegatorsInOrder
<1>3. /\ IsStorageMap(ds.bonds, Account, Nat) /\ ds.total \in Nat
      /\ bond \in Nat /\ bond + more \in Nat /\ sum \in Nat
  <2>1. IsStorageMap(ds.bonds, Account, Nat) /\ ds.total \in Nat
    BY <1>2, DelegatorFields
  <2>2. bond \in Nat
    BY <1>1, <2>1 DEF IsStorageMap
  <2> QED BY <2>1, <2>2
<1>4. IsStorageMap(bonds, Account, Nat)
  BY <1>3, PutStorage, Zenon
<1>5. CandidateInv(candidate[c])
  BY <1>1 DEF IInv, CandidatesInOrder
<1>6. BookInv(grown.book) /\ SameCandidate(candidate[c], grown.book)
  BY <1>1, <1>5, IncreaseDelegationKeepsInv DEF CandidateInv
<1>7. delegator' = [delegator EXCEPT ![d] = new]
  BY <1>1, <1>2 DEF DelegatorBondMore, IsDelegatorState
<1> HIDE DEF ds, bond, grown, bonds, sum
<1>8. IsDelegatorState(new)
  BY <1>2, <1>3, <1>4, DelegatorExcept
<1> HIDE DEF new
<1>9. CandidateInv(grown.book)
  BY <1>5, <1>6, SameCandidateKeepsInv
<1>10. CandidatesInOrder' /\ IsStorageMap(pool, Account, Nat)'
  BY <1>1, <1>9, WriteBook DEF IInv, BalancesInOrder
<1>11. DelegatorsInOrder'
  BY <1>1, <1>7, <1>8, WriteDelegator DEF IInv
<1>12. BalancesInOrder'
  BY <1>1, <1>3, <1>10 DEF IInv, BalancesInOrder
<1>13. CalendarInOrder'
  BY <1>1 DEF IInv, CalendarInOrder
<1> QED BY <1>10, <1>11, <1>12, <1>13 DEF IInv

\* Scheduling and cancelling touch the requests and lessTotal only.
LEMMA PendingCallInv ==
    ASSUME IInv, NEW d \in DOMAIN delegator, NEW less \in Nat,
           delegator' = [delegator EXCEPT ![d] = [delegator[d] EXCEPT !.lessTotal = less]],
           requests' \subseteq Request,
           UNCHANGED <<candidate, pool, collatorLock, delegatorLock, total, whitelist, round>>
    PROVE  IInv'
<1> DEFINE new == [delegator[d] EXCEPT !.lessTotal = less]
<1>1. IsDelegatorState(delegator[d])
  BY DEF IInv, DelegatorsInOrder
<1>2. IsDelegatorState(new)
  BY <1>1 DEF IsDelegatorState
<1>3. DelegatorsInOrder'
  BY <1>2, WriteDelegator DEF IInv
<1>4. CandidatesInOrder' /\ BalancesInOrder' /\ CalendarInOrder'
  BY DEF IInv, CandidatesInOrder, BalancesInOrder, CalendarInOrder
<1> QED BY <1>3, <1>4 DEF IInv

\* A request to revoke or to decrease one delegation.
LEMMA ScheduleRequestInv ==
    ASSUME IInv, NEW d \in Account, NEW c \in Account, Backs(d, c),
           NEW action \in {"Revoke", "Decrease"}, NEW amount \in Nat,
           ScheduleRequest(d, c, action, amount)
    PROVE  IInv'
<1> DEFINE request == NewRequest(d, c, action, amount, RevokeDelegationDelay)
           less == delegator[d].lessTotal + amount
<1>1. d \in DOMAIN delegator
  BY DEF Backs, IsDelegator
<1>2. request \in Request
  BY DelaysAssumption DEF IInv, CalendarInOrder, NewRequest, Request
<1>3. less \in Nat
  BY <1>1, DelegatorFields DEF IInv, DelegatorsInOrder
<1>4. /\ delegator' = [delegator EXCEPT ![d] = [delegator[d] EXCEPT !.lessTotal = less]]
      /\ requests' = requests \cup {request}
      /\ UNCHANGED <<candidate, pool, collatorLock, delegatorLock, total, whitelist, round>>
  BY DEF ScheduleRequest
<1> HIDE DEF request, less
<1>5. requests' \subseteq Request
  BY <1>2, <1>4 DEF IInv, CalendarInOrder
<1> QED BY <1>1, <1>3, <1>4, <1>5, PendingCallInv

\* The three calls on one delegation's request, before it is due.
LEMMA RequestCallsInv ==
    ASSUME IInv, NEW d \in Account, NEW c \in Account, NEW less \in Nat,
           \/ ScheduleRevokeDelegation(d, c)
           \/ ScheduleDelegatorBondLess(d, c, less)
           \/ CancelDelegationRequest(d, c)
    PROVE  IInv'
<1>1. CASE ScheduleRevokeDelegation(d, c)
  <2>1. Backs(d, c) /\ ScheduleRequest(d, c, "Revoke", delegator[d].bonds[c])
    BY <1>1 DEF ScheduleRevokeDelegation
  <2>2. delegator[d].bonds[c] \in Nat
    BY <2>1, DelegatorFields
       DEF IInv, DelegatorsInOrder, Backs, IsDelegator, IsStorageMap
  <2> QED BY <2>1, <2>2, ScheduleRequestInv
<1>2. CASE ScheduleDelegatorBondLess(d, c, less)
  BY <1>2, ScheduleRequestInv DEF ScheduleDelegatorBondLess
<1>3. CASE CancelDelegationRequest(d, c)
  <2>1. PICK r \in RequestsFrom(d, c) :
            /\ requests' = requests \ {r}
            /\ delegator' = [delegator EXCEPT ![d].lessTotal = Sub(@, r.amount)]
    BY <1>3 DEF CancelDelegationRequest
  <2> DEFINE rest == Sub(delegator[d].lessTotal, r.amount)
  <2>2. d \in DOMAIN delegator
    BY <1>3 DEF CancelDelegationRequest, IsDelegator
  <2>3. rest \in Nat
    BY <2>2, DelegatorFields, SubInNat DEF IInv, DelegatorsInOrder
  <2>4. delegator' = [delegator EXCEPT ![d] = [delegator[d] EXCEPT !.lessTotal = rest]]
    BY <2>1
  <2> HIDE DEF rest
  <2>5. requests' \subseteq Request
    BY <2>1 DEF IInv, CalendarInOrder
  <2>6. UNCHANGED <<candidate, pool, collatorLock, delegatorLock, total, whitelist, round>>
    BY <1>3 DEF CancelDelegationRequest
  <2> QED BY <2>2, <2>3, <2>4, <2>5, <2>6, PendingCallInv
<1> QED BY <1>1, <1>2, <1>3

(***************************************************************************)
(* A due request is executed: revoking takes the delegation out of the     *)
(* book, decreasing moves it within the book or between its lists.         *)
(***************************************************************************)
LEMMA ExecuteRevokeInv ==
    ASSUME IInv, NEW d \in DOMAIN delegator, NEW c \in Account, NEW r,
           ExecuteRevoke(d, c, r)
    PROVE  /\ CandidatesInOrder' /\ DelegatorsInOrder'
           /\ IsStorageMap(pool, Account, Nat)'
           /\ delegatorLock' \in [Account -> Nat]
<1> DEFINE removed == RmDelegation(candidate[c], d, r.amount)
           rest == [delegator[d] EXCEPT !.lessTotal = Sub(@, r.amount)]
           state == WithoutBond(rest, c)
<1>1. /\ c \in DOMAIN candidate
      /\ removed.ok /\ SetBook(c, removed.book)
      /\ \/ delegator' = Drop(delegator, d)
         \/ delegator' = [delegator EXCEPT ![d] = state]
      /\ delegatorLock' = [delegatorLock EXCEPT ![d] = state.total]
  BY DEF ExecuteRevoke, IsCandidate, Fulfilled
<1>2. IsDelegatorState(rest)
  BY LessPendingType DEF IInv, DelegatorsInOrder
<1> HIDE DEF rest
<1>3. IsDelegatorState(state)
  BY <1>2, WithoutBondType
<1>4. CandidateInv(candidate[c])
  BY <1>1 DEF IInv, CandidatesInOrder
<1>5. BookInv(removed.book) /\ SameCandidate(candidate[c], removed.book)
  BY <1>1, <1>4, RmDelegationKeepsInv DEF CandidateInv
<1> HIDE DEF removed, state
<1>6. CandidateInv(removed.book)
  BY <1>4, <1>5, SameCandidateKeepsInv
<1>7. CandidatesInOrder' /\ IsStorageMap(pool, Account, Nat)'
  BY <1>1, <1>6, WriteBook DEF IInv, BalancesInOrder
<1>8. DelegatorsInOrder'
  <2>1. CASE delegator' = Drop(delegator, d)
    BY <2>1 DEF IInv, DelegatorsInOrder, Drop
  <2>2. CASE delegator' = [delegator EXCEPT ![d] = state]
    BY <1>3, <2>2, WriteDelegator DEF IInv
  <2> QED BY <1>1, <2>1, <2>2
<1>9. state.total \in Nat
  BY <1>3, DelegatorFields
<1>10. delegatorLock' \in [Account -> Nat]
  BY <1>1, <1>9 DEF IInv, BalancesInOrder
<1> QED BY <1>7, <1>8, <1>10

\* The other kind of request.
LEMMA ExecuteDecreaseInv ==
    ASSUME IInv, NEW d \in Account, NEW c \in Account, NEW r, ExecuteDecrease(d, c, r),
           r.amount \in Nat
    PROVE  /\ CandidatesInOrder' /\ DelegatorsInOrder'
           /\ IsStorageMap(pool, Account, Nat)'
           /\ delegatorLock' \in [Account -> Nat]
<1> DEFINE ds == delegator[d]
           bond == ds.bonds[c]
           left == Sub(ds.total, r.amount)
           shrunk == DecreaseDelegation(candidate[c], d, bond, r.amount)
           rest == [ds EXCEPT !.lessTotal = Sub(@, r.amount)]
           bonds == Put(ds.bonds, c, bond - r.amount)
           new == [rest EXCEPT !.bonds = bonds, !.total = left]
<1>1. /\ c \in DOMAIN candidate /\ d \in DOMAIN delegator /\ c \in DOMAIN ds.bonds
      /\ bond > r.amount
      /\ shrunk.ok /\ SetBook(c, shrunk.book)
      /\ delegatorLock' = [delegatorLock EXCEPT ![d] = left]
  BY DEF ExecuteDecrease, IsCandidate, Backs, IsDelegator
<1>2. IsDelegatorState(ds)
  BY <1>1 DEF IInv, DelegatorsInOrder
<1>3. IsStorageMap(ds.bonds, Account, Nat) /\ bond - r.amount \in Nat
  <2>1. IsStorageMap(ds.bonds, Account, Nat)
    BY <1>2, DelegatorFields
  <2>2. bond \in Nat
    BY <1>1, <2>1 DEF IsStorageMap
  <2> QED BY <1>1, <2>1, <2>2
<1>4. IsStorageMap(bonds, Account, Nat)
  BY <1>3, PutStorage, Zenon
<1>5. left \in Nat
  BY <1>2, DelegatorFields, SubInNat
<1>6. IsDelegatorState(rest) /\ rest.bonds = ds.bonds
  <2>1. IsDelegatorState(rest)
    BY <1>2, LessPendingType
  <2> QED BY <1>2, <2>1 DEF IsDelegatorState
<1>7. delegator' = [delegator EXCEPT ![d] = new]
  BY <1>2, <1>6 DEF ExecuteDecrease, Fulfilled, IsDelegatorState
<1>8. CandidateInv(candidate[c])
  BY <1>1 DEF IInv, CandidatesInOrder
<1>9. BookInv(shrunk.book) /\ SameCandidate(candidate[c], shrunk.book)
  BY <1>1, <1>8, DecreaseDelegationKeepsInv DEF CandidateInv
<1> HIDE DEF ds, bond, left, shrunk, rest, bonds
<1>10. IsDelegatorState(new)
  BY <1>4, <1>5, <1>6, DelegatorExcept
<1> HIDE DEF new
<1>11. CandidateInv(shrunk.book)
  BY <1>8, <1>9, SameCandidateKeepsInv
<1>12. CandidatesInOrder' /\ IsStorageMap(pool, Account, Nat)'
  BY <1>1, <1>11, WriteBook DEF IInv, BalancesInOrder
<1>13. DelegatorsInOrder'
  BY <1>1, <1>7, <1>10, WriteDelegator DEF IInv
<1>14. delegatorLock' \in [Account -> Nat]
  BY <1>1, <1>5 DEF IInv, BalancesInOrder
<1> QED BY <1>12, <1>13, <1>14

\* execute_delegation_request, of either kind.
LEMMA ExecuteDelegationRequestInv ==
    ASSUME IInv, NEW d \in Account, NEW c \in Account, ExecuteDelegationRequest(d, c)
    PROVE  IInv'
<1>1. PICK r \in RequestsFrom(d, c) :
        /\ ExecuteRevoke(d, c, r) \/ ExecuteDecrease(d, c, r)
        /\ requests' = requests \ {r}
        /\ total' = Sub(total, r.amount)
  BY DEF ExecuteDelegationRequest
<1>2. d \in DOMAIN delegator /\ UNCHANGED <<collatorLock, whitelist, round>>
  BY DEF ExecuteDelegationRequest, IsDelegator
<1>3. r.amount \in Nat
  BY DEF IInv, CalendarInOrder, RequestsFrom, Request
<1>4. /\ CandidatesInOrder' /\ DelegatorsInOrder'
      /\ IsStorageMap(pool, Account, Nat)' /\ delegatorLock' \in [Account -> Nat]
  BY <1>1, <1>2, <1>3, ExecuteRevokeInv, ExecuteDecreaseInv
<1>5. total' \in Nat
  BY <1>1, SubInNat DEF IInv, BalancesInOrder
<1>6. BalancesInOrder'
  BY <1>2, <1>4, <1>5 DEF IInv, BalancesInOrder
<1>7. CalendarInOrder'
  BY <1>1, <1>2 DEF IInv, CalendarInOrder
<1> QED BY <1>4, <1>6, <1>7 DEF IInv

-----------------------------------------------------------------------------
(* Each call keeps the invariant: leaving the set of delegators *)

\* Announcing that, and taking it back.
LEMMA AnnounceLeaveInv ==
    ASSUME IInv, NEW d \in Account, ScheduleLeaveDelegators(d) \/ CancelLeaveDelegators(d)
    PROVE  IInv'
<1>1. d \in DOMAIN delegator
  BY DEF ScheduleLeaveDelegators, CancelLeaveDelegators, IsDelegator
<1>2. IsDelegatorState(delegator[d])
  BY <1>1 DEF IInv, DelegatorsInOrder
<1>3. CASE ScheduleLeaveDelegators(d)
  <2> DEFINE bonds == delegator[d].bonds
             old == OwnRequests(d)
             kept == {r \in old : IsRevoke(r)}
             revoked == DOMAIN bonds \ {r.collator : r \in kept}
             new == {NewRequest(d, c, "Revoke", bonds[c], LeaveDelegatorsDelay) : c \in revoked}
             before == Sub(delegator[d].lessTotal, SumOf([r \in old |-> r.amount]))
             less == before + SumOf(bonds)
  <2>1. /\ requests' = (requests \ old) \cup kept \cup new
        /\ delegator' = [delegator EXCEPT ![d] = [delegator[d] EXCEPT !.lessTotal = less]]
        /\ UNCHANGED <<candidate, pool, collatorLock, delegatorLock, total, whitelist, round>>
    BY <1>3 DEF ScheduleLeaveDelegators
  <2>2. old \subseteq requests
    BY DEF OwnRequests, RequestsFrom
  <2>3. new \subseteq Request
    <3>1. IsStorageMap(bonds, Account, Nat)
      BY <1>2, DelegatorFields
    <3>2. ASSUME NEW c \in DOMAIN bonds
          PROVE  NewRequest(d, c, "Revoke", bonds[c], LeaveDelegatorsDelay) \in Request
      <4>1. c \in Account /\ bonds[c] \in Nat
        BY <3>1, <3>2 DEF IsStorageMap
      <4>2. round + LeaveDelegatorsDelay \in Nat
        BY DelaysAssumption DEF IInv, CalendarInOrder
      <4> QED BY <4>1, <4>2 DEF NewRequest, Request
    <3> QED BY <3>2
  <2>4. less \in Nat
    <3>1. before \in Nat
      BY <1>2, DelegatorFields, SubInNat
    <3>2. SumOf(bonds) \in Nat
      BY <1>2, BondsSumInNat
    <3> HIDE DEF before, bonds
    <3> QED BY <3>1, <3>2
  <2> HIDE DEF old, new, less
  <2>5. requests' \subseteq Request
    BY <2>1, <2>2, <2>3 DEF IInv, CalendarInOrder
  <2> QED BY <1>1, <2>1, <2>4, <2>5, PendingCallInv
<1>4. CASE CancelLeaveDelegators(d)
  <2> DEFINE less == Sub(delegator[d].lessTotal, SumOf([r \in OwnRequests(d) |-> r.amount]))
  <2>1. /\ requests' = requests \ OwnRequests(d)
        /\ delegator' = [delegator EXCEPT ![d] = [delegator[d] EXCEPT !.lessTotal = less]]
        /\ UNCHANGED <<candidate, pool, collatorLock, delegatorLock, total, whitelist, round>>
    BY <1>4 DEF CancelLeaveDelegators
  <2>2. less \in Nat
    BY <1>2, DelegatorFields, SubInNat
  <2> HIDE DEF less
  <2>3. requests' \subseteq Request
    BY <2>1 DEF IInv, CalendarInOrder
  <2> QED BY <1>1, <2>1, <2>2, <2>3, PendingCallInv
<1> QED BY <1>3, <1>4

\* Every book the delegator is in loses the delegation, as one by one.
LEMMA ExecuteLeaveDelegatorsInv ==
    ASSUME IInv, NEW d \in Account, ExecuteLeaveDelegators(d)
    PROVE  IInv'
<1> DEFINE bonds == delegator[d].bonds
           backed == DOMAIN bonds \cap DOMAIN candidate
           removed == [c \in backed |-> RmDelegation(candidate[c], d, bonds[c])]
           unbacked == {c \in backed : removed[c].ok}
           after == [c \in DOMAIN candidate |->
                        IF c \in unbacked THEN removed[c].book ELSE candidate[c]]
           moved == {c \in unbacked : /\ after[c].status = "Active"
                                      /\ after[c].counted # candidate[c].counted}
           returned == SumOf([c \in unbacked |-> bonds[c]])
<1>1. /\ candidate' = after
      /\ pool' = [c \in DOMAIN pool \cup moved |->
                    IF c \in moved THEN after[c].counted ELSE pool[c]]
      /\ total' = Sub(total, returned)
      /\ requests' = requests \ OwnRequests(d)
      /\ delegator' = Drop(delegator, d)
      /\ delegatorLock' = [delegatorLock EXCEPT ![d] = 0]
      /\ UNCHANGED <<collatorLock, whitelist, round>>
  BY DEF ExecuteLeaveDelegators
<1>2. \A c \in DOMAIN candidate : CandidateInv(candidate[c])
  BY DEF IInv, CandidatesInOrder
<1>3. ASSUME NEW c \in unbacked PROVE CandidateInv(removed[c].book)
  <2>1. /\ c \in DOMAIN candidate
        /\ removed[c] = RmDelegation(candidate[c], d, bonds[c]) /\ removed[c].ok
    BY <1>3
  <2>2. CandidateInv(candidate[c])
    BY <1>2, <2>1
  <2>3. BookInv(removed[c].book) /\ SameCandidate(candidate[c], removed[c].book)
    BY <2>1, <2>2, RmDelegationKeepsInv DEF CandidateInv
  <2> QED BY <2>2, <2>3, SameCandidateKeepsInv
<1>4. moved \subseteq DOMAIN candidate /\ DOMAIN after = DOMAIN candidate
  OBVIOUS
<1> HIDE DEF backed, removed, unbacked, moved, returned
<1>5. \A c \in DOMAIN candidate : CandidateInv(after[c])
  BY <1>2, <1>3
<1> HIDE DEF after
<1>6. \A c \in DOMAIN candidate : after[c] \in Book /\ after[c].counted \in Nat
  BY <1>5, BookParts
<1>7. DOMAIN candidate \subseteq Account
  BY DEF IInv, CandidatesInOrder, IsStorageMap
<1>8. CandidatesInOrder'
  <2>1. after \in [DOMAIN after -> Book]
    BY <1>1, <1>4, <1>6 DEF after
  <2> QED BY <1>1, <1>4, <1>5, <1>7, <2>1 DEF CandidatesInOrder, IsStorageMap
<1>9. IsStorageMap(pool, Account, Nat)'
  BY <1>1, <1>4, <1>6, <1>7 DEF IInv, BalancesInOrder, IsStorageMap
<1>10. total' \in Nat
  BY <1>1, SubInNat DEF IInv, BalancesInOrder
<1>11. BalancesInOrder'
  BY <1>1, <1>9, <1>10 DEF IInv, BalancesInOrder
<1>12. DelegatorsInOrder' /\ CalendarInOrder'
  BY <1>1 DEF IInv, DelegatorsInOrder, CalendarInOrder, Drop
<1> QED BY <1>8, <1>11, <1>12 DEF IInv

\* A round starts.
LEMMA NextRoundInv == ASSUME IInv, NextRound PROVE IInv'
BY DEF NextRound, IInv, CandidatesInOrder, DelegatorsInOrder, BalancesInOrder, CalendarInOrder

-----------------------------------------------------------------------------
(* The invariant *)

\* Any call of a candidate.
LEMMA CandidateCallInv ==
    ASSUME IInv, NEW c \in Joiners, CandidateCall(c) PROVE IInv'
<1>1. c \in Account /\ Amounts \subseteq Nat
  BY AccountsAssumption, AmountsAssumption
<1>2. CASE \E bond \in Amounts : JoinCandidates(c, bond)
  BY <1>1, <1>2, JoinCandidatesInv
<1>3. CASE \/ ScheduleLeaveCandidates(c) \/ CancelLeaveCandidates(c)
           \/ GoOffline(c) \/ GoOnline(c)
  BY <1>1, <1>3, StatusCallsInv
<1>4. CASE ExecuteLeaveCandidates(c)
  BY <1>1, <1>4, ExecuteLeaveCandidatesInv
<1>5. CASE \E more \in Amounts : CandidateBondMore(c, more)
  BY <1>1, <1>5, CandidateBondMoreInv
<1>6. CASE \E less \in Amounts : ScheduleCandidateBondLess(c, less)
  BY <1>1, <1>6, BondLessCallsInv
<1>7. CASE ExecuteCandidateBondLess(c)
  BY <1>1, <1>7, ExecuteCandidateBondLessInv
<1>8. CASE CancelCandidateBondLess(c)
  <2>1. 0 \in Nat
    OBVIOUS
  <2> QED BY <1>1, <1>8, <2>1, BondLessCallsInv
<1> QED BY <1>2, <1>3, <1>4, <1>5, <1>6, <1>7, <1>8 DEF CandidateCall

\* Any call of a delegator.
LEMMA DelegationCallInv ==
    ASSUME IInv, NEW d \in Backers, NEW c \in Joiners,
           DelegationCall(d, c) \/ DelegatorCall(d)
    PROVE  IInv'
<1>1. c \in Account /\ d \in Account /\ Amounts \subseteq Nat
  BY AccountsAssumption, AmountsAssumption
<1>2. CASE \E amount \in Amounts : Delegate(d, c, amount)
  BY <1>1, <1>2, DelegateInv
<1>3. CASE \E more \in Amounts : DelegatorBondMore(d, c, more)
  BY <1>1, <1>3, DelegatorBondMoreInv
<1>4. CASE \E less \in Amounts : ScheduleDelegatorBondLess(d, c, less)
  BY <1>1, <1>4, RequestCallsInv
<1>5. CASE ScheduleRevokeDelegation(d, c) \/ CancelDelegationRequest(d, c)
  <2>1. 0 \in Nat
    OBVIOUS
  <2> QED BY <1>1, <1>5, <2>1, RequestCallsInv
<1>6. CASE ExecuteDelegationRequest(d, c)
  BY <1>1, <1>6, ExecuteDelegationRequestInv
<1>7. CASE DelegatorCall(d)
  BY <1>1, <1>7, AnnounceLeaveInv, ExecuteLeaveDelegatorsInv DEF DelegatorCall
<1> QED BY <1>2, <1>3, <1>4, <1>5, <1>6, <1>7 DEF DelegationCall

\* Every step keeps it.
LEMMA StepInv == ASSUME IInv, [Next]_vars PROVE IInv'
<1>1. CASE Next
  <2>1. CASE \E c \in Joiners : CandidateCall(c)
    BY <2>1, CandidateCallInv
  <2>2. CASE \E d \in Backers, c \in Joiners : DelegationCall(d, c)
    BY <2>2, DelegationCallInv
  <2>3. CASE \E d \in Backers : DelegatorCall(d)
    <3>1. PICK d \in Backers : DelegatorCall(d)
      BY <2>3
    <3>2. d \in Account
      BY AccountsAssumption
    <3> QED BY <3>1, <3>2, AnnounceLeaveInv, ExecuteLeaveDelegatorsInv DEF DelegatorCall
  <2>4. CASE NextRound
    BY <2>4, NextRoundInv
  <2> QED BY <1>1, <2>1, <2>2, <2>3, <2>4 DEF Next, Call
<1>2. CASE UNCHANGED vars
  BY <1>2 DEF vars, IInv, CandidatesInOrder, DelegatorsInOrder, BalancesInOrder,
              CalendarInOrder
<1> QED BY <1>1, <1>2

(***************************************************************************)
(* In every reachable state every candidate's book is in order: both lists *)
(* within their capacities, the bottom one used only when the top one is   *)
(* full, the counted stake the self bond plus the top total, the cached    *)
(* amounts, capacities and count those of the lists, and no pending        *)
(* decrease greater than the self bond.                                    *)
(***************************************************************************)
THEOREM BooksStayInOrder == Spec => []IInv
<1>1. Init => IInv
  BY InitInv
<1>2. IInv /\ [Next]_vars => IInv'
  BY StepInv
<1> QED BY <1>1, <1>2, PTL DEF Spec

\* Every value in storage has its type: no balance is ever negative or undefined.
THEOREM TypesAreKept == Spec => []TypeOK
<1>1. IInv => TypeOK
  BY DEF IInv, CandidatesInOrder, DelegatorsInOrder, BalancesInOrder, CalendarInOrder, TypeOK
<1> QED BY <1>1, BooksStayInOrder, PTL

-----------------------------------------------------------------------------
(* Roles *)

\* Of all calls only join_candidates and delegate give anyone a role.
LEMMA StepKeepsRolesDisjoint ==
    ASSUME RolesAreDisjoint, [Next]_vars PROVE RolesAreDisjoint'
<1> DEFINE Shrinks == /\ DOMAIN candidate' \subseteq DOMAIN candidate
                      /\ DOMAIN delegator' \subseteq DOMAIN delegator
<1>1. ASSUME Shrinks PROVE RolesAreDisjoint'
  BY <1>1 DEF RolesAreDisjoint
<1>2. ASSUME NEW a, NEW bond, JoinCandidates(a, bond) PROVE RolesAreDisjoint'
  BY <1>2 DEF JoinCandidates, RolesAreDisjoint, IsDelegator, Put
<1>3. ASSUME NEW d, NEW c, NEW amount, Delegate(d, c, amount) PROVE RolesAreDisjoint'
  <2>1. DOMAIN candidate' = DOMAIN candidate
    BY <1>3 DEF Delegate, SetBook
  <2>2. DOMAIN delegator' \subseteq DOMAIN delegator \cup {d}
    BY <1>3 DEF Delegate
  <2>3. d \notin DOMAIN candidate
    BY <1>3 DEF Delegate, CanBond, IsDelegator, IsCandidate, RolesAreDisjoint
  <2> QED BY <2>1, <2>2, <2>3 DEF RolesAreDisjoint
<1>4. ASSUME NEW c, CandidateCall(c) PROVE RolesAreDisjoint'
  <2>1. ASSUME \/ ScheduleLeaveCandidates(c) \/ CancelLeaveCandidates(c)
               \/ GoOffline(c) \/ GoOnline(c) \/ CancelCandidateBondLess(c)
               \/ \E less \in Amounts : ScheduleCandidateBondLess(c, less)
        PROVE  Shrinks
    BY <2>1 DEF ScheduleLeaveCandidates, CancelLeaveCandidates, GoOffline, GoOnline,
                CancelCandidateBondLess, ScheduleCandidateBondLess
  <2>2. ASSUME \/ ExecuteCandidateBondLess(c)
               \/ \E more \in Amounts : CandidateBondMore(c, more)
        PROVE  Shrinks
    BY <2>2 DEF ExecuteCandidateBondLess, CandidateBondMore, SetBond
  <2>3. ASSUME ExecuteLeaveCandidates(c) PROVE Shrinks
    BY <2>3 DEF ExecuteLeaveCandidates, Drop
  <2> HIDE DEF Shrinks
  <2> QED BY <1>1, <1>2, <1>4, <2>1, <2>2, <2>3 DEF CandidateCall
<1>5. ASSUME NEW d, NEW c, DelegationCall(d, c) PROVE RolesAreDisjoint'
  <2>1. ASSUME NEW more, DelegatorBondMore(d, c, more) PROVE Shrinks
    BY <2>1 DEF DelegatorBondMore, SetBook
  <2>2. ASSUME NEW action, NEW amount, ScheduleRequest(d, c, action, amount) PROVE Shrinks
    BY <2>2 DEF ScheduleRequest
  <2>3. ASSUME CancelDelegationRequest(d, c) PROVE Shrinks
    BY <2>3 DEF CancelDelegationRequest
  <2>4. ASSUME NEW r, ExecuteRevoke(d, c, r) PROVE Shrinks
    BY <2>4 DEF ExecuteRevoke, SetBook, Drop
  <2>5. ASSUME NEW r, ExecuteDecrease(d, c, r) PROVE Shrinks
    BY <2>5 DEF ExecuteDecrease, SetBook
  <2> HIDE DEF Shrinks
  <2> QED BY <1>1, <1>3, <1>5, <2>1, <2>2, <2>3, <2>4, <2>5
          DEF DelegationCall, ScheduleRevokeDelegation, ScheduleDelegatorBondLess,
              ExecuteDelegationRequest
<1>6. ASSUME NEW d, DelegatorCall(d) PROVE Shrinks
  <2>1. ASSUME ScheduleLeaveDelegators(d) PROVE Shrinks
    BY <2>1 DEF ScheduleLeaveDelegators
  <2>2. ASSUME CancelLeaveDelegators(d) PROVE Shrinks
    BY <2>2 DEF CancelLeaveDelegators
  <2>3. ASSUME ExecuteLeaveDelegators(d) PROVE Shrinks
    BY <2>3 DEF ExecuteLeaveDelegators, Drop
  <2> HIDE DEF Shrinks
  <2> QED BY <1>6, <2>1, <2>2, <2>3 DEF DelegatorCall
<1>7. ASSUME NextRound \/ UNCHANGED vars PROVE Shrinks
  BY <1>7 DEF NextRound, vars
<1> HIDE DEF Shrinks
<1> QED BY <1>1, <1>4, <1>5, <1>6, <1>7 DEF Next, Call

(***************************************************************************)
(* No account is ever a candidate and a delegator at once.                 *)
(***************************************************************************)
THEOREM RolesStayDisjoint == Spec => []RolesAreDisjoint
<1>1. Init => RolesAreDisjoint
  BY DEF Init, RolesAreDisjoint, NoEntries
<1>2. RolesAreDisjoint /\ [Next]_vars => RolesAreDisjoint'
  BY StepKeepsRolesDisjoint
<1> QED BY <1>1, <1>2, PTL DEF Spec

-----------------------------------------------------------------------------
(* The candidate pool *)

\* Neither way of writing a book back leaves a stale stake in the pool.
LEMMA WriteBookPool ==
    ASSUME PoolIsCurrent, NEW c \in DOMAIN candidate, NEW book,
           book.status = candidate[c].status,
           SetBook(c, book) \/ SetBond(c, book)
    PROVE  PoolIsCurrent'
<1> DEFINE active == {x \in DOMAIN candidate : candidate[x].status = "Active"}
<1>1. candidate' = [candidate EXCEPT ![c] = book]
  BY DEF SetBook, SetBond
<1>2. {x \in DOMAIN candidate' : candidate'[x].status = "Active"} = active
  BY <1>1
<1>3. pool = [x \in active |-> candidate[x].counted]
  BY DEF PoolIsCurrent
<1>4. DOMAIN pool = active
  BY <1>3
<1>5. pool' = [x \in active |-> candidate'[x].counted]
  <2>1. CASE c \in active /\ pool' = Put(pool, c, book.counted)
    <3>1. pool' = [x \in active |-> IF x = c THEN book.counted ELSE pool[x]]
      BY <1>4, <2>1 DEF Put
    <3> QED BY <1>1, <1>3, <3>1
  <2>2. CASE pool' = pool /\ (c \in active => book.counted = candidate[c].counted)
    BY <1>1, <1>3, <2>2
  <2>3. \/ c \in active /\ pool' = Put(pool, c, book.counted)
        \/ pool' = pool /\ (c \in active => book.counted = candidate[c].counted)
    BY DEF SetBook, SetBond
  <2> QED BY <2>1, <2>2, <2>3
<1> QED BY <1>2, <1>5 DEF PoolIsCurrent

\* The calls on a candidate's metadata keep the pool in step with the status.
LEMMA CandidateCallPool ==
    ASSUME IInv, PoolIsCurrent, NEW c \in Joiners, CandidateCall(c)
    PROVE  PoolIsCurrent'
<1>1. ASSUME NEW bond, JoinCandidates(c, bond) PROVE PoolIsCurrent'
  <2>1. NewBook(bond).status = "Active" /\ NewBook(bond).counted = bond
    BY DEF NewBook
  <2> DEFINE new == NewBook(bond)
  <2> HIDE DEF new
  <2>2. /\ candidate' = Put(candidate, c, new) /\ pool' = Put(pool, c, bond)
        /\ new.status = "Active" /\ new.counted = bond
    BY <1>1, <2>1 DEF JoinCandidates, new
  <2> QED BY <2>2 DEF PoolIsCurrent, Put
<1>2. ASSUME c \in DOMAIN candidate PROVE candidate[c] \in Book
  BY <1>2, CandidateFields
<1>3. ASSUME ScheduleLeaveCandidates(c) PROVE PoolIsCurrent'
  <2> DEFINE new == [candidate[c] EXCEPT !.status = "Leaving",
                                         !.leaveAt = round + LeaveCandidatesDelay]
  <2>1. c \in DOMAIN candidate /\ pool' = Drop(pool, c)
    BY <1>3 DEF ScheduleLeaveCandidates, IsCandidate
  <2>2. candidate' = [candidate EXCEPT ![c] = new]
    BY <1>3 DEF ScheduleLeaveCandidates
  <2>3. new.status = "Leaving"
    BY <1>2, <2>1 DEF Book
  <2> HIDE DEF new
  <2> QED BY <2>1, <2>2, <2>3 DEF PoolIsCurrent, Drop
<1>4. ASSUME ExecuteLeaveCandidates(c) PROVE PoolIsCurrent'
  <2>1. candidate' = Drop(candidate, c) /\ pool' = pool /\ candidate[c].status = "Leaving"
    BY <1>4 DEF ExecuteLeaveCandidates
  <2> QED BY <2>1 DEF PoolIsCurrent, Drop
<1>5. ASSUME CancelLeaveCandidates(c) PROVE PoolIsCurrent'
  <2> DEFINE new == [candidate[c] EXCEPT !.status = "Active", !.leaveAt = 0]
  <2>1. c \in DOMAIN candidate /\ pool' = Put(pool, c, candidate[c].counted)
    BY <1>5 DEF CancelLeaveCandidates, IsCandidate
  <2>2. candidate' = [candidate EXCEPT ![c] = new]
    BY <1>5 DEF CancelLeaveCandidates
  <2>3. new.status = "Active" /\ new.counted = candidate[c].counted
    BY <1>2, <2>1 DEF Book
  <2> HIDE DEF new
  <2> QED BY <2>1, <2>2, <2>3 DEF PoolIsCurrent, Put
<1>6. ASSUME GoOffline(c) PROVE PoolIsCurrent'
  <2> DEFINE new == [candidate[c] EXCEPT !.status = "Idle"]
  <2>1. c \in DOMAIN candidate /\ pool' = Drop(pool, c)
    BY <1>6 DEF GoOffline, IsCandidate
  <2>2. candidate' = [candidate EXCEPT ![c] = new]
    BY <1>6 DEF GoOffline
  <2>3. new.status = "Idle"
    BY <1>2, <2>1 DEF Book
  <2> HIDE DEF new
  <2> QED BY <2>1, <2>2, <2>3 DEF PoolIsCurrent, Drop
<1>7. ASSUME GoOnline(c) PROVE PoolIsCurrent'
  <2> DEFINE new == [candidate[c] EXCEPT !.status = "Active"]
  <2>1. c \in DOMAIN candidate /\ pool' = Put(pool, c, candidate[c].counted)
    BY <1>7 DEF GoOnline, IsCandidate
  <2>2. candidate' = [candidate EXCEPT ![c] = new]
    BY <1>7 DEF GoOnline
  <2>3. new.status = "Active" /\ new.counted = candidate[c].counted
    BY <1>2, <2>1 DEF Book
  <2> HIDE DEF new
  <2> QED BY <2>1, <2>2, <2>3 DEF PoolIsCurrent, Put
<1>8. ASSUME NEW more, CandidateBondMore(c, more) PROVE PoolIsCurrent'
  <2> DEFINE new == [candidate[c] EXCEPT !.bond = @ + more, !.counted = @ + more]
  <2>1. c \in DOMAIN candidate /\ SetBond(c, new)
    BY <1>8 DEF CandidateBondMore, IsCandidate
  <2>2. new.status = candidate[c].status
    BY <1>2, <2>1 DEF Book
  <2> HIDE DEF new
  <2> QED BY <2>1, <2>2, WriteBookPool
<1>9. ASSUME ExecuteCandidateBondLess(c) PROVE PoolIsCurrent'
  <2> DEFINE new == WithLessBond(candidate[c])
  <2>1. c \in DOMAIN candidate /\ SetBond(c, new)
    BY <1>9 DEF ExecuteCandidateBondLess, IsCandidate
  <2>2. new.status = candidate[c].status
    BY <1>2, <2>1 DEF Book, WithLessBond
  <2> HIDE DEF new
  <2> QED BY <2>1, <2>2, WriteBookPool
<1>10. ASSUME NEW bondLess, c \in DOMAIN candidate, pool' = pool,
              candidate' = [candidate EXCEPT ![c].bondLess = bondLess]
       PROVE  PoolIsCurrent'
  <2> DEFINE new == [candidate[c] EXCEPT !.bondLess = bondLess]
  <2>1. candidate' = [candidate EXCEPT ![c] = new]
    BY <1>10
  <2>2. new.status = candidate[c].status /\ new.counted = candidate[c].counted
    BY <1>2, <1>10 DEF Book
  <2> HIDE DEF new
  <2> QED BY <1>10, <2>1, <2>2 DEF PoolIsCurrent
<1>11. ASSUME NEW less, ScheduleCandidateBondLess(c, less) PROVE PoolIsCurrent'
  BY <1>10, <1>11 DEF ScheduleCandidateBondLess, IsCandidate
<1>12. ASSUME CancelCandidateBondLess(c) PROVE PoolIsCurrent'
  BY <1>10, <1>12 DEF CancelCandidateBondLess, IsCandidate
<1> QED BY <1>1, <1>3, <1>4, <1>5, <1>6, <1>7, <1>8, <1>9, <1>11, <1>12 DEF CandidateCall

\* A delegator who leaves takes stake out of several books and pool entries at once.
LEMMA ExecuteLeaveDelegatorsPool ==
    ASSUME IInv, PoolIsCurrent, NEW d, ExecuteLeaveDelegators(d)
    PROVE  PoolIsCurrent'
<1> DEFINE bonds == delegator[d].bonds
           backed == DOMAIN bonds \cap DOMAIN candidate
           removed == [c \in backed |-> RmDelegation(candidate[c], d, bonds[c])]
           unbacked == {c \in backed : removed[c].ok}
           after == [c \in DOMAIN candidate |->
                        IF c \in unbacked THEN removed[c].book ELSE candidate[c]]
           moved == {c \in unbacked : /\ after[c].status = "Active"
                                      /\ after[c].counted # candidate[c].counted}
<1>1. /\ candidate' = after
      /\ pool' = [c \in DOMAIN pool \cup moved |->
                    IF c \in moved THEN after[c].counted ELSE pool[c]]
  BY DEF ExecuteLeaveDelegators
<1>2. ASSUME NEW c \in unbacked PROVE removed[c].book.status = candidate[c].status
  <2>1. /\ c \in DOMAIN candidate
        /\ removed[c] = RmDelegation(candidate[c], d, bonds[c]) /\ removed[c].ok
    BY <1>2
  <2>2. CandidateInv(candidate[c])
    BY <2>1 DEF IInv, CandidatesInOrder
  <2>3. SameCandidate(candidate[c], removed[c].book)
    BY <2>1, <2>2, RmDelegationKeepsInv DEF CandidateInv
  <2> QED BY <2>3 DEF SameCandidate
<1> HIDE DEF backed, removed
<1>3. \A c \in DOMAIN candidate : after[c].status = candidate[c].status
  BY <1>2
<1>4. \A c \in DOMAIN candidate \ unbacked : after[c] = candidate[c]
  OBVIOUS
<1>5. DOMAIN after = DOMAIN candidate /\ unbacked \subseteq DOMAIN candidate
  BY DEF backed
<1> HIDE DEF after, unbacked
<1>6. \A c \in DOMAIN candidate :
        c \in moved <=> /\ after[c].status = "Active"
                        /\ after[c].counted # candidate[c].counted
  BY <1>4
<1>7. moved \subseteq DOMAIN candidate
  BY <1>5
<1> HIDE DEF moved
<1> DEFINE active == {c \in DOMAIN candidate : candidate[c].status = "Active"}
<1>8. {c \in DOMAIN candidate' : candidate'[c].status = "Active"} = active
  BY <1>1, <1>3, <1>5
<1>9. DOMAIN pool = active /\ \A c \in active : pool[c] = candidate[c].counted
  BY DEF PoolIsCurrent
<1>10. moved \subseteq active
  BY <1>3, <1>6, <1>7
<1>11. pool' = [c \in active |-> IF c \in moved THEN after[c].counted ELSE pool[c]]
  BY <1>1, <1>9, <1>10
<1>12. \A c \in active :
        (IF c \in moved THEN after[c].counted ELSE pool[c]) = candidate'[c].counted
  BY <1>1, <1>3, <1>6, <1>9
<1> HIDE DEF active
<1> QED BY <1>8, <1>11, <1>12, Zenon DEF PoolIsCurrent

\* The calls of delegators keep the pool in step with the counted stake.
LEMMA DelegationCallPool ==
    ASSUME IInv, PoolIsCurrent, NEW d \in Backers, NEW c \in Joiners, DelegationCall(d, c)
    PROVE  PoolIsCurrent'
<1>1. c \in Account /\ d \in Account /\ Amounts \subseteq Nat
  BY AccountsAssumption, AmountsAssumption
<1>2. ASSUME c \in DOMAIN candidate PROVE BookInv(candidate[c])
  BY <1>2 DEF IInv, CandidatesInOrder, CandidateInv
<1>3. ASSUME NEW book, c \in DOMAIN candidate, SameCandidate(candidate[c], book),
             SetBook(c, book)
      PROVE  PoolIsCurrent'
  BY <1>3, WriteBookPool DEF SameCandidate
<1>4. ASSUME NEW amount \in Amounts, Delegate(d, c, amount) PROVE PoolIsCurrent'
  <2> DEFINE bond == [owner |-> d, amount |-> amount]
  <2>1. /\ c \in DOMAIN candidate /\ bond \in Bond
        /\ SetBook(c, AddDelegation(candidate[c], bond).book)
    BY <1>1, <1>4 DEF Delegate, IsCandidate, Bond
  <2> HIDE DEF bond
  <2>2. SameCandidate(candidate[c], AddDelegation(candidate[c], bond).book)
    BY <1>2, <2>1, AddDelegationKeepsInv
  <2> QED BY <1>3, <2>1, <2>2
<1>5. ASSUME NEW more \in Amounts, DelegatorBondMore(d, c, more) PROVE PoolIsCurrent'
  <2> DEFINE bond == delegator[d].bonds[c]
             grown == IncreaseDelegation(candidate[c], d, bond, more)
  <2>1. c \in DOMAIN candidate /\ grown.ok /\ SetBook(c, grown.book)
    BY <1>5 DEF DelegatorBondMore, IsCandidate
  <2> HIDE DEF bond
  <2>2. SameCandidate(candidate[c], grown.book)
    BY <1>1, <1>2, <2>1, IncreaseDelegationKeepsInv
  <2> QED BY <1>3, <2>1, <2>2
<1>6. ASSUME NEW r, ExecuteRevoke(d, c, r) PROVE PoolIsCurrent'
  <2> DEFINE removed == RmDelegation(candidate[c], d, r.amount)
  <2>1. c \in DOMAIN candidate /\ removed.ok /\ SetBook(c, removed.book)
    BY <1>6 DEF ExecuteRevoke, IsCandidate
  <2>2. SameCandidate(candidate[c], removed.book)
    BY <1>2, <2>1, RmDelegationKeepsInv
  <2> QED BY <1>3, <2>1, <2>2
<1>7. ASSUME NEW r, ExecuteDecrease(d, c, r) PROVE PoolIsCurrent'
  <2> DEFINE bond == delegator[d].bonds[c]
             shrunk == DecreaseDelegation(candidate[c], d, bond, r.amount)
  <2>1. c \in DOMAIN candidate /\ shrunk.ok /\ SetBook(c, shrunk.book)
    BY <1>7 DEF ExecuteDecrease, IsCandidate
  <2> HIDE DEF bond
  <2>2. SameCandidate(candidate[c], shrunk.book)
    BY <1>1, <1>2, <2>1, DecreaseDelegationKeepsInv
  <2> QED BY <1>3, <2>1, <2>2
<1>8. ASSUME UNCHANGED <<candidate, pool>> PROVE PoolIsCurrent'
  BY <1>8 DEF PoolIsCurrent
<1>9. ASSUME \/ ScheduleRevokeDelegation(d, c) \/ CancelDelegationRequest(d, c)
             \/ \E less \in Amounts : ScheduleDelegatorBondLess(d, c, less)
      PROVE  UNCHANGED <<candidate, pool>>
  BY <1>9 DEF ScheduleRevokeDelegation, ScheduleDelegatorBondLess, ScheduleRequest,
              CancelDelegationRequest
<1> QED BY <1>4, <1>5, <1>6, <1>7, <1>8, <1>9 DEF DelegationCall, ExecuteDelegationRequest

\* Every step keeps the pool current.
LEMMA StepKeepsPoolCurrent ==
    ASSUME IInv, PoolIsCurrent, [Next]_vars PROVE PoolIsCurrent'
<1>1. ASSUME UNCHANGED <<candidate, pool>> PROVE PoolIsCurrent'
  BY <1>1 DEF PoolIsCurrent
<1>2. ASSUME NEW d \in Backers, DelegatorCall(d) PROVE PoolIsCurrent'
  <2>1. ASSUME ScheduleLeaveDelegators(d) \/ CancelLeaveDelegators(d)
        PROVE  UNCHANGED <<candidate, pool>>
    BY <2>1 DEF ScheduleLeaveDelegators, CancelLeaveDelegators
  <2> QED BY <1>1, <1>2, <2>1, ExecuteLeaveDelegatorsPool DEF DelegatorCall
<1>3. ASSUME NextRound \/ UNCHANGED vars PROVE UNCHANGED <<candidate, pool>>
  BY <1>3 DEF NextRound, vars
<1> QED BY <1>1, <1>2, <1>3, CandidateCallPool, DelegationCallPool DEF Next, Call

(***************************************************************************)
(* The pool, which alone decides who collates, holds the active candidates *)
(* and the stake each has at the moment.                                   *)
(***************************************************************************)
THEOREM PoolStaysCurrent == Spec => []PoolIsCurrent
<1>1. Init => PoolIsCurrent
  BY DEF Init, PoolIsCurrent, NoEntries
<1>2. IInv /\ PoolIsCurrent /\ [Next]_vars => PoolIsCurrent'
  BY StepKeepsPoolCurrent
<1> QED BY <1>1, <1>2, BooksStayInOrder, PTL DEF Spec

-----------------------------------------------------------------------------
(* What the records say of the same stake *)

\* Delegator d has a bond on c in its own record.
Backed(dels, d, c) == d \in DOMAIN dels /\ c \in DOMAIN dels[d].bonds

\* That bond, as c's lists should have it.
BondOf(dels, d, c) == [owner |-> d, amount |-> dels[d].bonds[c]]

\* All bonds on c that the delegators have in their records.
OnRecord(dels, c) == {BondOf(dels, d, c) : d \in {x \in DOMAIN dels : Backed(dels, x, c)}}

\* What c's book lists; nothing, when c is no candidate.
Listed(c) == IF c \in DOMAIN candidate THEN Contents(candidate[c]) ELSE {}

(***************************************************************************)
(* A delegator's record: at least one bond, none of them for nothing, and  *)
(* the total is their sum.  execute_leave_candidates relies on it, which   *)
(* takes a delegator with nothing left to have no bonds left.              *)
(***************************************************************************)
Sound(ds) ==
    /\ IsDelegatorState(ds)
    /\ DOMAIN ds.bonds # {}
    /\ \A c \in DOMAIN ds.bonds : ds.bonds[c] > 0
    /\ ds.total = SumOf(ds.bonds)

\* What a request asks for can be done: there is the bond, and enough of it.
CanBeDone(dels, r) ==
    /\ Backed(dels, r.delegator, r.collator)
    /\ LET bond == dels[r.delegator].bonds[r.collator] IN
        IF IsRevoke(r) THEN r.amount = bond ELSE r.amount + MinDelegation <= bond

\* The requests of a delegator, and what they add up to.
RequestsOf(reqs, d) == {r \in reqs : r.delegator = d}
AmountsOf(reqs) == SumOf([r \in reqs |-> r.amount])

BooksAreOrdered == \A c \in DOMAIN candidate : Ordered(candidate[c])
BooksListBonds == \A c \in Account : Listed(c) = OnRecord(delegator, c)
DelegatorsAreSound == \A d \in DOMAIN delegator : Sound(delegator[d])
StakeIsLocked ==
    \A d \in Account : delegatorLock[d] = IF d \in DOMAIN delegator THEN delegator[d].total ELSE 0
SelfBondIsLocked ==
    \A c \in Account : collatorLock[c] = IF c \in DOMAIN candidate THEN candidate[c].bond ELSE 0
RequestsCanBeDone ==
    /\ IsFiniteSet(requests)
    /\ \A r \in requests : CanBeDone(delegator, r)
    /\ \A r, s \in requests : r.delegator = s.delegator /\ r.collator = s.collator => r = s
PendingAddsUp ==
    \A d \in DOMAIN delegator : delegator[d].lessTotal = AmountsOf(RequestsOf(requests, d))
SelfRequestsCanBeDone ==
    \A c \in DOMAIN candidate : candidate[c].bondLess # NoBondLess =>
        candidate[c].bondLess.amount + MinCandidateStk <= candidate[c].bond

(***************************************************************************)
(* The inductive invariant of the whole ledger.  No part of it is          *)
(* inductive alone: that a revoked bond is found in its book needs the     *)
(* books to list the bonds, that they do after an exit needs the records   *)
(* to be sound, that a revoke takes out what the record says needs the     *)
(* requests to be up to date, and these survive a kick only because the    *)
(* kicked are the owners of what the book lost.                            *)
(***************************************************************************)
LedgerAgrees == BooksAreOrdered /\ BooksListBonds /\ DelegatorsAreSound /\ StakeIsLocked
RequestsStand == RequestsCanBeDone /\ PendingAddsUp
SelfBondsStand == SelfBondIsLocked /\ SelfRequestsCanBeDone
Coherent == LedgerAgrees /\ RequestsStand /\ SelfBondsStand

\* Between two states of the records, bonds on candidates other than c are as they were.
ChangesOnly(dels, new, c) ==
    \A d, x : x # c =>
        /\ Backed(new, d, x) <=> Backed(dels, d, x)
        /\ Backed(dels, d, x) => new[d].bonds[x] = dels[d].bonds[x]

\* ... and so are those of c's other backers, while d now has `amount` on it.
Rewrites(dels, new, d, c, amount) ==
    /\ ChangesOnly(dels, new, c)
    /\ Backed(new, d, c) /\ new[d].bonds[c] = amount
    /\ \A x : x # d => (Backed(new, x, c) <=> Backed(dels, x, c))
    /\ \A x : x # d /\ Backed(new, x, c) => new[x].bonds[c] = dels[x].bonds[c]

\* ... while those in K lost theirs.
Loses(dels, new, K, c) ==
    /\ ChangesOnly(dels, new, c)
    /\ \A x : Backed(new, x, c) <=> Backed(dels, x, c) /\ x \notin K
    /\ \A x : Backed(new, x, c) => new[x].bonds[c] = dels[x].bonds[c]

\* ... while those in K lost theirs to d, who now has `amount` on c and had nothing.
GivesWay(dels, new, K, d, c, amount) ==
    /\ ChangesOnly(dels, new, c)
    /\ Backed(new, d, c) /\ new[d].bonds[c] = amount
    /\ \A x : x # d => (Backed(new, x, c) <=> Backed(dels, x, c) /\ x \notin K)
    /\ \A x : x # d /\ Backed(new, x, c) => new[x].bonds[c] = dels[x].bonds[c]

\* The bonds on record on a candidate, one by one.
LEMMA InRecord ==
    ASSUME NEW dels, NEW c, NEW e
    PROVE  e \in OnRecord(dels, c) <=>
             \E d : Backed(dels, d, c) /\ e = BondOf(dels, d, c)
BY DEF OnRecord, Backed

\* Records that agree on a candidate record the same bonds on it.
LEMMA SameRecord ==
    ASSUME NEW dels, NEW new, NEW c,
           \A d : Backed(new, d, c) <=> Backed(dels, d, c),
           \A d : Backed(dels, d, c) => new[d].bonds[c] = dels[d].bonds[c]
    PROVE  OnRecord(new, c) = OnRecord(dels, c)
<1>1. \A d : Backed(dels, d, c) => BondOf(new, d, c) = BondOf(dels, d, c)
  BY DEF BondOf
<1>2. ASSUME NEW e \in OnRecord(new, c) PROVE e \in OnRecord(dels, c)
  <2>1. PICK d : Backed(new, d, c) /\ e = BondOf(new, d, c)
    BY InRecord
  <2> QED BY <1>1, <2>1, InRecord
<1>3. ASSUME NEW e \in OnRecord(dels, c) PROVE e \in OnRecord(new, c)
  <2>1. PICK d : Backed(dels, d, c) /\ e = BondOf(dels, d, c)
    BY InRecord
  <2> QED BY <1>1, <2>1, InRecord
<1> QED BY <1>2, <1>3

\* Some owners lose their bond on a candidate.
LEMMA RecordWithout ==
    ASSUME NEW dels, NEW new, NEW c, NEW K, Loses(dels, new, K, c)
    PROVE  OnRecord(new, c) = {e \in OnRecord(dels, c) : e.owner \notin K}
<1>0. /\ \A d : Backed(new, d, c) <=> Backed(dels, d, c) /\ d \notin K
      /\ \A d : Backed(new, d, c) => new[d].bonds[c] = dels[d].bonds[c]
  BY DEF Loses
<1>1. \A d : Backed(new, d, c) => BondOf(new, d, c) = BondOf(dels, d, c)
  BY <1>0 DEF BondOf
<1>2. \A d : BondOf(dels, d, c).owner = d
  BY DEF BondOf
<1>3. \A e : e \in OnRecord(new, c) <=> e \in OnRecord(dels, c) /\ e.owner \notin K
  <2>1. ASSUME NEW e \in OnRecord(new, c) PROVE e \in OnRecord(dels, c) /\ e.owner \notin K
    <3>1. PICK d : Backed(new, d, c) /\ e = BondOf(new, d, c)
      BY InRecord
    <3>2. Backed(dels, d, c) /\ d \notin K /\ e = BondOf(dels, d, c)
      BY <1>0, <1>1, <3>1
    <3> QED BY <1>2, <3>2, InRecord
  <2>2. ASSUME NEW e \in OnRecord(dels, c), e.owner \notin K PROVE e \in OnRecord(new, c)
    <3>1. PICK d : Backed(dels, d, c) /\ e = BondOf(dels, d, c)
      BY InRecord
    <3>2. Backed(new, d, c) /\ e = BondOf(new, d, c)
      BY <1>0, <1>1, <1>2, <2>2, <3>1
    <3> QED BY <3>2, InRecord
  <2> QED BY <2>1, <2>2
<1> QED BY <1>3

\* One owner's bond on a candidate appears or changes, and some others lose theirs.
LEMMA RecordChanged ==
    ASSUME NEW dels, NEW new, NEW c, NEW d, NEW K, NEW amount,
           GivesWay(dels, new, K, d, c, amount)
    PROVE  OnRecord(new, c) = {e \in OnRecord(dels, c) : e.owner # d /\ e.owner \notin K}
                                \cup {[owner |-> d, amount |-> amount]}
<1>0. /\ Backed(new, d, c) /\ BondOf(new, d, c) = [owner |-> d, amount |-> amount]
      /\ \A x : x # d => (Backed(new, x, c) <=> Backed(dels, x, c) /\ x \notin K)
      /\ \A x : x # d /\ Backed(new, x, c) => new[x].bonds[c] = dels[x].bonds[c]
  BY DEF GivesWay, BondOf
<1>1. \A x : x # d /\ Backed(new, x, c) => BondOf(new, x, c) = BondOf(dels, x, c)
  BY <1>0 DEF BondOf
<1>2. \A x : BondOf(dels, x, c).owner = x
  BY DEF BondOf
<1>3. \A e : e \in OnRecord(new, c) <=> \/ e \in OnRecord(dels, c) /\ e.owner # d /\ e.owner \notin K
                                        \/ e = BondOf(new, d, c)
  <2>1. ASSUME NEW e \in OnRecord(new, c), e # BondOf(new, d, c)
        PROVE  e \in OnRecord(dels, c) /\ e.owner # d /\ e.owner \notin K
    <3>1. PICK x : Backed(new, x, c) /\ e = BondOf(new, x, c)
      BY InRecord
    <3>2. Backed(dels, x, c) /\ x # d /\ x \notin K /\ e = BondOf(dels, x, c)
      BY <1>0, <1>1, <2>1, <3>1
    <3> QED BY <1>2, <3>2, InRecord
  <2>2. ASSUME NEW e \in OnRecord(dels, c), e.owner # d, e.owner \notin K
        PROVE  e \in OnRecord(new, c)
    <3>1. PICK x : Backed(dels, x, c) /\ e = BondOf(dels, x, c)
      BY InRecord
    <3>2. Backed(new, x, c) /\ e = BondOf(new, x, c)
      BY <1>0, <1>1, <1>2, <2>2, <3>1
    <3> QED BY <3>2, InRecord
  <2>3. BondOf(new, d, c) \in OnRecord(new, c)
    BY <1>0, InRecord
  <2> QED BY <2>1, <2>2, <2>3
<1> QED BY <1>0, <1>3

-----------------------------------------------------------------------------
(* Sound records *)

\* The bonds of a record: finitely many balances.
LEMMA BondsOfSound ==
    ASSUME NEW ds, IsDelegatorState(ds)
    PROVE  /\ IsStorageMap(ds.bonds, Account, Nat)
           /\ IsFiniteSet(DOMAIN ds.bonds) /\ ds.bonds \in [DOMAIN ds.bonds -> Nat]
           /\ ds.total \in Nat /\ ds.lessTotal \in Nat /\ SumOf(ds.bonds) \in Nat
<1>1. IsStorageMap(ds.bonds, Account, Nat) /\ ds.total \in Nat /\ ds.lessTotal \in Nat
  BY DelegatorFields
<1>2. DOMAIN ds.bonds \subseteq Account /\ ds.bonds \in [DOMAIN ds.bonds -> Nat]
  BY <1>1 DEF IsStorageMap
<1> QED BY <1>1, <1>2, AccountsAssumption, FS_Subset, BondsSumInNat

\* The fields of a rewritten record.
LEMMA RewrittenFields ==
    ASSUME NEW ds, IsDelegatorState(ds), NEW bonds, NEW sum
    PROVE  /\ [ds EXCEPT !.bonds = bonds, !.total = sum].bonds = bonds
           /\ [ds EXCEPT !.bonds = bonds, !.total = sum].total = sum
           /\ [ds EXCEPT !.bonds = bonds, !.total = sum].lessTotal = ds.lessTotal
           /\ [ds EXCEPT !.lessTotal = sum].bonds = ds.bonds
           /\ [ds EXCEPT !.lessTotal = sum].total = ds.total
           /\ [ds EXCEPT !.lessTotal = sum].lessTotal = sum
BY DEF IsDelegatorState

\* What is pending on a record is no part of its soundness.
LEMMA SoundPending ==
    ASSUME NEW ds, Sound(ds), NEW less \in Nat
    PROVE  /\ Sound([ds EXCEPT !.lessTotal = less])
           /\ [ds EXCEPT !.lessTotal = less].bonds = ds.bonds
           /\ [ds EXCEPT !.lessTotal = less].total = ds.total
           /\ [ds EXCEPT !.lessTotal = less].lessTotal = less
<1>1. IsDelegatorState(ds)
  BY DEF Sound
<1> DEFINE new == [ds EXCEPT !.lessTotal = less]
<1>2. new.bonds = ds.bonds /\ new.total = ds.total /\ new.lessTotal = less
  BY <1>1, RewrittenFields
<1>3. IsDelegatorState(new)
  BY <1>1 DEF IsDelegatorState
<1> HIDE DEF new
<1> QED BY <1>2, <1>3 DEF Sound, new

\* A record with one bond written, a first one on the candidate or another amount.
WithAmount(ds, c, amount, sum) == [ds EXCEPT !.bonds = Put(ds.bonds, c, amount), !.total = sum]

\* The new total is what the old one and the new amount make it.
Totals(ds, c, amount, sum) ==
    /\ amount \in Nat /\ amount > 0 /\ sum \in Nat
    /\ sum + (IF c \in DOMAIN ds.bonds THEN ds.bonds[c] ELSE 0) = ds.total + amount

\* Such a record is sound when the total is written with it.
LEMMA SoundPut ==
    ASSUME NEW ds, Sound(ds), NEW c \in Account, NEW amount, NEW sum,
           Totals(ds, c, amount, sum)
    PROVE  /\ Sound(WithAmount(ds, c, amount, sum))
           /\ WithAmount(ds, c, amount, sum).bonds = Put(ds.bonds, c, amount)
           /\ WithAmount(ds, c, amount, sum).total = sum
           /\ WithAmount(ds, c, amount, sum).lessTotal = ds.lessTotal
<1> DEFINE bonds == Put(ds.bonds, c, amount)
           new == WithAmount(ds, c, amount, sum)
           had == IF c \in DOMAIN ds.bonds THEN ds.bonds[c] ELSE 0
<1>0. amount \in Nat /\ amount > 0 /\ sum \in Nat /\ sum + had = ds.total + amount
  BY DEF Totals
<1>1. IsDelegatorState(ds) /\ ds.total = SumOf(ds.bonds)
  BY DEF Sound
<1>2. /\ IsStorageMap(ds.bonds, Account, Nat) /\ IsFiniteSet(DOMAIN ds.bonds)
      /\ ds.bonds \in [DOMAIN ds.bonds -> Nat] /\ SumOf(ds.bonds) \in Nat
  BY <1>1, BondsOfSound
<1>3. IsStorageMap(bonds, Account, Nat) /\ DOMAIN bonds = DOMAIN ds.bonds \cup {c}
  <2>1. IsStorageMap(ds.bonds, Account, Nat)
    BY <1>2
  <2>2. IsStorageMap(bonds, Account, Nat)
    BY <1>0, <2>1, PutStorage, Zenon
  <2> QED BY <2>2 DEF Put
<1>4. SumOf(bonds) = sum
  <2>1. CASE c \in DOMAIN ds.bonds
    <3>1. SumOf(bonds) + ds.bonds[c] = SumOf(ds.bonds) + amount
      BY <1>0, <1>2, <2>1, SumOfPutOld
    <3>2. SumOf(bonds) \in Nat
      <4>1. bonds \in [DOMAIN bonds -> Nat] /\ IsFiniteSet(DOMAIN bonds)
        BY <1>2, <1>3, FS_AddElement DEF IsStorageMap
      <4> QED BY <4>1, SumInNat
    <3>3. had = ds.bonds[c]
      BY <2>1
    <3> DEFINE is == SumOf(bonds)
               was == SumOf(ds.bonds)
    <3>4. is \in Nat /\ was \in Nat /\ is + had = was + amount /\ sum + had = was + amount
      BY <1>0, <1>1, <1>2, <3>1, <3>2, <3>3
    <3> HIDE DEF is, was, had
    <3>5. is = sum
      <4>1. had \in Nat
        BY <1>2, <2>1, <3>3
      <4> QED BY <1>0, <3>4, <4>1
    <3> QED BY <3>5 DEF is
  <2>2. CASE c \notin DOMAIN ds.bonds
    <3>1. SumOf(bonds) = SumOf(ds.bonds) + amount
      BY <1>0, <1>2, <2>2, SumOfPutNew
    <3>2. had = 0
      BY <2>2
    <3> DEFINE was == SumOf(ds.bonds)
    <3>3. was \in Nat /\ sum + 0 = was + amount
      BY <1>0, <1>1, <1>2, <3>2
    <3> HIDE DEF was
    <3>4. sum = was + amount
      BY <1>0, <3>3
    <3> QED BY <3>1, <3>4 DEF was
  <2> QED BY <2>1, <2>2
<1>5. \A x \in DOMAIN bonds : bonds[x] > 0
  BY <1>0 DEF Sound, Put
<1> HIDE DEF bonds
<1>6. IsDelegatorState(new)
  BY <1>0, <1>1, <1>2, <1>3, BondsOfSound, DelegatorExcept DEF WithAmount, bonds
<1>7. new.bonds = bonds /\ new.total = sum /\ new.lessTotal = ds.lessTotal
  BY <1>1, RewrittenFields DEF WithAmount, bonds
<1> HIDE DEF new
<1>8. Sound(new)
  BY <1>3, <1>4, <1>5, <1>6, <1>7 DEF Sound
<1> QED BY <1>7, <1>8 DEF new, bonds

\* The record of a new delegator.
LEMMA SoundFirst ==
    ASSUME NEW c \in Account, NEW amount \in Nat, amount > 0
    PROVE  LET new == [bonds |-> Put(NoEntries, c, amount), total |-> amount,
                       lessTotal |-> 0] IN
           Sound(new)
<1> DEFINE bonds == Put(NoEntries, c, amount)
           new == [bonds |-> bonds, total |-> amount, lessTotal |-> 0]
<1>1. DOMAIN bonds = {c} /\ bonds[c] = amount
  BY DEF Put, NoEntries
<1>2. IsStorageMap(bonds, Account, Nat)
  BY <1>1 DEF IsStorageMap, Put, NoEntries
<1>3. SumOf(bonds) = amount
  BY <1>1, SumOfOne
<1> HIDE DEF bonds
<1>4. IsDelegatorState(new)
  BY <1>2, DelegatorParts
<1>5. new.bonds = bonds /\ new.total = amount
  OBVIOUS
<1> HIDE DEF new
<1> QED BY <1>1, <1>3, <1>4, <1>5 DEF Sound, new, bonds

(***************************************************************************)
(* Taking a bond out of a sound record: the total falls by the bond, and   *)
(* is 0 exactly when it was the last one.                                  *)
(***************************************************************************)
LEMMA SoundWithout ==
    ASSUME NEW ds, Sound(ds), NEW c \in DOMAIN ds.bonds
    PROVE  LET new == WithoutBond(ds, c) IN
           /\ IsDelegatorState(new)
           /\ new.bonds = Drop(ds.bonds, c) /\ DOMAIN new.bonds = DOMAIN ds.bonds \ {c}
           /\ new.lessTotal = ds.lessTotal
           /\ ds.bonds[c] \in Nat /\ new.total \in Nat
           /\ ds.total = new.total + ds.bonds[c]
           /\ DOMAIN ds.bonds # {c} => Sound(new) /\ new.total > 0
           /\ DOMAIN ds.bonds = {c} => new.total = 0
<1> DEFINE bonds == Drop(ds.bonds, c)
           sum == Sub(ds.total, ds.bonds[c])
           new == WithoutBond(ds, c)
<1>1. /\ IsDelegatorState(ds) /\ ds.total = SumOf(ds.bonds)
      /\ \A x \in DOMAIN ds.bonds : ds.bonds[x] > 0
  BY DEF Sound
<1>2. /\ IsStorageMap(ds.bonds, Account, Nat) /\ IsFiniteSet(DOMAIN ds.bonds)
      /\ ds.bonds \in [DOMAIN ds.bonds -> Nat] /\ SumOf(ds.bonds) \in Nat
  BY <1>1, BondsOfSound
<1>3. new = [ds EXCEPT !.bonds = bonds, !.total = sum]
  BY <1>1 DEF WithoutBond, IsDelegatorState
<1>4. IsDelegatorState(new)
  BY <1>1, WithoutBondType
<1>5. new.bonds = bonds /\ new.total = sum /\ new.lessTotal = ds.lessTotal
  BY <1>1, <1>3, RewrittenFields
<1>6. /\ bonds \in [DOMAIN bonds -> Nat] /\ DOMAIN bonds = DOMAIN ds.bonds \ {c}
      /\ IsFiniteSet(DOMAIN bonds)
      /\ \A x \in DOMAIN bonds : bonds[x] = ds.bonds[x]
  BY <1>2, FS_Subset DEF Drop
<1>7. SumOf(bonds) \in Nat /\ SumOf(ds.bonds) = SumOf(bonds) + ds.bonds[c]
  BY <1>2, SumOfKey
<1>8. ds.bonds[c] \in Nat
  BY <1>2
<1>9. sum = SumOf(bonds)
  <2> DEFINE rest == SumOf(bonds)
             had == ds.bonds[c]
             all == ds.total
  <2>1. rest \in Nat /\ had \in Nat /\ all = rest + had
    BY <1>1, <1>7, <1>8
  <2> HIDE DEF rest, had, all
  <2>2. Sub(all, had) = rest
    BY <2>1 DEF Sub
  <2> QED BY <2>2 DEF rest, had, all
<1>10. ASSUME DOMAIN ds.bonds # {c} PROVE SumOf(bonds) > 0 /\ DOMAIN bonds # {}
  <2>1. PICK x \in DOMAIN bonds : TRUE
    BY <1>6, <1>10
  <2>2. SumOf(bonds) = SumOf(Drop(bonds, x)) + bonds[x] /\ SumOf(Drop(bonds, x)) \in Nat
    BY <1>6, SumOfKey
  <2>3. bonds[x] > 0 /\ bonds[x] \in Nat
    BY <1>1, <1>6
  <2> DEFINE rest == SumOf(Drop(bonds, x))
             one == bonds[x]
  <2>4. rest \in Nat /\ one \in Nat /\ one > 0 /\ SumOf(bonds) = rest + one
    BY <2>2, <2>3
  <2> HIDE DEF rest, one, bonds
  <2> QED BY <2>1, <2>4
<1>11. ASSUME DOMAIN ds.bonds = {c} PROVE SumOf(bonds) = 0
  <2>1. \A x \in DOMAIN bonds : bonds[x] = 0
    BY <1>6, <1>11
  <2> QED BY <2>1, SumOfZeros
<1> HIDE DEF bonds, sum, new
<1>12. ASSUME DOMAIN ds.bonds # {c} PROVE Sound(new) /\ new.total > 0
  BY <1>1, <1>4, <1>5, <1>6, <1>9, <1>10, <1>12 DEF Sound
<1>13. new.total \in Nat /\ ds.total = new.total + ds.bonds[c]
  BY <1>1, <1>5, <1>7, <1>9
<1> QED BY <1>4, <1>5, <1>6, <1>8, <1>9, <1>11, <1>12, <1>13 DEF new, bonds

-----------------------------------------------------------------------------
(* Requests, and what they add up to *)

\* Finitely many requests add up to a balance.
LEMMA AmountsInNat ==
    ASSUME NEW reqs, IsFiniteSet(reqs), reqs \subseteq Request
    PROVE  AmountsOf(reqs) \in Nat
<1> DEFINE f == [r \in reqs |-> r.amount]
<1>1. DOMAIN f = reqs /\ f \in [DOMAIN f -> Nat]
  BY DEF Request
<1> HIDE DEF f
<1>2. SumOf(f) \in Nat
  BY <1>1, SumInNat
<1> QED BY <1>2 DEF AmountsOf, f

\* Requests taken off the books take their amounts along.
LEMMA AmountsLess ==
    ASSUME NEW reqs, IsFiniteSet(reqs), reqs \subseteq Request, NEW S, S \subseteq reqs
    PROVE  /\ AmountsOf(S) \in Nat /\ AmountsOf(reqs \ S) \in Nat
           /\ AmountsOf(reqs) = AmountsOf(reqs \ S) + AmountsOf(S)
           /\ Sub(AmountsOf(reqs), AmountsOf(S)) = AmountsOf(reqs \ S)
<1> DEFINE f == [r \in reqs |-> r.amount]
           rest == reqs \ S
<1>1. DOMAIN f = reqs /\ f \in [DOMAIN f -> Nat]
  BY DEF Request
<1>2. /\ reqs = rest \cup S /\ rest \cap S = {}
      /\ IsFiniteSet(S) /\ IsFiniteSet(rest) /\ S \subseteq Request /\ rest \subseteq Request
  BY FS_Subset
<1>3. SumOf(f) = SumOf([r \in rest |-> f[r]]) + SumOf([r \in S |-> f[r]])
  <2> HIDE DEF f, rest
  <2> QED BY <1>1, <1>2, SumOfParts
<1>4. [r \in rest |-> f[r]] = [r \in rest |-> r.amount] /\ [r \in S |-> f[r]] = [r \in S |-> r.amount]
  OBVIOUS
<1>5. AmountsOf(S) \in Nat /\ AmountsOf(rest) \in Nat
  BY <1>2, AmountsInNat
<1> HIDE DEF rest
<1>6. AmountsOf(reqs) = AmountsOf(rest) + AmountsOf(S)
  BY <1>3, <1>4 DEF AmountsOf
<1> DEFINE all == AmountsOf(reqs)
           out == AmountsOf(S)
           in == AmountsOf(rest)
<1>7. in \in Nat /\ out \in Nat /\ all = in + out
  BY <1>5, <1>6
<1> HIDE DEF all, out, in
<1>8. Sub(all, out) = in
  BY <1>7 DEF Sub
<1> QED BY <1>5, <1>6, <1>8 DEF all, out, in, rest

\* One more request.
LEMMA AmountsMore ==
    ASSUME NEW reqs, IsFiniteSet(reqs), reqs \subseteq Request,
           NEW r \in Request, r \notin reqs
    PROVE  AmountsOf(reqs \cup {r}) = AmountsOf(reqs) + r.amount
<1> DEFINE all == reqs \cup {r}
           f == [s \in all |-> s.amount]
<1>1. IsFiniteSet(all) /\ all \subseteq Request
  BY FS_AddElement
<1>2. DOMAIN f = all /\ f \in [DOMAIN f -> Nat] /\ r \in all /\ f[r] = r.amount
  BY <1>1 DEF Request
<1>3. Drop(f, r) = [s \in reqs |-> s.amount]
  BY DEF Drop
<1>4. SumOf(f) = SumOf(Drop(f, r)) + f[r]
  <2> HIDE DEF f, all
  <2> QED BY <1>1, <1>2, SumOfKey
<1> QED BY <1>2, <1>3, <1>4 DEF AmountsOf

\* The requests of one delegator: among all of them, and one for each candidate at most.
LEMMA RequestsAreFew ==
    ASSUME IsFiniteSet(requests), requests \subseteq Request, NEW d
    PROVE  /\ IsFiniteSet(RequestsOf(requests, d)) /\ RequestsOf(requests, d) \subseteq Request
           /\ RequestsOf(requests, d) \subseteq requests
BY FS_Subset DEF RequestsOf

(***************************************************************************)
(* The requests a delegator has on its own bonds are all it has, and the   *)
(* one on a given bond is at most one.                                     *)
(***************************************************************************)
LEMMA OwnRequestsAreAll ==
    ASSUME RequestsCanBeDone, NEW d
    PROVE  /\ OwnRequests(d) = RequestsOf(requests, d)
           /\ \A c : RequestsFrom(d, c) \subseteq RequestsOf(requests, d)
           /\ \A c, r, s : r \in RequestsFrom(d, c) /\ s \in RequestsFrom(d, c) => r = s
<1>1. \A c, r : r \in RequestsFrom(d, c) <=> r \in requests /\ r.delegator = d /\ r.collator = c
  BY DEF RequestsFrom
<1>2. \A r : r \in RequestsOf(requests, d) <=> r \in requests /\ r.delegator = d
  BY DEF RequestsOf
<1>3. \A r \in requests : r.collator \in DOMAIN delegator[r.delegator].bonds
  BY DEF RequestsCanBeDone, CanBeDone, Backed
<1>4. ASSUME NEW r \in RequestsOf(requests, d) PROVE r \in OwnRequests(d)
  <2>1. r.collator \in DOMAIN delegator[d].bonds /\ r \in RequestsFrom(d, r.collator)
    BY <1>1, <1>2, <1>3
  <2> QED BY <2>1 DEF OwnRequests
<1>5. ASSUME NEW r \in OwnRequests(d) PROVE r \in RequestsOf(requests, d)
  <2>1. PICK c \in DOMAIN delegator[d].bonds : r \in RequestsFrom(d, c)
    BY DEF OwnRequests
  <2> QED BY <1>1, <1>2, <2>1
<1>6. \A c, r, s : r \in RequestsFrom(d, c) /\ s \in RequestsFrom(d, c) => r = s
  BY <1>1 DEF RequestsCanBeDone
<1> QED BY <1>1, <1>2, <1>4, <1>5, <1>6

-----------------------------------------------------------------------------
(* Steps that change the bonds on one candidate *)

\* A bond on record is that of its owner.
LEMMA OneOnRecord ==
    ASSUME NEW dels, NEW c, NEW e \in OnRecord(dels, c)
    PROVE  /\ Backed(dels, e.owner, c)
           /\ e = BondOf(dels, e.owner, c)
           /\ e.amount = dels[e.owner].bonds[c]
<1>1. PICK d : Backed(dels, d, c) /\ e = BondOf(dels, d, c)
  BY InRecord
<1>2. e.owner = d /\ e.amount = dels[d].bonds[c]
  BY <1>1 DEF BondOf
<1> QED BY <1>1, <1>2

\* The other candidates' bonds and the requests on them are as they were.
LEMMA OthersStay ==
    ASSUME NEW dels, NEW new, NEW c, ChangesOnly(dels, new, c)
    PROVE  /\ \A x : x # c => OnRecord(new, x) = OnRecord(dels, x)
           /\ \A r : r.collator # c /\ CanBeDone(dels, r) => CanBeDone(new, r)
<1>1. ASSUME NEW x, x # c PROVE OnRecord(new, x) = OnRecord(dels, x)
  <2>1. /\ \A d : Backed(new, d, x) <=> Backed(dels, d, x)
        /\ \A d : Backed(dels, d, x) => new[d].bonds[x] = dels[d].bonds[x]
    BY <1>1 DEF ChangesOnly
  <2> QED BY <2>1, SameRecord
<1>2. ASSUME NEW r, r.collator # c, CanBeDone(dels, r) PROVE CanBeDone(new, r)
  BY <1>2 DEF CanBeDone, ChangesOnly
<1> QED BY <1>1, <1>2

\* One owner's bond on a candidate gets another amount.
LEMMA RecordRewritten ==
    ASSUME NEW dels, NEW new, NEW c, NEW d, Backed(dels, d, c), NEW amount,
           Rewrites(dels, new, d, c, amount)
    PROVE  OnRecord(new, c) = (OnRecord(dels, c) \ {BondOf(dels, d, c)})
                                \cup {[owner |-> d, amount |-> amount]}
<1>1. BondOf(dels, d, c) \in OnRecord(dels, c) /\ BondOf(dels, d, c).owner = d
  BY InRecord DEF BondOf
<1>2. OnRecord(new, c) = {e \in OnRecord(dels, c) : e.owner # d /\ e.owner \notin {}}
                            \cup {[owner |-> d, amount |-> amount]}
  <2>1. GivesWay(dels, new, {}, d, c, amount)
    BY DEF Rewrites, GivesWay
  <2> QED BY <2>1, RecordChanged
<1>3. \A e \in OnRecord(dels, c) : e.owner # d <=> e # BondOf(dels, d, c)
  BY <1>1, OneOnRecord
<1> QED BY <1>1, <1>2, <1>3

\* One owner's bond on a candidate goes.
LEMMA RecordLost ==
    ASSUME NEW dels, NEW new, NEW c, NEW d, Backed(dels, d, c), Loses(dels, new, {d}, c)
    PROVE  OnRecord(new, c) = OnRecord(dels, c) \ {BondOf(dels, d, c)}
<1>1. BondOf(dels, d, c) \in OnRecord(dels, c) /\ BondOf(dels, d, c).owner = d
  BY InRecord DEF BondOf
<1>2. OnRecord(new, c) = {e \in OnRecord(dels, c) : e.owner \notin {d}}
  BY RecordWithout
<1>3. \A e \in OnRecord(dels, c) : e.owner # d <=> e # BondOf(dels, d, c)
  BY <1>1, OneOnRecord
<1> QED BY <1>1, <1>2, <1>3

\* A book is written, and lists the bonds that are now on record on its candidate.
LEMMA BookWritten ==
    ASSUME BooksAreOrdered, BooksListBonds, NEW c \in DOMAIN candidate, NEW book,
           candidate' = [candidate EXCEPT ![c] = book],
           Ordered(book), Contents(book) = OnRecord(delegator', c),
           ChangesOnly(delegator, delegator', c)
    PROVE  BooksAreOrdered' /\ BooksListBonds'
<1>1. DOMAIN candidate' = DOMAIN candidate /\ candidate'[c] = book
      /\ \A x \in DOMAIN candidate : x # c => candidate'[x] = candidate[x]
  OBVIOUS
<1>2. BooksAreOrdered'
  BY <1>1 DEF BooksAreOrdered
<1>3. ASSUME NEW x \in Account
      PROVE  (IF x \in DOMAIN candidate' THEN Contents(candidate'[x]) ELSE {})
                = OnRecord(delegator', x)
  <2>1. CASE x = c
    BY <1>1, <2>1
  <2>2. CASE x # c
    <3>1. OnRecord(delegator', x) = OnRecord(delegator, x)
      BY <2>2, OthersStay
    <3>2. OnRecord(delegator, x) = IF x \in DOMAIN candidate THEN Contents(candidate[x]) ELSE {}
      BY DEF BooksListBonds, Listed
    <3> QED BY <1>1, <2>2, <3>1, <3>2
  <2> QED BY <2>1, <2>2
<1> QED BY <1>2, <1>3 DEF BooksListBonds, Listed

\* A record is written, and its total locked.
LEMMA RecordWritten ==
    ASSUME DelegatorsAreSound, StakeIsLocked, delegatorLock \in [Account -> Nat],
           NEW d \in DOMAIN delegator, NEW ds, Sound(ds),
           delegator' = [delegator EXCEPT ![d] = ds],
           delegatorLock' = [delegatorLock EXCEPT ![d] = ds.total]
    PROVE  DelegatorsAreSound' /\ StakeIsLocked'
<1>1. DelegatorsAreSound'
  BY DEF DelegatorsAreSound
<1>2. ASSUME NEW x \in Account
      PROVE  delegatorLock'[x] = IF x \in DOMAIN delegator' THEN delegator'[x].total ELSE 0
  BY DEF StakeIsLocked
<1> QED BY <1>1, <1>2 DEF StakeIsLocked

\* Writing one record's bond on c changes no bond on another candidate.
LEMMA PutRewrites ==
    ASSUME NEW dels, NEW d \in DOMAIN dels, NEW ds, NEW c, NEW amount,
           ds.bonds = Put(dels[d].bonds, c, amount)
    PROVE  Rewrites(dels, [dels EXCEPT ![d] = ds], d, c, amount)
<1> DEFINE new == [dels EXCEPT ![d] = ds]
<1>1. /\ DOMAIN new = DOMAIN dels /\ new[d] = ds
      /\ \A x \in DOMAIN dels : x # d => new[x] = dels[x]
  OBVIOUS
<1>2. /\ DOMAIN ds.bonds = DOMAIN dels[d].bonds \cup {c} /\ ds.bonds[c] = amount
      /\ \A x \in DOMAIN dels[d].bonds : x # c => ds.bonds[x] = dels[d].bonds[x]
  BY DEF Put
<1> HIDE DEF new
<1>3. ChangesOnly(dels, new, c)
  BY <1>1, <1>2 DEF ChangesOnly, Backed
<1>4. Rewrites(dels, new, d, c, amount)
  BY <1>1, <1>2, <1>3 DEF Backed, Rewrites
<1> QED BY <1>4 DEF new

-----------------------------------------------------------------------------
(* The ledger agrees after each call: delegations *)

\* What an agreeing ledger says of one bond.
LEMMA BondIsListed ==
    ASSUME IInv, LedgerAgrees, NEW d, NEW c, Backed(delegator, d, c)
    PROVE  LET b == BondOf(delegator, d, c) IN
           /\ d \in Account /\ c \in Account /\ c \in DOMAIN candidate
           /\ Sound(delegator[d])
           /\ Ordered(candidate[c]) /\ Contents(candidate[c]) = OnRecord(delegator, c)
           /\ b \in Contents(candidate[c])
           /\ b.owner = d /\ b.amount = delegator[d].bonds[c] /\ b.amount \in Nat /\ b.amount > 0
<1> DEFINE b == BondOf(delegator, d, c)
<1>1. d \in DOMAIN delegator /\ c \in DOMAIN delegator[d].bonds
  BY DEF Backed
<1>2. Sound(delegator[d]) /\ IsDelegatorState(delegator[d])
  BY <1>1 DEF LedgerAgrees, DelegatorsAreSound, Sound
<1>3. d \in Account /\ c \in Account /\ delegator[d].bonds[c] \in Nat
  <2>1. IsStorageMap(delegator[d].bonds, Account, Nat)
    BY <1>2, BondsOfSound
  <2> QED BY <1>1, <2>1 DEF IsStorageMap, IInv, DelegatorsInOrder
<1>4. b \in OnRecord(delegator, c) /\ b.owner = d /\ b.amount = delegator[d].bonds[c]
  BY InRecord DEF BondOf
<1>5. Listed(c) = OnRecord(delegator, c)
  BY <1>3 DEF LedgerAgrees, BooksListBonds
<1>6. c \in DOMAIN candidate /\ Contents(candidate[c]) = OnRecord(delegator, c)
  BY <1>4, <1>5 DEF Listed
<1>7. Ordered(candidate[c])
  BY <1>6 DEF LedgerAgrees, BooksAreOrdered
<1>8. delegator[d].bonds[c] > 0
  BY <1>1, <1>2 DEF Sound
<1> QED BY <1>2, <1>3, <1>4, <1>6, <1>7, <1>8

(***************************************************************************)
(* A delegation's amount is written on both sides: in the book, wherever   *)
(* it moves there, and in its owner's record, and the total is locked.     *)
(***************************************************************************)
LEMMA AmountWritten ==
    ASSUME IInv, LedgerAgrees, NEW d, NEW c, Backed(delegator, d, c),
           NEW book, Ordered(book), NEW amount, NEW new, Sound(new),
           new.bonds = Put(delegator[d].bonds, c, amount),
           Contents(book) = (Contents(candidate[c]) \ {BondOf(delegator, d, c)})
                                \cup {[owner |-> d, amount |-> amount]},
           candidate' = [candidate EXCEPT ![c] = book],
           delegator' = [delegator EXCEPT ![d] = new],
           delegatorLock' = [delegatorLock EXCEPT ![d] = new.total]
    PROVE  LedgerAgrees' /\ Rewrites(delegator, delegator', d, c, amount)
<1>1. /\ c \in DOMAIN candidate /\ Contents(candidate[c]) = OnRecord(delegator, c)
      /\ d \in DOMAIN delegator
  BY BondIsListed DEF Backed
<1>2. Rewrites(delegator, delegator', d, c, amount)
  <2>1. Rewrites(delegator, [delegator EXCEPT ![d] = new], d, c, amount)
    BY <1>1, PutRewrites
  <2> QED BY <2>1
<1>3. Contents(book) = OnRecord(delegator', c)
  BY <1>1, <1>2, RecordRewritten
<1>4. ChangesOnly(delegator, delegator', c)
  BY <1>2 DEF Rewrites
<1>5. BooksAreOrdered' /\ BooksListBonds'
  BY <1>1, <1>3, <1>4, BookWritten DEF LedgerAgrees
<1>6. DelegatorsAreSound' /\ StakeIsLocked'
  BY <1>1, RecordWritten DEF LedgerAgrees, IInv, BalancesInOrder
<1> QED BY <1>2, <1>5, <1>6 DEF LedgerAgrees

\* More stake on a candidate already backed.
LEMMA DelegatorBondMoreAgrees ==
    ASSUME IInv, LedgerAgrees, NEW d \in Account, NEW c \in Account, NEW more \in Nat,
           DelegatorBondMore(d, c, more)
    PROVE  /\ LedgerAgrees' /\ Backed(delegator, d, c)
           /\ Rewrites(delegator, delegator', d, c, delegator[d].bonds[c] + more)
           /\ delegator'[d].lessTotal = delegator[d].lessTotal
<1> DEFINE ds == delegator[d]
           bond == ds.bonds[c]
           b == BondOf(delegator, d, c)
           amount == bond + more
           sum == ds.total + more
           new == WithAmount(ds, c, amount, sum)
           grown == IncreaseDelegation(candidate[c], d, bond, more)
<1>1. Backed(delegator, d, c)
  BY DEF DelegatorBondMore, Backs, IsDelegator, Backed
<1>2. /\ c \in DOMAIN candidate /\ Sound(ds) /\ Ordered(candidate[c])
      /\ b \in Contents(candidate[c]) /\ b.owner = d /\ b.amount = bond
      /\ bond \in Nat /\ bond > 0
  BY <1>1, BondIsListed
<1>3. d \in DOMAIN delegator /\ c \in DOMAIN ds.bonds /\ IsDelegatorState(ds) /\ ds.total \in Nat
  BY <1>1, <1>2, DelegatorFields DEF Backed, Sound
<1>4. /\ candidate' = [candidate EXCEPT ![c] = grown.book]
      /\ delegatorLock' = [delegatorLock EXCEPT ![d] = sum]
  BY DEF DelegatorBondMore, SetBook
<1>5. delegator' = [delegator EXCEPT ![d] = new]
  BY <1>3 DEF DelegatorBondMore, IsDelegatorState, WithAmount
<1>6. amount \in Nat /\ amount > 0 /\ sum \in Nat /\ sum + bond = ds.total + amount
  BY <1>2, <1>3
<1>7. /\ Ordered(grown.book)
      /\ Contents(grown.book) =
            (Contents(candidate[c]) \ {b}) \cup {[owner |-> d, amount |-> amount]}
  BY <1>2, IncreaseContents
<1>8. /\ Sound(new) /\ new.bonds = Put(ds.bonds, c, amount) /\ new.total = sum
      /\ new.lessTotal = ds.lessTotal
  <2>1. Totals(ds, c, amount, sum)
    BY <1>3, <1>6 DEF Totals
  <2>2. Sound(ds)
    BY <1>2
  <2> HIDE DEF ds, amount, sum
  <2> QED BY <2>1, <2>2, SoundPut
<1> HIDE DEF amount, sum, new, grown, bond
<1>9. LedgerAgrees' /\ Rewrites(delegator, delegator', d, c, amount)
  BY <1>1, <1>4, <1>5, <1>7, <1>8, AmountWritten
<1>10. delegator'[d].lessTotal = ds.lessTotal
  BY <1>3, <1>5, <1>8
<1> QED BY <1>1, <1>9, <1>10 DEF amount, bond

(***************************************************************************)
(* A due decrease: the guards leave something of the bond, and what is     *)
(* taken off the total is no more than the bond.                           *)
(***************************************************************************)
LEMMA ExecuteDecreaseAgrees ==
    ASSUME IInv, LedgerAgrees, NEW d \in Account, NEW c \in Account, NEW r,
           r.amount \in Nat, ExecuteDecrease(d, c, r)
    PROVE  /\ LedgerAgrees' /\ Backed(delegator, d, c)
           /\ r.amount < delegator[d].bonds[c]
           /\ Rewrites(delegator, delegator', d, c, delegator[d].bonds[c] - r.amount)
           /\ delegator'[d].lessTotal = Sub(delegator[d].lessTotal, r.amount)
           /\ delegator[d].total = delegator'[d].total + r.amount
<1> DEFINE ds == delegator[d]
           bond == ds.bonds[c]
           less == r.amount
           b == BondOf(delegator, d, c)
           amount == bond - less
           left == Sub(ds.total, less)
           rest == Fulfilled(d, r)
           new == WithAmount(rest, c, amount, left)
           shrunk == DecreaseDelegation(candidate[c], d, bond, less)
<1>1. Backed(delegator, d, c)
  BY DEF ExecuteDecrease, Backs, IsDelegator, Backed
<1>2. /\ c \in DOMAIN candidate /\ Sound(ds) /\ Ordered(candidate[c])
      /\ b \in Contents(candidate[c]) /\ b.owner = d /\ b.amount = bond
      /\ bond \in Nat /\ bond > 0
  BY <1>1, BondIsListed
<1>3. /\ d \in DOMAIN delegator /\ c \in DOMAIN ds.bonds /\ IsDelegatorState(ds)
      /\ ds.total \in Nat /\ ds.lessTotal \in Nat
  BY <1>1, <1>2, DelegatorFields DEF Backed, Sound
<1>4. /\ candidate' = [candidate EXCEPT ![c] = shrunk.book]
      /\ delegatorLock' = [delegatorLock EXCEPT ![d] = left]
      /\ bond > less
  BY DEF ExecuteDecrease, SetBook
<1>5. bond <= ds.total
  <2>1. ds.total = WithoutBond(ds, c).total + bond /\ WithoutBond(ds, c).total \in Nat
    BY <1>2, <1>3, SoundWithout
  <2> QED BY <1>2, <1>3, <2>1
<1>6. /\ amount \in Nat /\ amount > 0 /\ left \in Nat /\ left + bond = ds.total + amount
      /\ ds.total = left + less
  <2>1. left = ds.total - less
    BY <1>2, <1>3, <1>4, <1>5 DEF Sub
  <2> QED BY <1>2, <1>3, <1>4, <1>5, <2>1
<1>7. /\ Sound(rest) /\ rest.bonds = ds.bonds /\ rest.total = ds.total
      /\ rest.lessTotal = Sub(ds.lessTotal, less)
  <2> DEFINE pending == Sub(ds.lessTotal, less)
  <2>1. pending \in Nat
    BY <1>3, SubInNat
  <2>2. rest = [ds EXCEPT !.lessTotal = pending]
    BY DEF Fulfilled
  <2> HIDE DEF pending, rest, ds
  <2>3. Sound(ds)
    BY <1>2
  <2> QED BY <2>1, <2>2, <2>3, SoundPending DEF pending
<1>8. delegator' = [delegator EXCEPT ![d] = new]
  <2>1. delegator' = [delegator EXCEPT ![d] =
            [rest EXCEPT !.bonds = Put(@, c, amount), !.total = left]]
    BY DEF ExecuteDecrease
  <2>2. [rest EXCEPT !.bonds = Put(@, c, amount), !.total = left] = new
    BY <1>7 DEF WithAmount, Sound, IsDelegatorState
  <2> HIDE DEF rest, new
  <2> QED BY <2>1, <2>2
<1>9. /\ Ordered(shrunk.book)
      /\ Contents(shrunk.book) =
            (Contents(candidate[c]) \ {b}) \cup {[owner |-> d, amount |-> amount]}
  <2>1. less <= b.amount
    BY <1>2, <1>4
  <2> QED BY <1>2, <2>1, DecreaseContents
<1>10. /\ Sound(new) /\ new.bonds = Put(ds.bonds, c, amount) /\ new.total = left
       /\ new.lessTotal = rest.lessTotal
  <2>1. Totals(rest, c, amount, left)
    BY <1>3, <1>6, <1>7 DEF Totals
  <2>2. Sound(rest) /\ rest.bonds = ds.bonds
    BY <1>7
  <2> HIDE DEF ds, rest, amount, left
  <2> QED BY <2>1, <2>2, SoundPut
<1> HIDE DEF amount, left, new, rest, shrunk, bond
<1>11. LedgerAgrees' /\ Rewrites(delegator, delegator', d, c, amount)
  BY <1>1, <1>4, <1>8, <1>9, <1>10, AmountWritten
<1>12. delegator'[d] = new
  BY <1>3, <1>8
<1> QED BY <1>1, <1>4, <1>6, <1>7, <1>10, <1>11, <1>12 DEF amount, bond

(***************************************************************************)
(* Some delegators' bonds on c are struck from their records, and with a   *)
(* last bond the record; nobody else's bonds change.                       *)
(***************************************************************************)
Struck(dels, new, K, c) ==
    /\ \A x : x \notin K =>
        /\ x \in DOMAIN new <=> x \in DOMAIN dels
        /\ x \in DOMAIN dels => new[x].bonds = dels[x].bonds
    /\ \A x \in K :
        /\ x \in DOMAIN dels
        /\ x \in DOMAIN new => new[x].bonds = Drop(dels[x].bonds, c)
        /\ x \notin DOMAIN new => DOMAIN dels[x].bonds \subseteq {c}

\* Those delegators lose their bond on c, and nothing else.
LEMMA StruckLoses ==
    ASSUME NEW dels, NEW new, NEW K, NEW c, Struck(dels, new, K, c)
    PROVE  Loses(dels, new, K, c)
<1>1. ASSUME NEW x, x \notin K
      PROVE  \A y : /\ Backed(new, x, y) <=> Backed(dels, x, y)
                    /\ Backed(dels, x, y) => new[x].bonds[y] = dels[x].bonds[y]
  BY <1>1 DEF Struck, Backed
<1>2. ASSUME NEW x \in K
      PROVE  \A y : /\ Backed(new, x, y) <=> Backed(dels, x, y) /\ y # c
                    /\ Backed(new, x, y) => new[x].bonds[y] = dels[x].bonds[y]
  <2>1. x \in DOMAIN dels /\ (x \notin DOMAIN new => DOMAIN dels[x].bonds \subseteq {c})
    BY DEF Struck
  <2>2. ASSUME x \in DOMAIN new
        PROVE  /\ DOMAIN new[x].bonds = DOMAIN dels[x].bonds \ {c}
               /\ \A y \in DOMAIN new[x].bonds : new[x].bonds[y] = dels[x].bonds[y]
    BY <2>2 DEF Struck, Drop
  <2> QED BY <2>1, <2>2 DEF Backed
<1>3. ChangesOnly(dels, new, c)
  BY <1>1, <1>2 DEF ChangesOnly
<1> QED BY <1>1, <1>2, <1>3 DEF Loses

\* A record with one bond less and the request on it taken off.
LEMMA StruckRecord ==
    ASSUME NEW ds, Sound(ds), NEW c \in DOMAIN ds.bonds, NEW d
    PROVE  LET new == WithoutRequest(WithoutBond(ds, c), d, c) IN
           /\ new.bonds = Drop(ds.bonds, c)
           /\ new.lessTotal = Sub(ds.lessTotal, AmountsOf(RequestsFrom(d, c)))
           /\ ds.bonds[c] \in Nat /\ new.total \in Nat
           /\ ds.total = new.total + ds.bonds[c]
           /\ DOMAIN ds.bonds # {c} => Sound(new) /\ new.total > 0
           /\ DOMAIN ds.bonds = {c} => new.total = 0
<1> DEFINE rest == WithoutBond(ds, c)
           less == AmountsOf(RequestsFrom(d, c))
           pending == Sub(rest.lessTotal, less)
           new == WithoutRequest(rest, d, c)
<1>1. /\ IsDelegatorState(rest) /\ rest.bonds = Drop(ds.bonds, c)
      /\ rest.lessTotal = ds.lessTotal
      /\ ds.bonds[c] \in Nat /\ rest.total \in Nat
      /\ ds.total = rest.total + ds.bonds[c]
      /\ DOMAIN ds.bonds # {c} => Sound(rest) /\ rest.total > 0
      /\ DOMAIN ds.bonds = {c} => rest.total = 0
  BY SoundWithout
<1>2. new = [rest EXCEPT !.lessTotal = pending]
  BY DEF WithoutRequest, AmountsOf
<1> HIDE DEF rest, new, less
<1>3. pending \in Nat
  BY <1>1, DelegatorFields, SubInNat
<1> HIDE DEF pending
<1>4. new.bonds = rest.bonds /\ new.total = rest.total /\ new.lessTotal = pending
  BY <1>1, <1>2, RewrittenFields
<1>5. Sound(rest) => Sound(new)
  BY <1>2, <1>3, SoundPending
<1>6. pending = Sub(ds.lessTotal, less)
  BY <1>1 DEF pending
<1> QED BY <1>1, <1>4, <1>5, <1>6 DEF new, rest, less

\* The last bond is the only one.
LEMMA LastBond ==
    ASSUME NEW S, IsFiniteSet(S), NEW c \in S
    PROVE  Cardinality(S) = 1 <=> S = {c}
<1>1. Cardinality(S \ {c}) = Cardinality(S) - 1 /\ IsFiniteSet(S \ {c})
  BY FS_RemoveElement
<1>2. Cardinality(S) \in Nat /\ Cardinality({c}) = 1
  BY FS_CardinalityType, FS_Singleton
<1>3. ASSUME Cardinality(S) = 1 PROVE S = {c}
  <2>1. Cardinality(S \ {c}) = 0
    BY <1>1, <1>2, <1>3
  <2>2. S \ {c} = {}
    BY <1>1, <2>1, FS_EmptySet
  <2> QED BY <2>2
<1> QED BY <1>2, <1>3

(***************************************************************************)
(* A due revoke: what the request says is the bond, so that the book gives *)
(* up that delegation, and a delegator's last bond is its whole total.     *)
(***************************************************************************)
LEMMA ExecuteRevokeAgrees ==
    ASSUME IInv, LedgerAgrees, NEW d \in Account, NEW c \in Account,
           NEW r \in RequestsFrom(d, c), CanBeDone(delegator, r), ExecuteRevoke(d, c, r)
    PROVE  /\ LedgerAgrees'
           /\ Loses(delegator, delegator', {d}, c)
           /\ d \in DOMAIN delegator' =>
                delegator'[d].lessTotal = Sub(delegator[d].lessTotal, r.amount)
           /\ \A x : x # d => (x \in DOMAIN delegator' <=> x \in DOMAIN delegator)
           /\ \A x \in DOMAIN delegator' : x # d => delegator'[x] = delegator[x]
           /\ d \in DOMAIN delegator' <=> DOMAIN delegator[d].bonds # {c}
           /\ delegatorLock' = [delegatorLock EXCEPT ![d] = Sub(delegator[d].total, r.amount)]
           /\ r.amount <= delegator[d].total
<1> DEFINE ds == delegator[d]
           b == BondOf(delegator, d, c)
           amount == r.amount
           rest == Fulfilled(d, r)
           state == WithoutBond(rest, c)
           removed == RmDelegation(candidate[c], d, amount)
           last == Cardinality(DOMAIN ds.bonds) = 1
           K == {d}
<1>0. Backed(delegator, d, c) /\ amount = ds.bonds[c]
  BY DEF CanBeDone, ExecuteRevoke, RequestsFrom
<1>1. /\ c \in DOMAIN candidate /\ Sound(ds) /\ Ordered(candidate[c])
      /\ Contents(candidate[c]) = OnRecord(delegator, c)
      /\ b \in Contents(candidate[c]) /\ b.owner = d /\ b.amount = amount
      /\ amount \in Nat
  BY <1>0, BondIsListed
<1>2. /\ candidate' = [candidate EXCEPT ![c] = removed.book]
      /\ delegator' = IF last THEN Drop(delegator, d) ELSE [delegator EXCEPT ![d] = state]
      /\ delegatorLock' = [delegatorLock EXCEPT ![d] = state.total]
  BY DEF ExecuteRevoke, SetBook
<1>3. d \in DOMAIN delegator /\ c \in DOMAIN ds.bonds /\ IsFiniteSet(DOMAIN ds.bonds)
      /\ ds.total \in Nat /\ ds.lessTotal \in Nat
  BY <1>0, <1>1, BondsOfSound DEF Backed, Sound
<1>4. last <=> DOMAIN ds.bonds = {c}
  BY <1>3, LastBond
<1>5. /\ Sound(rest) /\ rest.bonds = ds.bonds /\ rest.total = ds.total
      /\ rest.lessTotal = Sub(ds.lessTotal, amount)
  <2> DEFINE pending == Sub(ds.lessTotal, amount)
  <2>1. pending \in Nat
    BY <1>3, SubInNat
  <2>2. rest = [ds EXCEPT !.lessTotal = pending]
    BY DEF Fulfilled
  <2> HIDE DEF pending, rest, ds
  <2>3. Sound(ds)
    BY <1>1
  <2> QED BY <2>1, <2>2, <2>3, SoundPending DEF pending
<1>6. /\ state.bonds = Drop(ds.bonds, c)
      /\ state.lessTotal = rest.lessTotal /\ state.total \in Nat
      /\ ds.total = state.total + amount
      /\ DOMAIN ds.bonds # {c} => Sound(state)
      /\ DOMAIN ds.bonds = {c} => state.total = 0
  <2>1. c \in DOMAIN rest.bonds /\ rest.bonds[c] = amount
    BY <1>0, <1>3, <1>5
  <2> HIDE DEF rest, ds, amount
  <2>2. /\ state.bonds = Drop(rest.bonds, c)
        /\ state.lessTotal = rest.lessTotal /\ state.total \in Nat
        /\ rest.total = state.total + rest.bonds[c]
        /\ DOMAIN rest.bonds # {c} => Sound(state)
        /\ DOMAIN rest.bonds = {c} => state.total = 0
    BY <1>5, <2>1, SoundWithout
  <2> QED BY <1>5, <2>1, <2>2
<1>7. Ordered(removed.book) /\ Contents(removed.book) = Contents(candidate[c]) \ {b}
  BY <1>1, RmDelegationContents
<1> HIDE DEF rest, state, removed, last, K
<1>8. /\ \A x : x # d => (x \in DOMAIN delegator' <=> x \in DOMAIN delegator)
      /\ \A x \in DOMAIN delegator' : x # d => delegator'[x] = delegator[x]
      /\ d \in DOMAIN delegator' <=> DOMAIN ds.bonds # {c}
      /\ d \in DOMAIN delegator' => delegator'[d] = state
  BY <1>2, <1>3, <1>4 DEF Drop
<1>9. Loses(delegator, delegator', {d}, c)
  <2>1. Struck(delegator, delegator', K, c)
    BY <1>3, <1>6, <1>8 DEF Struck, K
  <2> QED BY <2>1, StruckLoses DEF K
<1>10. Contents(removed.book) = OnRecord(delegator', c)
  BY <1>0, <1>1, <1>7, <1>9, RecordLost
<1>11. ChangesOnly(delegator, delegator', c)
  BY <1>9 DEF Loses
<1>12. BooksAreOrdered' /\ BooksListBonds'
  BY <1>1, <1>2, <1>7, <1>10, <1>11, BookWritten DEF LedgerAgrees
<1>13. DelegatorsAreSound'
  BY <1>6, <1>8 DEF LedgerAgrees, DelegatorsAreSound
<1>14. StakeIsLocked'
  <2>1. delegatorLock \in [Account -> Nat]
    BY DEF IInv, BalancesInOrder
  <2>2. ASSUME NEW x \in Account
        PROVE  delegatorLock'[x] = IF x \in DOMAIN delegator' THEN delegator'[x].total ELSE 0
    BY <1>2, <1>6, <1>8, <2>1 DEF LedgerAgrees, StakeIsLocked
  <2> QED BY <2>2 DEF StakeIsLocked
<1>15. state.total = Sub(ds.total, amount) /\ amount <= ds.total
  <2> DEFINE sum == state.total
  <2>1. sum \in Nat /\ ds.total = sum + amount
    BY <1>6
  <2> HIDE DEF sum, ds, amount
  <2>2. amount \in Nat /\ ds.total \in Nat
    BY <1>1, <1>3
  <2>3. sum = Sub(ds.total, amount) /\ amount <= ds.total
    BY <2>1, <2>2 DEF Sub
  <2> QED BY <2>3 DEF sum
<1>16. LedgerAgrees'
  BY <1>12, <1>13, <1>14 DEF LedgerAgrees
<1>17. d \in DOMAIN delegator' => delegator'[d].lessTotal = Sub(ds.lessTotal, amount)
  BY <1>5, <1>6, <1>8
<1>18. delegatorLock' = [delegatorLock EXCEPT ![d] = Sub(ds.total, amount)]
  BY <1>2, <1>15
<1> QED BY <1>8, <1>9, <1>15, <1>16, <1>17, <1>18

\* Those whom d's bond of `amount` pushes out of c's book.
KickedBy(d, c, amount) ==
    {b.owner : b \in AddDelegation(candidate[c], [owner |-> d, amount |-> amount]).kicked}

\* The record of a delegator who bonds: sound, since nobody may bond nothing.
LEMMA JoinedRecord ==
    ASSUME IInv, DelegatorsAreSound, NEW d \in Account, NEW c \in Account,
           NEW amount \in Nat, CanBond(d, c, amount)
    PROVE  LET joined == WithBond(d, c, amount) IN
           /\ Sound(joined) /\ amount > 0 /\ ~Backed(delegator, d, c)
           /\ c \in DOMAIN joined.bonds /\ joined.bonds[c] = amount
           /\ \A y : y # c => (y \in DOMAIN joined.bonds <=> Backed(delegator, d, y))
           /\ \A y : Backed(delegator, d, y) => joined.bonds[y] = delegator[d].bonds[y]
           /\ joined.lessTotal = IF d \in DOMAIN delegator THEN delegator[d].lessTotal ELSE 0
           /\ joined.total = (IF d \in DOMAIN delegator THEN delegator[d].total ELSE 0) + amount
<1> DEFINE joined == WithBond(d, c, amount)
<1>1. amount > 0 /\ ~Backed(delegator, d, c)
  BY StakesArePositive, AmountsAssumption DEF CanBond, Backs, Backed, IsDelegator
<1>2. CASE d \in DOMAIN delegator
  <2> DEFINE ds == delegator[d]
             sum == ds.total + amount
  <2>1. Sound(ds) /\ IsDelegatorState(ds) /\ ds.total \in Nat
    BY <1>2, DelegatorFields DEF DelegatorsAreSound, Sound
  <2>2. c \notin DOMAIN ds.bonds
    BY <1>1, <1>2 DEF Backed
  <2>3. joined = WithAmount(ds, c, amount, sum)
    BY <1>2, <2>1 DEF WithBond, IsDelegator, IsDelegatorState, WithAmount
  <2>4. Totals(ds, c, amount, sum)
    BY <1>1, <2>1, <2>2 DEF Totals
  <2> HIDE DEF ds, sum, joined
  <2>5. /\ Sound(joined) /\ joined.bonds = Put(ds.bonds, c, amount) /\ joined.total = sum
        /\ joined.lessTotal = ds.lessTotal
    BY <2>1, <2>3, <2>4, SoundPut
  <2>6. /\ c \in DOMAIN joined.bonds /\ joined.bonds[c] = amount
        /\ \A y : y # c => (y \in DOMAIN joined.bonds <=> y \in DOMAIN ds.bonds)
        /\ \A y \in DOMAIN ds.bonds : y # c => joined.bonds[y] = ds.bonds[y]
    BY <2>5 DEF Put
  <2> QED BY <1>1, <1>2, <2>2, <2>5, <2>6 DEF Backed, joined, ds, sum
<1>3. CASE d \notin DOMAIN delegator
  <2>1. joined = [bonds |-> Put(NoEntries, c, amount), total |-> amount, lessTotal |-> 0]
    BY <1>3 DEF WithBond, IsDelegator
  <2>2. Sound(joined)
    BY <1>1, <2>1, SoundFirst
  <2>3. DOMAIN joined.bonds = {c} /\ joined.bonds[c] = amount
    BY <2>1 DEF Put, NoEntries
  <2> QED BY <1>1, <1>3, <2>1, <2>2, <2>3 DEF Backed
<1> QED BY <1>2, <1>3

(***************************************************************************)
(* A new delegation: in a full book the least one gives way, and whoever   *)
(* the code finds as its owner does have a record with that bond, so that  *)
(* the `expect` on it is met.                                              *)
(***************************************************************************)
LEMMA DelegateAgrees ==
    ASSUME IInv, LedgerAgrees, NEW d \in Account, NEW c \in Account, NEW amount \in Nat,
           Delegate(d, c, amount)
    PROVE  LET K == KickedBy(d, c, amount) IN
           /\ LedgerAgrees'
           /\ GivesWay(delegator, delegator', K, d, c, amount)
           /\ d \notin K /\ ~Backed(delegator, d, c)
           /\ \A k \in K : Backed(delegator, k, c)
           /\ requests' = {r \in requests : ~(r.collator = c /\ r.delegator \in K)}
           /\ d \in DOMAIN delegator'
           /\ delegator'[d].lessTotal =
                IF d \in DOMAIN delegator THEN delegator[d].lessTotal ELSE 0
           /\ \A x \in DOMAIN delegator' : x # d =>
                /\ x \in DOMAIN delegator
                /\ delegator'[x].lessTotal = IF x \in K
                    THEN Sub(delegator[x].lessTotal, AmountsOf(RequestsFrom(x, c)))
                    ELSE delegator[x].lessTotal
<1> DEFINE e == [owner |-> d, amount |-> amount]
           book == candidate[c]
           added == AddDelegation(book, e)
           K == {b.owner : b \in added.kicked}
           left(k) == WithoutRequest(WithoutBond(delegator[k], c), k, c)
           gone == {k \in K : Cardinality(DOMAIN delegator[k].bonds) = 1}
           joined == WithBond(d, c, amount)
<1>1. /\ c \in DOMAIN candidate /\ CanBond(d, c, amount) /\ CanAdd(book, amount)
      /\ candidate' = [candidate EXCEPT ![c] = added.book]
      /\ delegator' = [x \in (DOMAIN delegator \ gone) \cup {d} |->
            IF x = d THEN joined ELSE IF x \in K THEN left(x) ELSE delegator[x]]
      /\ delegatorLock' = [x \in Account |->
            IF x = d THEN joined.total
            ELSE IF x \in K THEN left(x).total ELSE delegatorLock[x]]
      /\ requests' = {r \in requests : ~(r.collator = c /\ r.delegator \in K)}
  BY DEF Delegate, IsCandidate, SetBook
<1>2. KickedBy(d, c, amount) = K
  BY DEF KickedBy
<1>3. /\ BooksAreOrdered /\ BooksListBonds /\ DelegatorsAreSound /\ StakeIsLocked
      /\ Ordered(book) /\ Contents(book) = OnRecord(delegator, c)
  BY <1>1 DEF LedgerAgrees, BooksAreOrdered, BooksListBonds, Listed
<1>4. /\ Sound(joined) /\ ~Backed(delegator, d, c)
      /\ c \in DOMAIN joined.bonds /\ joined.bonds[c] = amount
      /\ \A y : y # c => (y \in DOMAIN joined.bonds <=> Backed(delegator, d, y))
      /\ \A y : Backed(delegator, d, y) => joined.bonds[y] = delegator[d].bonds[y]
      /\ joined.lessTotal = IF d \in DOMAIN delegator THEN delegator[d].lessTotal ELSE 0
  BY <1>1, <1>3, JoinedRecord
<1>5. e \in Bond /\ e.owner = d /\ e.amount = amount
  BY DEF Bond
<1>6. \A b \in Contents(book) : b.owner # e.owner /\ Backed(delegator, b.owner, c)
  BY <1>3, <1>4, <1>5, OneOnRecord
<1> HIDE DEF e, book, joined
<1>7. /\ Ordered(added.book)
      /\ Contents(added.book) = (Contents(book) \ added.kicked) \cup {e}
      /\ \/ added.kicked = {} /\ added.less = 0
         \/ \E k \in Contents(book) : added.kicked = {k}
  <2>1. CanAdd(book, e.amount)
    BY <1>1, <1>5
  <2> QED BY <1>3, <1>5, <1>6, <2>1, AddDelegationContents
<1>8. added.kicked \subseteq Contents(book)
  BY <1>7
<1> HIDE DEF added
<1>9. /\ d \notin K
      /\ \A k \in K : Backed(delegator, k, c)
  BY <1>5, <1>6, <1>8
<1>10. \A b \in Contents(book) : b \in added.kicked <=> b.owner \in K
  <2>1. \A a, b \in Contents(book) : a.owner = b.owner => a = b
    BY <1>3, OneInBook
  <2> QED BY <1>8, <2>1
<1>11. ASSUME NEW k \in K
       PROVE  /\ k \in DOMAIN delegator
              /\ k \in gone <=> DOMAIN delegator[k].bonds = {c}
              /\ left(k).bonds = Drop(delegator[k].bonds, c)
              /\ left(k).lessTotal = Sub(delegator[k].lessTotal, AmountsOf(RequestsFrom(k, c)))
              /\ k \notin gone => Sound(left(k))
              /\ k \in gone => left(k).total = 0
  <2>1. k \in DOMAIN delegator /\ c \in DOMAIN delegator[k].bonds
    BY <1>9 DEF Backed
  <2>2. Sound(delegator[k]) /\ IsFiniteSet(DOMAIN delegator[k].bonds)
    BY <1>3, <2>1, BondsOfSound DEF DelegatorsAreSound, Sound
  <2>3. k \in gone <=> DOMAIN delegator[k].bonds = {c}
    BY <2>1, <2>2, LastBond
  <2>4. /\ left(k).bonds = Drop(delegator[k].bonds, c)
        /\ left(k).lessTotal = Sub(delegator[k].lessTotal, AmountsOf(RequestsFrom(k, c)))
        /\ DOMAIN delegator[k].bonds # {c} => Sound(left(k))
        /\ DOMAIN delegator[k].bonds = {c} => left(k).total = 0
    BY <2>1, <2>2, StruckRecord
  <2> QED BY <2>1, <2>3, <2>4
<1> HIDE DEF K
<1>12. gone \subseteq K
  OBVIOUS
<1> HIDE DEF left, gone
<1>13. /\ d \in DOMAIN delegator' /\ delegator'[d] = joined
       /\ \A x : x # d => (x \in DOMAIN delegator' <=> x \in DOMAIN delegator /\ x \notin gone)
       /\ \A x \in DOMAIN delegator' : x # d /\ x \in K => delegator'[x] = left(x)
       /\ \A x \in DOMAIN delegator' : x # d /\ x \notin K => delegator'[x] = delegator[x]
  BY <1>1, <1>9
<1>14. ASSUME NEW x, x # d
       PROVE  \A y : /\ Backed(delegator', x, y) <=>
                            Backed(delegator, x, y) /\ ~(x \in K /\ y = c)
                     /\ Backed(delegator', x, y) => delegator'[x].bonds[y] = delegator[x].bonds[y]
  <2>1. CASE x \in K
    <3>1. /\ x \in DOMAIN delegator
          /\ x \in gone <=> DOMAIN delegator[x].bonds = {c}
          /\ left(x).bonds = Drop(delegator[x].bonds, c)
      BY <1>11, <2>1
    <3>2. /\ DOMAIN left(x).bonds = DOMAIN delegator[x].bonds \ {c}
          /\ \A y \in DOMAIN left(x).bonds : left(x).bonds[y] = delegator[x].bonds[y]
      BY <3>1 DEF Drop
    <3> QED BY <1>13, <1>14, <2>1, <3>1, <3>2 DEF Backed
  <2>2. CASE x \notin K
    BY <1>12, <1>13, <1>14, <2>2 DEF Backed
  <2> QED BY <2>1, <2>2
<1>15. \A y : /\ y # c => (Backed(delegator', d, y) <=> Backed(delegator, d, y))
              /\ Backed(delegator, d, y) => delegator'[d].bonds[y] = delegator[d].bonds[y]
  BY <1>4, <1>13 DEF Backed
<1>16. ChangesOnly(delegator, delegator', c)
  BY <1>14, <1>15 DEF ChangesOnly
<1>17. Backed(delegator', d, c) /\ delegator'[d].bonds[c] = amount
  BY <1>4, <1>13 DEF Backed
<1>18. GivesWay(delegator, delegator', K, d, c, amount)
  BY <1>14, <1>16, <1>17 DEF GivesWay
<1>19. Contents(added.book) = OnRecord(delegator', c)
  <2>1. OnRecord(delegator', c) =
            {b \in OnRecord(delegator, c) : b.owner # d /\ b.owner \notin K}
                \cup {[owner |-> d, amount |-> amount]}
    BY <1>18, RecordChanged
  <2>2. \A b \in OnRecord(delegator, c) : b.owner # d
    BY <1>3, <1>5, <1>6
  <2> QED BY <1>3, <1>7, <1>10, <2>1, <2>2 DEF e
<1>20. BooksAreOrdered' /\ BooksListBonds'
  BY <1>1, <1>3, <1>7, <1>16, <1>19, BookWritten
<1>21. DelegatorsAreSound'
  BY <1>3, <1>4, <1>11, <1>13 DEF DelegatorsAreSound
<1>22. StakeIsLocked'
  <2>1. ASSUME NEW x \in Account
        PROVE  delegatorLock'[x] = IF x \in DOMAIN delegator' THEN delegator'[x].total ELSE 0
    <3>1. delegatorLock[x] = IF x \in DOMAIN delegator THEN delegator[x].total ELSE 0
      BY <1>3 DEF StakeIsLocked
    <3>2. CASE x = d
      BY <1>1, <1>13, <3>2
    <3>3. CASE x # d /\ x \in K
      BY <1>1, <1>11, <1>13, <3>3
    <3>4. CASE x # d /\ x \notin K
      BY <1>1, <1>12, <1>13, <3>1, <3>4
    <3> QED BY <3>2, <3>3, <3>4
  <2> QED BY <2>1 DEF StakeIsLocked
<1>23. LedgerAgrees'
  BY <1>20, <1>21, <1>22 DEF LedgerAgrees
<1>24. \A x \in DOMAIN delegator' : x # d =>
            /\ x \in DOMAIN delegator
            /\ delegator'[x].lessTotal = IF x \in K
                THEN Sub(delegator[x].lessTotal, AmountsOf(RequestsFrom(x, c)))
                ELSE delegator[x].lessTotal
  BY <1>11, <1>13
<1> QED BY <1>1, <1>2, <1>4, <1>9, <1>13, <1>18, <1>23, <1>24

\* All who have a bond on c.
BackersOnRecord(c) == {x \in DOMAIN delegator : Backed(delegator, x, c)}

\* The owners in the lists of an agreeing book are those who have a bond on record.
LEMMA BackersAreListed ==
    ASSUME LedgerAgrees, NEW c \in DOMAIN candidate, c \in Account
    PROVE  Owners(candidate[c].top.list) \cup Owners(candidate[c].bottom.list)
                = BackersOnRecord(c)
<1> DEFINE top == candidate[c].top.list
           bottom == candidate[c].bottom.list
<1>1. Contents(candidate[c]) = OnRecord(delegator, c)
  BY DEF LedgerAgrees, BooksListBonds, Listed
<1>2. \A x : x \in Owners(top) \cup Owners(bottom) <=>
                \E e \in Contents(candidate[c]) : e.owner = x
  BY DEF Owners, Contents, Entries
<1>3. \A x : x \in BackersOnRecord(c) <=> \E e \in OnRecord(delegator, c) : e.owner = x
  <2>1. ASSUME NEW x \in BackersOnRecord(c)
        PROVE  \E e \in OnRecord(delegator, c) : e.owner = x
    <3>1. BondOf(delegator, x, c) \in OnRecord(delegator, c) /\ BondOf(delegator, x, c).owner = x
      BY InRecord DEF BackersOnRecord, BondOf
    <3> QED BY <3>1
  <2>2. ASSUME NEW e \in OnRecord(delegator, c) PROVE e.owner \in BackersOnRecord(c)
    BY OneOnRecord DEF BackersOnRecord, Backed
  <2> QED BY <2>1, <2>2
<1> QED BY <1>1, <1>2, <1>3

(***************************************************************************)
(* An exit: every backer gets back what it has on the candidate, and the   *)
(* test by which the code removes a delegator, a total of 0, finds just    *)
(* those without another bond.                                             *)
(***************************************************************************)
LEMMA ExecuteLeaveCandidatesAgrees ==
    ASSUME IInv, LedgerAgrees, NEW c \in Account, ExecuteLeaveCandidates(c)
    PROVE  /\ LedgerAgrees'
           /\ Loses(delegator, delegator', BackersOnRecord(c), c)
           /\ \A x \in DOMAIN delegator' :
                /\ x \in DOMAIN delegator
                /\ delegator'[x].lessTotal = IF x \in BackersOnRecord(c)
                    THEN Sub(delegator[x].lessTotal, AmountsOf(RequestsFrom(x, c)))
                    ELSE delegator[x].lessTotal
           /\ \A x \in DOMAIN delegator \ DOMAIN delegator' : DOMAIN delegator[x].bonds = {c}
<1> DEFINE book == candidate[c]
           backers == Owners(book.top.list) \cup Owners(book.bottom.list)
           returned == {d \in backers : Backs(d, c)}
           struck(d) == WithoutRequest(WithoutBond(delegator[d], c), d, c)
           left(d) == IF d \in returned THEN struck(d) ELSE delegator[d]
           gone == {d \in returned : left(d).total = 0}
           B == BackersOnRecord(c)
<1>1. /\ c \in DOMAIN candidate
      /\ delegator' = [d \in DOMAIN delegator \ gone |-> left(d)]
      /\ delegatorLock' = [d \in Account |->
            IF d \in returned THEN left(d).total
            ELSE IF d \in backers THEN 0 ELSE delegatorLock[d]]
      /\ candidate' = Drop(candidate, c)
  BY DEF ExecuteLeaveCandidates, IsCandidate
<1>2. /\ BooksAreOrdered /\ BooksListBonds /\ DelegatorsAreSound /\ StakeIsLocked
  BY DEF LedgerAgrees
<1>3. backers = B
  BY <1>1, BackersAreListed
<1>4. returned = B
  BY <1>3 DEF BackersOnRecord, Backs, Backed, IsDelegator
<1>5. ASSUME NEW x \in B
      PROVE  /\ x \in DOMAIN delegator
             /\ struck(x).bonds = Drop(delegator[x].bonds, c)
             /\ struck(x).lessTotal = Sub(delegator[x].lessTotal, AmountsOf(RequestsFrom(x, c)))
             /\ struck(x).total = 0 <=> DOMAIN delegator[x].bonds = {c}
             /\ struck(x).total # 0 => Sound(struck(x))
  <2>1. x \in DOMAIN delegator /\ c \in DOMAIN delegator[x].bonds
    BY DEF BackersOnRecord, Backed
  <2>2. Sound(delegator[x])
    BY <1>2, <2>1 DEF DelegatorsAreSound
  <2> QED BY <2>1, <2>2, StruckRecord
<1> HIDE DEF B, backers, returned
<1>6. \A x \in B : left(x) = struck(x) /\ (x \in gone <=> struck(x).total = 0)
  BY <1>4
<1>7. gone \subseteq B /\ \A x : x \notin B => left(x) = delegator[x]
  BY <1>4
<1> HIDE DEF struck, left, gone
<1>8. /\ DOMAIN delegator' = DOMAIN delegator \ gone
      /\ \A x \in DOMAIN delegator' : delegator'[x] = left(x)
  BY <1>1
<1>9. Loses(delegator, delegator', B, c)
  <2>1. ASSUME NEW x, x \notin B
        PROVE  /\ x \in DOMAIN delegator' <=> x \in DOMAIN delegator
               /\ x \in DOMAIN delegator => delegator'[x].bonds = delegator[x].bonds
    BY <1>7, <1>8, <2>1
  <2>2. ASSUME NEW x \in B
        PROVE  /\ x \in DOMAIN delegator
               /\ x \in DOMAIN delegator' => delegator'[x].bonds = Drop(delegator[x].bonds, c)
               /\ x \notin DOMAIN delegator' => DOMAIN delegator[x].bonds \subseteq {c}
    BY <1>5, <1>6, <1>8
  <2>3. Struck(delegator, delegator', B, c)
    BY <2>1, <2>2 DEF Struck
  <2> QED BY <2>3, StruckLoses
<1>10. BooksAreOrdered'
  BY <1>1, <1>2 DEF BooksAreOrdered, Drop
<1>11. BooksListBonds'
  <2>1. ASSUME NEW x \in Account
        PROVE  (IF x \in DOMAIN candidate' THEN Contents(candidate'[x]) ELSE {})
                    = OnRecord(delegator', x)
    <3>1. CASE x = c
      <4>1. OnRecord(delegator', c) = {e \in OnRecord(delegator, c) : e.owner \notin B}
        BY <1>9, RecordWithout
      <4>2. \A e \in OnRecord(delegator, c) : e.owner \in B
        BY OneOnRecord DEF B, BackersOnRecord, Backed
      <4>3. OnRecord(delegator', c) = {}
        BY <4>1, <4>2
      <4> QED BY <1>1, <3>1, <4>3 DEF Drop
    <3>2. CASE x # c
      <4>1. OnRecord(delegator', x) = OnRecord(delegator, x)
        BY <1>9, <3>2, OthersStay DEF Loses
      <4>2. OnRecord(delegator, x) = IF x \in DOMAIN candidate THEN Contents(candidate[x]) ELSE {}
        BY <1>2 DEF BooksListBonds, Listed
      <4>3. /\ x \in DOMAIN candidate' <=> x \in DOMAIN candidate
            /\ x \in DOMAIN candidate => candidate'[x] = candidate[x]
        BY <1>1, <3>2 DEF Drop
      <4> QED BY <4>1, <4>2, <4>3
    <3> QED BY <3>1, <3>2
  <2> QED BY <2>1 DEF BooksListBonds, Listed
<1>12. DelegatorsAreSound'
  <2>1. ASSUME NEW x \in DOMAIN delegator' PROVE Sound(delegator'[x])
    <3>1. x \in DOMAIN delegator /\ x \notin gone /\ delegator'[x] = left(x)
      BY <1>8
    <3>2. CASE x \in B
      BY <1>5, <1>6, <3>1, <3>2
    <3>3. CASE x \notin B
      BY <1>2, <1>7, <3>1, <3>3 DEF DelegatorsAreSound
    <3> QED BY <3>2, <3>3
  <2> QED BY <2>1 DEF DelegatorsAreSound
<1>13. StakeIsLocked'
  <2>1. ASSUME NEW x \in Account
        PROVE  delegatorLock'[x] = IF x \in DOMAIN delegator' THEN delegator'[x].total ELSE 0
    <3>1. delegatorLock[x] = IF x \in DOMAIN delegator THEN delegator[x].total ELSE 0
      BY <1>2 DEF StakeIsLocked
    <3>2. CASE x \in B
      <4>1. delegatorLock'[x] = left(x).total
        BY <1>1, <1>4, <3>2
      <4> QED BY <1>5, <1>6, <1>8, <3>2, <4>1
    <3>3. CASE x \notin B
      <4>1. delegatorLock'[x] = delegatorLock[x]
        BY <1>1, <1>3, <1>4, <3>3
      <4> QED BY <1>7, <1>8, <3>1, <3>3, <4>1
    <3> QED BY <3>2, <3>3
  <2> QED BY <2>1 DEF StakeIsLocked
<1>14. LedgerAgrees'
  BY <1>10, <1>11, <1>12, <1>13 DEF LedgerAgrees
<1>15. \A x \in DOMAIN delegator' :
            /\ x \in DOMAIN delegator
            /\ delegator'[x].lessTotal = IF x \in B
                THEN Sub(delegator[x].lessTotal, AmountsOf(RequestsFrom(x, c)))
                ELSE delegator[x].lessTotal
  BY <1>5, <1>6, <1>7, <1>8
<1>16. \A x \in DOMAIN delegator \ DOMAIN delegator' : DOMAIN delegator[x].bonds = {c}
  BY <1>5, <1>6, <1>7, <1>8
<1> QED BY <1>9, <1>14, <1>15, <1>16 DEF B

\* A delegator who leaves leaves every record of bonds.
LEMMA RecordDropped ==
    ASSUME NEW dels, NEW d, NEW c
    PROVE  OnRecord(Drop(dels, d), c) = {e \in OnRecord(dels, c) : e.owner # d}
<1> DEFINE new == Drop(dels, d)
<1>1. \A x : /\ Backed(new, x, c) <=> Backed(dels, x, c) /\ x # d
             /\ Backed(new, x, c) => BondOf(new, x, c) = BondOf(dels, x, c)
  BY DEF Backed, Drop, BondOf
<1> HIDE DEF new
<1>2. \A x : BondOf(dels, x, c).owner = x
  BY DEF BondOf
<1>3. ASSUME NEW e \in OnRecord(new, c) PROVE e \in OnRecord(dels, c) /\ e.owner # d
  <2>1. PICK x : Backed(new, x, c) /\ e = BondOf(new, x, c)
    BY InRecord
  <2>2. Backed(dels, x, c) /\ x # d /\ e = BondOf(dels, x, c)
    BY <1>1, <2>1
  <2> QED BY <1>2, <2>2, InRecord
<1>4. ASSUME NEW e \in OnRecord(dels, c), e.owner # d PROVE e \in OnRecord(new, c)
  <2>1. PICK x : Backed(dels, x, c) /\ e = BondOf(dels, x, c)
    BY InRecord
  <2>2. x # d
    BY <1>2, <1>4, <2>1
  <2>3. Backed(new, x, c) /\ e = BondOf(new, x, c)
    BY <1>1, <2>1, <2>2
  <2> QED BY <2>3, InRecord
<1>5. OnRecord(new, c) = {e \in OnRecord(dels, c) : e.owner # d}
  BY <1>3, <1>4
<1> QED BY <1>5 DEF new

(***************************************************************************)
(* A delegator's exit: each of its bonds is found in its book, so the      *)
(* STORAGE CORRUPTED branch is never taken and Total falls by all of them. *)
(***************************************************************************)
LEMMA ExecuteLeaveDelegatorsAgrees ==
    ASSUME IInv, LedgerAgrees, NEW d \in Account, ExecuteLeaveDelegators(d)
    PROVE  /\ LedgerAgrees'
           /\ d \in DOMAIN delegator /\ delegator' = Drop(delegator, d)
           /\ total' = Sub(total, delegator[d].total)
           /\ \A c \in DOMAIN candidate : SameCandidate(candidate[c], candidate'[c])
           /\ DOMAIN candidate' = DOMAIN candidate
<1> DEFINE bonds == delegator[d].bonds
           backed == DOMAIN bonds \cap DOMAIN candidate
           removed == [c \in backed |-> RmDelegation(candidate[c], d, bonds[c])]
           unbacked == {c \in backed : removed[c].ok}
           after == [c \in DOMAIN candidate |->
                        IF c \in unbacked THEN removed[c].book ELSE candidate[c]]
<1>1. /\ d \in DOMAIN delegator /\ candidate' = after
      /\ total' = Sub(total, SumOf([c \in unbacked |-> bonds[c]]))
      /\ delegator' = Drop(delegator, d)
      /\ delegatorLock' = [delegatorLock EXCEPT ![d] = 0]
  BY DEF ExecuteLeaveDelegators, IsDelegator
<1>2. BooksAreOrdered /\ BooksListBonds /\ DelegatorsAreSound /\ StakeIsLocked
  BY DEF LedgerAgrees
<1>3. Sound(delegator[d]) /\ delegator[d].total = SumOf(bonds) /\ IsStorageMap(bonds, Account, Nat)
  BY <1>1, <1>2, BondsOfSound DEF DelegatorsAreSound, Sound
<1>4. ASSUME NEW c \in DOMAIN bonds
      PROVE  /\ c \in DOMAIN candidate
             /\ BondOf(delegator, d, c) \in Contents(candidate[c])
             /\ BondOf(delegator, d, c).owner = d
             /\ Ordered(candidate[c])
             /\ LET new == RmDelegation(candidate[c], d, bonds[c]) IN
                /\ new.ok /\ Ordered(new.book) /\ SameCandidate(candidate[c], new.book)
                /\ Contents(new.book) = Contents(candidate[c]) \ {BondOf(delegator, d, c)}
  <2> DEFINE b == BondOf(delegator, d, c)
  <2>1. Backed(delegator, d, c)
    BY <1>1 DEF Backed
  <2>2. /\ c \in DOMAIN candidate /\ Ordered(candidate[c])
        /\ b \in Contents(candidate[c]) /\ b.owner = d /\ b.amount = bonds[c]
    BY <2>1, BondIsListed
  <2> HIDE DEF b
  <2>3. LET new == RmDelegation(candidate[c], b.owner, b.amount) IN
        /\ new.ok /\ Ordered(new.book) /\ SameCandidate(candidate[c], new.book)
        /\ Contents(new.book) = Contents(candidate[c]) \ {b}
    BY <2>2, RmDelegationContents
  <2> QED BY <2>2, <2>3 DEF b
<1>5. backed = DOMAIN bonds /\ unbacked = DOMAIN bonds
  BY <1>4
<1>6. [c \in unbacked |-> bonds[c]] = bonds
  BY <1>3, <1>5 DEF IsStorageMap
<1>7. total' = Sub(total, delegator[d].total)
  BY <1>1, <1>3, <1>6
<1>8. /\ DOMAIN candidate' = DOMAIN candidate
      /\ \A c \in DOMAIN bonds : candidate'[c] = RmDelegation(candidate[c], d, bonds[c]).book
      /\ \A c \in DOMAIN candidate : c \notin DOMAIN bonds => candidate'[c] = candidate[c]
  BY <1>1, <1>4, <1>5
<1> HIDE DEF bonds, backed, removed, unbacked, after
<1>9. \A c \in DOMAIN candidate : SameCandidate(candidate[c], candidate'[c])
  <2>1. \A c \in DOMAIN candidate : SameCandidate(candidate[c], candidate[c])
    BY DEF SameCandidate
  <2> QED BY <1>4, <1>8, <2>1
<1>10. BooksAreOrdered'
  BY <1>2, <1>4, <1>8 DEF BooksAreOrdered
<1>11. BooksListBonds'
  <2>1. ASSUME NEW c \in Account
        PROVE  (IF c \in DOMAIN candidate' THEN Contents(candidate'[c]) ELSE {})
                    = OnRecord(delegator', c)
    <3>1. OnRecord(delegator, c) = IF c \in DOMAIN candidate THEN Contents(candidate[c]) ELSE {}
      BY <1>2 DEF BooksListBonds, Listed
    <3>2. OnRecord(delegator', c) = {e \in OnRecord(delegator, c) : e.owner # d}
      BY <1>1, RecordDropped
    <3>3. CASE c \in DOMAIN bonds
      <4> DEFINE b == BondOf(delegator, d, c)
      <4>1. /\ c \in DOMAIN candidate /\ b \in Contents(candidate[c]) /\ b.owner = d
            /\ Ordered(candidate[c])
            /\ Contents(candidate'[c]) = Contents(candidate[c]) \ {b}
        BY <1>4, <1>8, <3>3
      <4> HIDE DEF b
      <4>2. \A e \in Contents(candidate[c]) : e.owner = d <=> e = b
        BY <4>1, OneInBook
      <4> QED BY <1>8, <3>1, <3>2, <4>1, <4>2
    <3>4. CASE c \notin DOMAIN bonds
      <4>1. \A e \in OnRecord(delegator, c) : e.owner # d
        BY <3>4, OneOnRecord DEF Backed, bonds
      <4>2. OnRecord(delegator', c) = OnRecord(delegator, c)
        BY <3>2, <4>1
      <4> QED BY <1>8, <3>1, <3>4, <4>2
    <3> QED BY <3>3, <3>4
  <2> QED BY <2>1 DEF BooksListBonds, Listed
<1>12. DelegatorsAreSound'
  BY <1>1, <1>2 DEF DelegatorsAreSound, Drop
<1>13. StakeIsLocked'
  <2>1. ASSUME NEW x \in Account
        PROVE  delegatorLock'[x] = IF x \in DOMAIN delegator' THEN delegator'[x].total ELSE 0
    BY <1>1, <1>2 DEF StakeIsLocked, Drop, IInv, BalancesInOrder
  <2> QED BY <2>1 DEF StakeIsLocked
<1> QED BY <1>1, <1>7, <1>8, <1>9, <1>10, <1>11, <1>12, <1>13 DEF LedgerAgrees

-----------------------------------------------------------------------------
(* The ledger agrees after each call: candidates and requests *)

\* A call that leaves the delegators alone and the lists of every book.
LEMMA SameListsAgree ==
    ASSUME LedgerAgrees, CandidatesInOrder', DOMAIN candidate' = DOMAIN candidate,
           \A c \in DOMAIN candidate :
                candidate'[c].top = candidate[c].top /\ candidate'[c].bottom = candidate[c].bottom,
           UNCHANGED <<delegator, delegatorLock>>
    PROVE  LedgerAgrees'
<1>1. ASSUME NEW c \in DOMAIN candidate
      PROVE  Ordered(candidate'[c]) /\ Contents(candidate'[c]) = Contents(candidate[c])
  <2>1. BookInv(candidate'[c])
    BY DEF CandidatesInOrder, CandidateInv
  <2>2. Ordered(candidate[c])
    BY DEF LedgerAgrees, BooksAreOrdered
  <2> QED BY <2>1, <2>2 DEF Ordered, Contents
<1>2. BooksAreOrdered'
  BY <1>1 DEF BooksAreOrdered
<1>3. BooksListBonds'
  <2>1. ASSUME NEW c \in Account
        PROVE  (IF c \in DOMAIN candidate' THEN Contents(candidate'[c]) ELSE {})
                    = OnRecord(delegator', c)
    BY <1>1 DEF LedgerAgrees, BooksListBonds, Listed
  <2> QED BY <2>1 DEF BooksListBonds, Listed
<1>4. DelegatorsAreSound'
  BY DEF LedgerAgrees, DelegatorsAreSound
<1>5. StakeIsLocked'
  BY DEF LedgerAgrees, StakeIsLocked
<1> QED BY <1>2, <1>3, <1>4, <1>5 DEF LedgerAgrees

\* A new candidate has no backer on record: nobody backs one who is no candidate.
LEMMA JoinCandidatesAgrees ==
    ASSUME IInv, LedgerAgrees, NEW a \in Account, NEW bond \in Nat, JoinCandidates(a, bond)
    PROVE  LedgerAgrees'
<1>1. /\ a \notin DOMAIN candidate /\ candidate' = Put(candidate, a, NewBook(bond))
      /\ UNCHANGED <<delegator, delegatorLock>>
  BY DEF JoinCandidates, IsCandidate
<1>2. Ordered(NewBook(bond)) /\ Contents(NewBook(bond)) = {}
  BY NewBookOrdered
<1>3. OnRecord(delegator, a) = {}
  BY <1>1 DEF LedgerAgrees, BooksListBonds, Listed
<1> DEFINE new == NewBook(bond)
<1> HIDE DEF new
<1>4. /\ DOMAIN candidate' = DOMAIN candidate \cup {a} /\ candidate'[a] = new
      /\ \A c \in DOMAIN candidate : candidate'[c] = candidate[c]
  BY <1>1 DEF Put, new
<1>5. BooksAreOrdered'
  BY <1>2, <1>4 DEF LedgerAgrees, BooksAreOrdered, new
<1>6. BooksListBonds'
  <2>1. ASSUME NEW c \in Account
        PROVE  (IF c \in DOMAIN candidate' THEN Contents(candidate'[c]) ELSE {})
                    = OnRecord(delegator', c)
    BY <1>1, <1>2, <1>3, <1>4 DEF LedgerAgrees, BooksListBonds, Listed, new
  <2> QED BY <2>1 DEF BooksListBonds, Listed
<1>7. DelegatorsAreSound'
  BY <1>1 DEF LedgerAgrees, DelegatorsAreSound
<1>8. StakeIsLocked'
  BY <1>1 DEF LedgerAgrees, StakeIsLocked
<1> QED BY <1>5, <1>6, <1>7, <1>8 DEF LedgerAgrees

\* The calls on a candidate's status and self bond touch no list.
LEMMA CandidateCallsAgree ==
    ASSUME IInv, IInv', LedgerAgrees, NEW c \in Account, NEW amount \in Nat,
           \/ ScheduleLeaveCandidates(c) \/ CancelLeaveCandidates(c)
           \/ GoOffline(c) \/ GoOnline(c)
           \/ CandidateBondMore(c, amount) \/ ScheduleCandidateBondLess(c, amount)
           \/ ExecuteCandidateBondLess(c) \/ CancelCandidateBondLess(c)
    PROVE  LedgerAgrees'
<1>1. c \in DOMAIN candidate /\ UNCHANGED <<delegator, delegatorLock>>
  BY DEF ScheduleLeaveCandidates, CancelLeaveCandidates, GoOffline, GoOnline,
         CandidateBondMore, ScheduleCandidateBondLess, ExecuteCandidateBondLess,
         CancelCandidateBondLess, IsCandidate
<1>2. candidate[c] \in Book
  BY <1>1, CandidateFields
<1>3. /\ DOMAIN candidate' = DOMAIN candidate
      /\ candidate'[c].top = candidate[c].top /\ candidate'[c].bottom = candidate[c].bottom
      /\ \A x \in DOMAIN candidate : x # c => candidate'[x] = candidate[x]
  <2>1. CASE ScheduleLeaveCandidates(c)
    BY <1>1, <1>2, <2>1 DEF ScheduleLeaveCandidates, Book
  <2>2. CASE CancelLeaveCandidates(c)
    BY <1>1, <1>2, <2>2 DEF CancelLeaveCandidates, Book
  <2>3. CASE GoOffline(c) \/ GoOnline(c)
    BY <1>1, <1>2, <2>3 DEF GoOffline, GoOnline, Book
  <2>4. CASE ScheduleCandidateBondLess(c, amount) \/ CancelCandidateBondLess(c)
    BY <1>1, <1>2, <2>4 DEF ScheduleCandidateBondLess, CancelCandidateBondLess, Book
  <2>5. CASE CandidateBondMore(c, amount)
    BY <1>1, <1>2, <2>5 DEF CandidateBondMore, SetBond, Book
  <2>6. CASE ExecuteCandidateBondLess(c)
    <3> DEFINE new == WithLessBond(candidate[c])
    <3>1. new.top = candidate[c].top /\ new.bottom = candidate[c].bottom
      BY <1>2 DEF WithLessBond, Book
    <3>2. candidate' = [candidate EXCEPT ![c] = new]
      BY <2>6 DEF ExecuteCandidateBondLess, SetBond
    <3> HIDE DEF new
    <3> QED BY <1>1, <3>1, <3>2
  <2> QED BY <2>1, <2>2, <2>3, <2>4, <2>5, <2>6
<1>4. CandidatesInOrder'
  BY DEF IInv
<1>5. \A x \in DOMAIN candidate :
        candidate'[x].top = candidate[x].top /\ candidate'[x].bottom = candidate[x].bottom
  BY <1>3
<1> QED BY <1>1, <1>3, <1>4, <1>5, SameListsAgree

\* The bonds on record are the same, whatever is pending on them.
SameBonds(dels, new) ==
    /\ \A x, y : Backed(new, x, y) <=> Backed(dels, x, y)
    /\ \A x, y : Backed(dels, x, y) => new[x].bonds[y] = dels[x].bonds[y]

\* Then so is what is on record on each candidate, and what can be done.
LEMMA SameBondsRecord ==
    ASSUME NEW dels, NEW new, SameBonds(dels, new)
    PROVE  /\ \A c : OnRecord(new, c) = OnRecord(dels, c)
           /\ \A r : CanBeDone(dels, r) => CanBeDone(new, r)
<1>1. ASSUME NEW c PROVE OnRecord(new, c) = OnRecord(dels, c)
  <2>1. /\ \A x : Backed(new, x, c) <=> Backed(dels, x, c)
        /\ \A x : Backed(dels, x, c) => new[x].bonds[c] = dels[x].bonds[c]
    BY DEF SameBonds
  <2> QED BY <2>1, SameRecord
<1>2. ASSUME NEW r, CanBeDone(dels, r) PROVE CanBeDone(new, r)
  BY <1>2 DEF CanBeDone, SameBonds
<1> QED BY <1>1, <1>2

\* Scheduling and cancelling change what is pending on one record, and no bond.
LEMMA PendingAgrees ==
    ASSUME LedgerAgrees, NEW d \in DOMAIN delegator, NEW less \in Nat,
           delegator' = [delegator EXCEPT ![d] = [delegator[d] EXCEPT !.lessTotal = less]],
           UNCHANGED <<candidate, delegatorLock>>
    PROVE  /\ LedgerAgrees'
           /\ SameBonds(delegator, delegator')
           /\ DOMAIN delegator' = DOMAIN delegator
           /\ delegator'[d].lessTotal = less
           /\ \A x \in DOMAIN delegator : x # d => delegator'[x] = delegator[x]
<1> DEFINE new == [delegator[d] EXCEPT !.lessTotal = less]
<1>1. /\ Sound(new) /\ new.bonds = delegator[d].bonds /\ new.total = delegator[d].total
      /\ new.lessTotal = less
  BY SoundPending DEF LedgerAgrees, DelegatorsAreSound
<1> HIDE DEF new
<1>2. /\ DOMAIN delegator' = DOMAIN delegator /\ delegator'[d] = new
      /\ \A x \in DOMAIN delegator : x # d => delegator'[x] = delegator[x]
  BY DEF new
<1>3. SameBonds(delegator, delegator')
  BY <1>1, <1>2 DEF SameBonds, Backed
<1>4. \A c : OnRecord(delegator', c) = OnRecord(delegator, c)
  BY <1>3, SameBondsRecord
<1>5. BooksAreOrdered' /\ BooksListBonds'
  BY <1>4 DEF LedgerAgrees, BooksAreOrdered, BooksListBonds, Listed
<1>6. DelegatorsAreSound'
  BY <1>1, <1>2 DEF LedgerAgrees, DelegatorsAreSound
<1>7. StakeIsLocked'
  <2>1. ASSUME NEW x \in Account
        PROVE  delegatorLock'[x] = IF x \in DOMAIN delegator' THEN delegator'[x].total ELSE 0
    BY <1>1, <1>2 DEF LedgerAgrees, StakeIsLocked
  <2> QED BY <2>1 DEF StakeIsLocked
<1> QED BY <1>1, <1>2, <1>3, <1>5, <1>6, <1>7 DEF LedgerAgrees

-----------------------------------------------------------------------------
(* The requests stand after each call *)

\* No requests ask for nothing.
LEMMA AmountsOfNone ==
    /\ AmountsOf({}) = 0
    /\ \A n \in Nat : Sub(n, AmountsOf({})) = n
<1> DEFINE f == [r \in {} |-> r.amount]
<1>1. \A r \in DOMAIN f : f[r] = 0
  OBVIOUS
<1>2. SumOf(f) = 0
  BY <1>1, SumOfZeros
<1>3. AmountsOf({}) = 0
  BY <1>2 DEF AmountsOf
<1> QED BY <1>3 DEF Sub

\* One request asks for its amount.
LEMMA AmountsOfOne ==
    ASSUME NEW r \in Request
    PROVE  AmountsOf({r}) = r.amount
<1> DEFINE f == [s \in {r} |-> s.amount]
<1>1. DOMAIN f = {r} /\ f[r] = r.amount /\ f[r] \in Nat
  BY DEF Request
<1> HIDE DEF f
<1>2. SumOf(f) = f[r]
  BY <1>1, SumOfOne
<1> QED BY <1>1, <1>2 DEF AmountsOf, f

\* What is pending on x's record in the new state, when the requests in S are gone.
PendingLess(x, S) ==
    IF x \in DOMAIN delegator
    THEN delegator'[x].lessTotal = Sub(delegator[x].lessTotal, AmountsOf(RequestsOf(S, x)))
    ELSE delegator'[x].lessTotal = 0

\* A record none of whose requests goes keeps what is pending on it.
LEMMA PendingKept ==
    ASSUME IInv, NEW x \in DOMAIN delegator, NEW S, RequestsOf(S, x) = {},
           delegator'[x].lessTotal = delegator[x].lessTotal
    PROVE  PendingLess(x, S)
<1>1. delegator[x].lessTotal \in Nat
  BY DelegatorFields DEF IInv, DelegatorsInOrder
<1> QED BY <1>1, AmountsOfNone DEF PendingLess

(***************************************************************************)
(* Some requests are executed, cancelled or dropped.  Those that stay can  *)
(* still be done, and every record gives back just what its requests that  *)
(* are gone had pending.                                                   *)
(***************************************************************************)
LEMMA RequestsRemoved ==
    ASSUME IInv, RequestsStand, NEW S, requests' = requests \ S, S \subseteq requests,
           \A r \in requests' : CanBeDone(delegator', r),
           \A x \in DOMAIN delegator' : PendingLess(x, S)
    PROVE  RequestsStand'
<1>1. IsFiniteSet(requests) /\ requests \subseteq Request
  BY DEF RequestsStand, RequestsCanBeDone, IInv, CalendarInOrder
<1>2. RequestsCanBeDone'
  <2>1. IsFiniteSet(requests')
    BY <1>1, FS_Subset
  <2>2. \A r, s \in requests' : r.delegator = s.delegator /\ r.collator = s.collator => r = s
    BY DEF RequestsStand, RequestsCanBeDone
  <2> QED BY <2>1, <2>2 DEF RequestsCanBeDone
<1>3. ASSUME NEW x \in DOMAIN delegator'
      PROVE  delegator'[x].lessTotal = AmountsOf(RequestsOf(requests', x))
  <2> DEFINE mine == RequestsOf(requests, x)
             out == RequestsOf(S, x)
  <2>1. RequestsOf(requests', x) = mine \ out /\ out \subseteq mine
    BY DEF RequestsOf
  <2>2. IsFiniteSet(mine) /\ mine \subseteq Request
    BY <1>1, RequestsAreFew
  <2>3. PendingLess(x, S)
    BY <1>3
  <2>4. CASE x \in DOMAIN delegator
    <3>1. delegator'[x].lessTotal = Sub(AmountsOf(mine), AmountsOf(out))
      BY <2>3, <2>4 DEF PendingLess, RequestsStand, PendingAddsUp
    <3> HIDE DEF mine, out
    <3>2. Sub(AmountsOf(mine), AmountsOf(out)) = AmountsOf(mine \ out)
      BY <2>1, <2>2, AmountsLess
    <3> QED BY <2>1, <3>1, <3>2
  <2>5. CASE x \notin DOMAIN delegator
    <3>1. mine = {}
      BY <2>5 DEF RequestsStand, RequestsCanBeDone, CanBeDone, Backed, RequestsOf
    <3>2. RequestsOf(requests', x) = {}
      BY <2>1, <3>1
    <3> QED BY <2>3, <2>5, <3>2, AmountsOfNone DEF PendingLess
  <2> QED BY <2>4, <2>5
<1>4. PendingAddsUp'
  BY <1>3 DEF PendingAddsUp
<1> QED BY <1>2, <1>4 DEF RequestsStand

\* The calls that change neither a delegator nor a request.
LEMMA NothingPending ==
    ASSUME RequestsStand, UNCHANGED <<delegator, requests>>
    PROVE  RequestsStand'
BY DEF RequestsStand, RequestsCanBeDone, CanBeDone, Backed, PendingAddsUp

\* More stake: a decrease stays possible, and a revoke, which would not be up to date
\* any more, is a reason for the code to refuse.
LEMMA DelegatorBondMoreRequests ==
    ASSUME IInv, LedgerAgrees, RequestsStand,
           NEW d \in Account, NEW c \in Account, NEW more \in Nat, DelegatorBondMore(d, c, more)
    PROVE  RequestsStand'
<1>1. /\ Backed(delegator, d, c)
      /\ Rewrites(delegator, delegator', d, c, delegator[d].bonds[c] + more)
      /\ delegator'[d].lessTotal = delegator[d].lessTotal
  BY DelegatorBondMoreAgrees
<1>2. /\ requests' = requests /\ DOMAIN delegator' = DOMAIN delegator
      /\ \A x \in DOMAIN delegator : x # d => delegator'[x] = delegator[x]
      /\ \A r \in RequestsFrom(d, c) : ~IsRevoke(r)
  BY DEF DelegatorBondMore
<1>3. delegator[d].bonds[c] \in Nat
  BY <1>1, BondIsListed DEF BondOf
<1>4. ASSUME NEW r \in requests PROVE CanBeDone(delegator', r)
  <2>1. CanBeDone(delegator, r) /\ r.amount \in Nat
    BY DEF RequestsStand, RequestsCanBeDone, IInv, CalendarInOrder, Request
  <2>2. CASE r.collator # c
    BY <1>1, <2>1, <2>2, OthersStay DEF Rewrites
  <2>3. CASE r.collator = c /\ r.delegator # d
    BY <1>1, <2>1, <2>3 DEF Rewrites, CanBeDone
  <2>4. CASE r.collator = c /\ r.delegator = d
    <3>1. ~IsRevoke(r)
      BY <1>2, <2>4 DEF RequestsFrom
    <3>2. r.amount + MinDelegation <= delegator[d].bonds[c]
      BY <2>1, <2>4, <3>1 DEF CanBeDone
    <3>3. r.amount + MinDelegation <= delegator[d].bonds[c] + more
      BY <1>3, <2>1, <3>2, AmountsAssumption
    <3>4. Backed(delegator', d, c) /\ delegator'[d].bonds[c] = delegator[d].bonds[c] + more
      BY <1>1 DEF Rewrites
    <3> QED BY <2>4, <3>1, <3>3, <3>4 DEF CanBeDone
  <2> QED BY <2>2, <2>3, <2>4
<1>5. \A x \in DOMAIN delegator' : PendingLess(x, {})
  BY <1>1, <1>2, PendingKept DEF RequestsOf
<1>6. requests' = requests \ {}
  BY <1>2
<1> QED BY <1>2, <1>4, <1>5, <1>6, RequestsRemoved

\* The requests of those in K on c.
RequestsOn(c, K) == {r \in requests : r.collator = c /\ r.delegator \in K}

(***************************************************************************)
(* The requests on a candidate go with the bonds they are on: with those   *)
(* of a book's kicked owner, and of all backers when the candidate exits.  *)
(***************************************************************************)
LEMMA RequestsOfTheKicked ==
    ASSUME RequestsStand, NEW K, NEW c
    PROVE  /\ RequestsOn(c, K) \subseteq requests
           /\ \A x : RequestsOf(RequestsOn(c, K), x) =
                        IF x \in K THEN RequestsFrom(x, c) ELSE {}
           /\ \A r \in requests \ RequestsOn(c, K) : r.collator = c => r.delegator \notin K
BY DEF RequestsOn, RequestsOf, RequestsFrom

\* A new delegation.
LEMMA DelegateRequests ==
    ASSUME IInv, LedgerAgrees, RequestsStand,
           NEW d \in Account, NEW c \in Account, NEW amount \in Nat, Delegate(d, c, amount)
    PROVE  RequestsStand'
<1> DEFINE K == KickedBy(d, c, amount)
           S == RequestsOn(c, K)
<1>1. /\ GivesWay(delegator, delegator', K, d, c, amount)
      /\ d \notin K /\ ~Backed(delegator, d, c)
      /\ requests' = {r \in requests : ~(r.collator = c /\ r.delegator \in K)}
      /\ delegator'[d].lessTotal = IF d \in DOMAIN delegator THEN delegator[d].lessTotal ELSE 0
      /\ \A x \in DOMAIN delegator' : x # d =>
            /\ x \in DOMAIN delegator
            /\ delegator'[x].lessTotal = IF x \in K
                THEN Sub(delegator[x].lessTotal, AmountsOf(RequestsFrom(x, c)))
                ELSE delegator[x].lessTotal
  BY DelegateAgrees
<1>2. requests' = requests \ S
  BY <1>1 DEF RequestsOn
<1>3. /\ S \subseteq requests
      /\ \A x : RequestsOf(S, x) = IF x \in K THEN RequestsFrom(x, c) ELSE {}
      /\ \A r \in requests \ S : r.collator = c => r.delegator \notin K
  BY RequestsOfTheKicked
<1> HIDE DEF K, S
<1>4. ASSUME NEW r \in requests' PROVE CanBeDone(delegator', r)
  <2>1. CanBeDone(delegator, r) /\ r \in requests \ S
    BY <1>2 DEF RequestsStand, RequestsCanBeDone
  <2>2. CASE r.collator # c
    BY <1>1, <2>1, <2>2, OthersStay DEF GivesWay
  <2>3. CASE r.collator = c
    <3>1. r.delegator \notin K /\ r.delegator # d
      BY <1>1, <1>3, <2>1, <2>3 DEF CanBeDone
    <3> QED BY <1>1, <2>1, <2>3, <3>1 DEF GivesWay, CanBeDone
  <2> QED BY <2>2, <2>3
<1>5. ASSUME NEW x \in DOMAIN delegator' PROVE PendingLess(x, S)
  <2>1. CASE x \in K
    BY <1>1, <1>3, <2>1 DEF PendingLess
  <2>2. CASE x \notin K /\ x \in DOMAIN delegator
    BY <1>1, <1>3, <2>2, PendingKept
  <2>3. CASE x \notin DOMAIN delegator
    BY <1>1, <2>3 DEF PendingLess
  <2> QED BY <2>1, <2>2, <2>3
<1> QED BY <1>2, <1>3, <1>4, <1>5, RequestsRemoved

\* The exit of a candidate.
LEMMA ExecuteLeaveCandidatesRequests ==
    ASSUME IInv, LedgerAgrees, RequestsStand, NEW c \in Account, ExecuteLeaveCandidates(c)
    PROVE  RequestsStand'
<1> DEFINE K == BackersOnRecord(c)
           S == RequestsOn(c, K)
<1>1. /\ Loses(delegator, delegator', K, c)
      /\ \A x \in DOMAIN delegator' :
            /\ x \in DOMAIN delegator
            /\ delegator'[x].lessTotal = IF x \in K
                THEN Sub(delegator[x].lessTotal, AmountsOf(RequestsFrom(x, c)))
                ELSE delegator[x].lessTotal
  BY ExecuteLeaveCandidatesAgrees
<1>2. \A r \in requests : CanBeDone(delegator, r) /\ (r.collator = c => r.delegator \in K)
  BY DEF RequestsStand, RequestsCanBeDone, CanBeDone, Backed, BackersOnRecord
<1>3. requests' = requests \ S
  <2>1. requests' = {r \in requests : r.collator # c}
    BY DEF ExecuteLeaveCandidates
  <2> QED BY <1>2, <2>1 DEF RequestsOn
<1>4. /\ S \subseteq requests
      /\ \A x : RequestsOf(S, x) = IF x \in K THEN RequestsFrom(x, c) ELSE {}
      /\ \A r \in requests \ S : r.collator = c => r.delegator \notin K
  BY RequestsOfTheKicked
<1> HIDE DEF K, S
<1>5. ASSUME NEW r \in requests' PROVE CanBeDone(delegator', r)
  <2>1. CanBeDone(delegator, r) /\ r.collator # c
    BY <1>2, <1>3, <1>4
  <2> QED BY <1>1, <2>1, OthersStay DEF Loses
<1>6. ASSUME NEW x \in DOMAIN delegator' PROVE PendingLess(x, S)
  <2>1. CASE x \in K
    BY <1>1, <1>4, <2>1 DEF PendingLess
  <2>2. CASE x \notin K
    BY <1>1, <1>4, <2>2, PendingKept
  <2> QED BY <2>1, <2>2
<1> QED BY <1>3, <1>4, <1>5, <1>6, RequestsRemoved

(***************************************************************************)
(* One request goes with what it had pending.  Nobody else's is touched,   *)
(* and there is no second one on the same bond.                            *)
(***************************************************************************)
LEMMA OneRequestGone ==
    ASSUME IInv, RequestsStand, NEW d \in DOMAIN delegator, NEW c, NEW r \in RequestsFrom(d, c)
    PROVE  /\ r \in requests /\ r \in Request /\ r.amount \in Nat
           /\ r.delegator = d /\ r.collator = c
           /\ CanBeDone(delegator, r) /\ Backed(delegator, d, c)
           /\ RequestsOf({r}, d) = {r} /\ AmountsOf(RequestsOf({r}, d)) = r.amount
           /\ \A x : x # d => RequestsOf({r}, x) = {}
           /\ \A s \in requests \ {r} : ~(s.delegator = d /\ s.collator = c)
<1>1. r \in requests /\ r.delegator = d /\ r.collator = c
  BY DEF RequestsFrom
<1>2. r \in Request /\ r.amount \in Nat
  BY <1>1 DEF IInv, CalendarInOrder, Request
<1>3. CanBeDone(delegator, r) /\ Backed(delegator, d, c)
  BY <1>1 DEF RequestsStand, RequestsCanBeDone, CanBeDone
<1>5. \A s \in requests \ {r} : ~(s.delegator = d /\ s.collator = c)
  BY <1>1 DEF RequestsStand, RequestsCanBeDone
<1>6. RequestsOf({r}, d) = {r} /\ \A x : x # d => RequestsOf({r}, x) = {}
  BY <1>1 DEF RequestsOf
<1> QED BY <1>1, <1>2, <1>3, <1>5, <1>6, AmountsOfOne

\* A due request is executed.
LEMMA ExecuteDelegationRequestRequests ==
    ASSUME IInv, LedgerAgrees, RequestsStand, NEW d \in Account, NEW c \in Account,
           ExecuteDelegationRequest(d, c)
    PROVE  RequestsStand' /\ LedgerAgrees'
<1>1. d \in DOMAIN delegator
  BY DEF ExecuteDelegationRequest, IsDelegator
<1>2. ASSUME NEW r \in RequestsFrom(d, c)
      PROVE  /\ r \in requests /\ r.amount \in Nat
             /\ Backed(delegator, d, c)
             /\ CanBeDone(delegator, r)
             /\ AmountsOf(RequestsOf({r}, d)) = r.amount
             /\ \A x : x # d => RequestsOf({r}, x) = {}
             /\ \A s \in requests \ {r} : ~(s.delegator = d /\ s.collator = c)
  BY <1>1, OneRequestGone
<1>3. PICK r \in RequestsFrom(d, c) :
        /\ ExecuteRevoke(d, c, r) \/ ExecuteDecrease(d, c, r)
        /\ requests' = requests \ {r}
  BY DEF ExecuteDelegationRequest
<1>4. \A s \in requests : CanBeDone(delegator, s)
  BY DEF RequestsStand, RequestsCanBeDone
<1>5. CASE ExecuteRevoke(d, c, r)
  <2>2. /\ LedgerAgrees'
        /\ Loses(delegator, delegator', {d}, c)
        /\ d \in DOMAIN delegator' =>
            delegator'[d].lessTotal = Sub(delegator[d].lessTotal, r.amount)
        /\ \A x : x # d => (x \in DOMAIN delegator' <=> x \in DOMAIN delegator)
        /\ \A x \in DOMAIN delegator' : x # d => delegator'[x] = delegator[x]
    <3>1. CanBeDone(delegator, r)
      BY <1>2
    <3> QED BY <1>5, <3>1, ExecuteRevokeAgrees
  <2>3. ASSUME NEW s \in requests' PROVE CanBeDone(delegator', s)
    <3>1. CanBeDone(delegator, s) /\ ~(s.delegator = d /\ s.collator = c)
      BY <1>3, <1>2, <1>4
    <3>2. CASE s.collator # c
      BY <2>2, <3>1, <3>2, OthersStay DEF Loses
    <3>3. CASE s.collator = c
      BY <2>2, <3>1, <3>3 DEF Loses, CanBeDone
    <3> QED BY <3>2, <3>3
  <2>4. ASSUME NEW x \in DOMAIN delegator' PROVE PendingLess(x, {r})
    <3>1. CASE x = d
      BY <1>1, <1>2, <2>2, <2>4, <3>1 DEF PendingLess
    <3>2. CASE x # d
      BY <1>2, <2>2, <2>4, <3>2, PendingKept
    <3> QED BY <3>1, <3>2
  <2> QED BY <1>3, <1>2, <2>2, <2>3, <2>4, RequestsRemoved
<1>6. CASE ExecuteDecrease(d, c, r)
  <2>1. /\ LedgerAgrees'
        /\ Rewrites(delegator, delegator', d, c, delegator[d].bonds[c] - r.amount)
        /\ delegator'[d].lessTotal = Sub(delegator[d].lessTotal, r.amount)
    BY <1>2, <1>6, ExecuteDecreaseAgrees
  <2>2. /\ DOMAIN delegator' = DOMAIN delegator
        /\ \A x \in DOMAIN delegator : x # d => delegator'[x] = delegator[x]
    BY <1>6 DEF ExecuteDecrease
  <2>3. ASSUME NEW s \in requests' PROVE CanBeDone(delegator', s)
    <3>1. CanBeDone(delegator, s) /\ ~(s.delegator = d /\ s.collator = c)
      BY <1>3, <1>2, <1>4
    <3>2. CASE s.collator # c
      BY <2>1, <3>1, <3>2, OthersStay DEF Rewrites
    <3>3. CASE s.collator = c
      BY <2>1, <3>1, <3>3 DEF Rewrites, CanBeDone
    <3> QED BY <3>2, <3>3
  <2>4. ASSUME NEW x \in DOMAIN delegator' PROVE PendingLess(x, {r})
    <3>1. CASE x = d
      BY <1>1, <1>2, <2>1, <3>1 DEF PendingLess
    <3>2. CASE x # d
      BY <1>2, <2>2, <3>2, PendingKept
    <3> QED BY <3>1, <3>2
  <2> QED BY <1>3, <1>2, <2>1, <2>3, <2>4, RequestsRemoved
<1> QED BY <1>3, <1>5, <1>6

(***************************************************************************)
(* Requests are taken back: the record they are on is the only one that    *)
(* changes, by what they had pending.                                      *)
(***************************************************************************)
LEMMA CancelAgrees ==
    ASSUME IInv, LedgerAgrees, RequestsStand, NEW d \in DOMAIN delegator,
           NEW S, S \subseteq RequestsOf(requests, d), requests' = requests \ S,
           delegator' = [delegator EXCEPT ![d] =
                [delegator[d] EXCEPT !.lessTotal = Sub(delegator[d].lessTotal, AmountsOf(S))]],
           UNCHANGED <<candidate, delegatorLock>>
    PROVE  LedgerAgrees' /\ RequestsStand'
<1> DEFINE less == Sub(delegator[d].lessTotal, AmountsOf(S))
<1>1. less \in Nat
  BY DelegatorFields, SubInNat DEF IInv, DelegatorsInOrder
<1>2. delegator' = [delegator EXCEPT ![d] = [delegator[d] EXCEPT !.lessTotal = less]]
  OBVIOUS
<1>3. /\ S \subseteq requests /\ RequestsOf(S, d) = S
      /\ \A x : x # d => RequestsOf(S, x) = {}
  BY DEF RequestsOf
<1>4. less = Sub(delegator[d].lessTotal, AmountsOf(RequestsOf(S, d)))
  BY <1>3
<1> HIDE DEF less
<1>5. /\ LedgerAgrees' /\ SameBonds(delegator, delegator')
      /\ DOMAIN delegator' = DOMAIN delegator /\ delegator'[d].lessTotal = less
      /\ \A x \in DOMAIN delegator : x # d => delegator'[x] = delegator[x]
  BY <1>1, <1>2, PendingAgrees
<1>6. \A r \in requests' : CanBeDone(delegator', r)
  BY <1>5, SameBondsRecord DEF RequestsStand, RequestsCanBeDone
<1>7. ASSUME NEW x \in DOMAIN delegator' PROVE PendingLess(x, S)
  <2>1. CASE x = d
    BY <1>4, <1>5, <2>1 DEF PendingLess
  <2>2. CASE x # d
    BY <1>3, <1>5, <2>2, PendingKept
  <2> QED BY <2>1, <2>2
<1> QED BY <1>3, <1>5, <1>6, <1>7, RequestsRemoved

\* The two calls that take requests back.
LEMMA CancelCallsAgree ==
    ASSUME IInv, LedgerAgrees, RequestsStand, NEW d \in Account, NEW c \in Account,
           CancelDelegationRequest(d, c) \/ CancelLeaveDelegators(d)
    PROVE  LedgerAgrees' /\ RequestsStand'
<1>1. CASE CancelDelegationRequest(d, c)
  <2>1. d \in DOMAIN delegator /\ UNCHANGED <<candidate, delegatorLock>>
    BY <1>1 DEF CancelDelegationRequest, IsDelegator
  <2>2. ASSUME NEW r \in RequestsFrom(d, c)
        PROVE  {r} \subseteq RequestsOf(requests, d) /\ AmountsOf({r}) = r.amount
    <3>1. r \in RequestsOf(requests, d) /\ r \in Request
      BY DEF RequestsFrom, RequestsOf, IInv, CalendarInOrder
    <3> QED BY <3>1, AmountsOfOne
  <2>3. PICK r \in RequestsFrom(d, c) :
            /\ requests' = requests \ {r}
            /\ delegator' = [delegator EXCEPT ![d].lessTotal = Sub(@, r.amount)]
    BY <1>1 DEF CancelDelegationRequest
  <2> DEFINE S == {r}
  <2>4. /\ S \subseteq RequestsOf(requests, d) /\ AmountsOf(S) = r.amount
        /\ requests' = requests \ S
    BY <2>2, <2>3
  <2> HIDE DEF S
  <2>5. delegator' = [delegator EXCEPT ![d] =
            [delegator[d] EXCEPT !.lessTotal = Sub(delegator[d].lessTotal, AmountsOf(S))]]
    BY <2>3, <2>4
  <2> QED BY <2>1, <2>4, <2>5, CancelAgrees
<1>2. CASE CancelLeaveDelegators(d)
  <2> DEFINE S == OwnRequests(d)
  <2>1. /\ d \in DOMAIN delegator /\ requests' = requests \ S
        /\ delegator' = [delegator EXCEPT ![d] =
            [delegator[d] EXCEPT !.lessTotal = Sub(delegator[d].lessTotal, AmountsOf(S))]]
        /\ UNCHANGED <<candidate, delegatorLock>>
    BY <1>2 DEF CancelLeaveDelegators, IsDelegator, AmountsOf
  <2>2. S = RequestsOf(requests, d)
    BY OwnRequestsAreAll DEF RequestsStand
  <2> HIDE DEF S
  <2> QED BY <2>1, <2>2, CancelAgrees
<1> QED BY <1>1, <1>2

\* The exit of a delegator: its requests go with its record.
LEMMA ExecuteLeaveDelegatorsRequests ==
    ASSUME IInv, LedgerAgrees, RequestsStand, NEW d \in Account, ExecuteLeaveDelegators(d)
    PROVE  RequestsStand'
<1> DEFINE S == OwnRequests(d)
<1>1. d \in DOMAIN delegator /\ delegator' = Drop(delegator, d) /\ requests' = requests \ S
  BY ExecuteLeaveDelegatorsAgrees DEF ExecuteLeaveDelegators
<1>2. S = RequestsOf(requests, d)
  BY OwnRequestsAreAll DEF RequestsStand
<1>3. S \subseteq requests /\ \A x : x # d => RequestsOf(S, x) = {}
  BY <1>2 DEF RequestsOf
<1>4. /\ DOMAIN delegator' = DOMAIN delegator \ {d}
      /\ \A x \in DOMAIN delegator' : delegator'[x] = delegator[x]
  BY <1>1 DEF Drop
<1> HIDE DEF S
<1>5. ASSUME NEW r \in requests' PROVE CanBeDone(delegator', r)
  <2>1. CanBeDone(delegator, r) /\ r.delegator # d
    BY <1>1, <1>2 DEF RequestsStand, RequestsCanBeDone, RequestsOf
  <2> QED BY <1>4, <2>1 DEF CanBeDone, Backed
<1>6. ASSUME NEW x \in DOMAIN delegator' PROVE PendingLess(x, S)
  BY <1>3, <1>4, PendingKept
<1> QED BY <1>1, <1>3, <1>5, <1>6, RequestsRemoved

\* A request that can be done, on a bond without one, is put on the books.
LEMMA ScheduleAgrees ==
    ASSUME IInv, LedgerAgrees, RequestsStand, NEW d \in Account, NEW c \in Account,
           Backed(delegator, d, c), NEW action \in {"Revoke", "Decrease"}, NEW amount \in Nat,
           NEW new, new = NewRequest(d, c, action, amount, RevokeDelegationDelay),
           CanBeDone(delegator, new),
           ScheduleRequest(d, c, action, amount)
    PROVE  LedgerAgrees' /\ RequestsStand'
<1> DEFINE less == delegator[d].lessTotal + amount
<1>1. d \in DOMAIN delegator
  BY DEF Backed
<1>2. /\ requests' = requests \cup {new}
      /\ delegator' = [delegator EXCEPT ![d] = [delegator[d] EXCEPT !.lessTotal = less]]
      /\ RequestsFrom(d, c) = {} /\ UNCHANGED <<candidate, delegatorLock>>
  BY DEF ScheduleRequest
<1>3. less \in Nat
  BY <1>1, DelegatorFields DEF IInv, DelegatorsInOrder
<1>4. /\ new.delegator = d /\ new.collator = c /\ new.amount = amount /\ new \in Request
  BY DelaysAssumption DEF NewRequest, Request, IInv, CalendarInOrder
<1> HIDE DEF less
<1>5. /\ LedgerAgrees' /\ SameBonds(delegator, delegator')
      /\ DOMAIN delegator' = DOMAIN delegator /\ delegator'[d].lessTotal = less
      /\ \A x \in DOMAIN delegator : x # d => delegator'[x] = delegator[x]
  BY <1>1, <1>2, <1>3, PendingAgrees
<1>6. IsFiniteSet(requests) /\ requests \subseteq Request
  BY DEF RequestsStand, RequestsCanBeDone, IInv, CalendarInOrder
<1>7. \A r \in requests : ~(r.delegator = d /\ r.collator = c)
  BY <1>2 DEF RequestsFrom
<1>8. RequestsCanBeDone'
  <2>1. \A r \in requests' : CanBeDone(delegator', r)
    BY <1>2, <1>5, SameBondsRecord DEF RequestsStand, RequestsCanBeDone
  <2>2. IsFiniteSet(requests')
    BY <1>2, <1>6, FS_AddElement
  <2>3. \A r, s \in requests' : r.delegator = s.delegator /\ r.collator = s.collator => r = s
    BY <1>2, <1>4, <1>7 DEF RequestsStand, RequestsCanBeDone
  <2> QED BY <2>1, <2>2, <2>3 DEF RequestsCanBeDone
<1>9. ASSUME NEW x \in DOMAIN delegator'
      PROVE  delegator'[x].lessTotal = AmountsOf(RequestsOf(requests', x))
  <2>1. delegator[x].lessTotal = AmountsOf(RequestsOf(requests, x))
    BY <1>5 DEF RequestsStand, PendingAddsUp
  <2>2. CASE x = d
    <3> DEFINE mine == RequestsOf(requests, d)
    <3>1. RequestsOf(requests', d) = mine \cup {new}
      BY <1>2, <1>4 DEF RequestsOf
    <3>2. IsFiniteSet(mine) /\ mine \subseteq Request /\ new \notin mine
      BY <1>4, <1>6, <1>7, RequestsAreFew
    <3> HIDE DEF mine
    <3>3. AmountsOf(mine \cup {new}) = AmountsOf(mine) + new.amount
      BY <1>4, <3>2, AmountsMore
    <3>4. AmountsOf(mine \cup {new}) = less
      BY <1>4, <2>1, <2>2, <3>3 DEF less, mine
    <3> QED BY <1>5, <2>2, <3>1, <3>4
  <2>3. CASE x # d
    <3>1. RequestsOf(requests', x) = RequestsOf(requests, x)
      BY <1>2, <1>4, <2>3 DEF RequestsOf
    <3> QED BY <1>5, <2>1, <2>3, <3>1
  <2> QED BY <2>2, <2>3
<1>10. PendingAddsUp'
  BY <1>9 DEF PendingAddsUp
<1> QED BY <1>5, <1>8, <1>10 DEF RequestsStand

\* The two calls that put a request on one bond.
LEMMA ScheduleCallsAgree ==
    ASSUME IInv, LedgerAgrees, RequestsStand, NEW d \in Account, NEW c \in Account,
           NEW less \in Nat,
           ScheduleRevokeDelegation(d, c) \/ ScheduleDelegatorBondLess(d, c, less)
    PROVE  LedgerAgrees' /\ RequestsStand'
<1>1. Backed(delegator, d, c)
  BY DEF ScheduleRevokeDelegation, ScheduleDelegatorBondLess, Backs, IsDelegator, Backed
<1>2. delegator[d].bonds[c] \in Nat
  BY <1>1, BondIsListed DEF BondOf
<1>3. CASE ScheduleRevokeDelegation(d, c)
  <2> DEFINE amount == delegator[d].bonds[c]
             new == NewRequest(d, c, "Revoke", amount, RevokeDelegationDelay)
  <2>1. ScheduleRequest(d, c, "Revoke", amount)
    BY <1>3 DEF ScheduleRevokeDelegation
  <2>2. CanBeDone(delegator, new)
    BY <1>1 DEF CanBeDone, NewRequest, IsRevoke
  <2>3. amount \in Nat
    BY <1>2
  <2> HIDE DEF amount
  <2> QED BY <1>1, <2>1, <2>2, <2>3, ScheduleAgrees
<1>4. CASE ScheduleDelegatorBondLess(d, c, less)
  <2> DEFINE new == NewRequest(d, c, "Decrease", less, RevokeDelegationDelay)
             bond == delegator[d].bonds[c]
  <2>1. /\ ScheduleRequest(d, c, "Decrease", less)
        /\ bond > less /\ bond - less >= MinDelegation
    BY <1>4 DEF ScheduleDelegatorBondLess
  <2>2. less + MinDelegation <= bond
    <3> HIDE DEF bond
    <3>1. bond \in Nat
      BY <1>2 DEF bond
    <3> QED BY <2>1, <3>1, AmountsAssumption
  <2>3. CanBeDone(delegator, new)
    BY <1>1, <2>2 DEF CanBeDone, NewRequest, IsRevoke
  <2> QED BY <1>1, <2>1, <2>3, ScheduleAgrees
<1> QED BY <1>3, <1>4

\* One revoke for every bond, of all of it: what a leaving delegator has on the books.
RevokesAll(d, mine) ==
    /\ \A r \in mine :
        /\ r \in Request /\ r.delegator = d /\ IsRevoke(r)
        /\ r.collator \in DOMAIN delegator[d].bonds
        /\ r.amount = delegator[d].bonds[r.collator]
    /\ \A c \in DOMAIN delegator[d].bonds : \E r \in mine : r.collator = c
    /\ \A r, s \in mine : r.collator = s.collator => r = s

\* Such requests add up to the bonds.
LEMMA RevokesAddUp ==
    ASSUME NEW d, IsDelegatorState(delegator[d]), NEW mine, RevokesAll(d, mine)
    PROVE  IsFiniteSet(mine) /\ AmountsOf(mine) = SumOf(delegator[d].bonds)
<1> DEFINE bonds == delegator[d].bonds
           g == [r \in mine |-> r.amount]
           h == [c \in DOMAIN bonds |-> CHOOSE r \in mine : r.collator = c]
<1>1. /\ \A r \in mine : r.collator \in DOMAIN bonds /\ r.amount = bonds[r.collator]
      /\ \A c \in DOMAIN bonds : \E r \in mine : r.collator = c
      /\ \A r, s \in mine : r.collator = s.collator => r = s
  BY DEF RevokesAll
<1>2. IsFiniteSet(DOMAIN bonds) /\ bonds \in [DOMAIN bonds -> Nat]
  BY BondsOfSound
<1> HIDE DEF bonds
<1>3. \A c \in DOMAIN bonds : h[c] \in mine /\ h[c].collator = c
  BY <1>1
<1>4. h \in [DOMAIN bonds -> mine]
  BY <1>3
<1>5. \A r \in mine : r.collator \in DOMAIN bonds /\ h[r.collator] = r
  BY <1>1, <1>3
<1> HIDE DEF h
<1>6. h \in Bijection(DOMAIN bonds, mine)
  BY <1>3, <1>4, <1>5 DEF Bijection, Injection, Surjection, IsInjective
<1>7. IsFiniteSet(mine)
  BY <1>2, <1>6, FS_Bijection DEF ExistsBijection
<1>8. DOMAIN g = mine /\ \A c \in DOMAIN bonds : g[h[c]] = bonds[c]
  BY <1>1, <1>3
<1> HIDE DEF g
<1>9. SumOf(g) = SumOf(bonds)
  BY <1>2, <1>6, <1>8, SumOfRenamed
<1> QED BY <1>7, <1>9 DEF AmountsOf, g, bonds

(***************************************************************************)
(* Leaving is announced: what is pending becomes the whole of the bonds,   *)
(* one revoke for each, whether it was scheduled before or is new.         *)
(***************************************************************************)
LEMMA ScheduleLeaveDelegatorsAgrees ==
    ASSUME IInv, LedgerAgrees, RequestsStand, NEW d \in Account, ScheduleLeaveDelegators(d)
    PROVE  LedgerAgrees' /\ RequestsStand'
<1> DEFINE bonds == delegator[d].bonds
           old == OwnRequests(d)
           kept == {r \in old : IsRevoke(r)}
           revoked == DOMAIN bonds \ {r.collator : r \in kept}
           revoke(c) == NewRequest(d, c, "Revoke", bonds[c], LeaveDelegatorsDelay)
           new == {revoke(c) : c \in revoked}
           mine == kept \cup new
           less == Sub(delegator[d].lessTotal, AmountsOf(old)) + SumOf(bonds)
<1>1. /\ d \in DOMAIN delegator
      /\ requests' = (requests \ old) \cup mine
      /\ delegator' = [delegator EXCEPT ![d] = [delegator[d] EXCEPT !.lessTotal = less]]
      /\ UNCHANGED <<candidate, delegatorLock>>
  <2>1. /\ requests' = (requests \ old) \cup kept \cup new
        /\ delegator' = [delegator EXCEPT ![d] = [delegator[d] EXCEPT !.lessTotal = less]]
        /\ d \in DOMAIN delegator /\ UNCHANGED <<candidate, delegatorLock>>
    BY DEF ScheduleLeaveDelegators, AmountsOf, IsDelegator
  <2> HIDE DEF kept, new
  <2> QED BY <2>1
<1>2. old = RequestsOf(requests, d)
  BY OwnRequestsAreAll DEF RequestsStand
<1>3. /\ IsDelegatorState(delegator[d])
      /\ IsStorageMap(bonds, Account, Nat) /\ SumOf(bonds) \in Nat
      /\ DOMAIN bonds \subseteq Account /\ \A c \in DOMAIN bonds : bonds[c] \in Nat
  <2>1. IsDelegatorState(delegator[d])
    BY <1>1 DEF IInv, DelegatorsInOrder
  <2>2. IsStorageMap(bonds, Account, Nat) /\ SumOf(bonds) \in Nat
    BY <2>1, BondsOfSound
  <2> QED BY <2>1, <2>2 DEF IsStorageMap
<1>4. \A r \in old : /\ r \in requests /\ r \in Request /\ r.delegator = d
                     /\ r.collator \in DOMAIN bonds
                     /\ IsRevoke(r) => r.amount = bonds[r.collator]
  BY <1>2 DEF RequestsOf, IInv, CalendarInOrder, RequestsStand, RequestsCanBeDone,
              CanBeDone, Backed
<1>5. ASSUME NEW c \in DOMAIN bonds
      PROVE  /\ revoke(c) \in Request /\ revoke(c).delegator = d /\ IsRevoke(revoke(c))
             /\ revoke(c).collator = c /\ revoke(c).amount = bonds[c]
  <2>1. c \in Account /\ bonds[c] \in Nat
    BY <1>3, <1>5
  <2>2. round + LeaveDelegatorsDelay \in Nat
    BY DelaysAssumption DEF IInv, CalendarInOrder
  <2> HIDE DEF bonds
  <2> QED BY <2>1, <2>2 DEF NewRequest, Request, IsRevoke
<1> HIDE DEF revoke, old
<1>6. RevokesAll(d, mine)
  <2>1. ASSUME NEW r \in mine
        PROVE  /\ r \in Request /\ r.delegator = d /\ IsRevoke(r)
               /\ r.collator \in DOMAIN bonds /\ r.amount = bonds[r.collator]
    <3>1. CASE r \in kept
      BY <1>4, <3>1
    <3>2. CASE r \in new
      BY <1>5, <3>2
    <3> QED BY <3>1, <3>2
  <2>2. ASSUME NEW c \in DOMAIN bonds PROVE \E r \in mine : r.collator = c
    BY <1>5
  <2>3. ASSUME NEW r \in mine, NEW s \in mine, r.collator = s.collator PROVE r = s
    <3>1. \A x, y \in kept : x.collator = y.collator => x = y
      BY <1>4 DEF RequestsStand, RequestsCanBeDone
    <3>2. \A x \in new : x = revoke(x.collator) /\ x.collator \in revoked
      BY <1>5
    <3> QED BY <2>3, <3>1, <3>2
  <2> HIDE DEF mine
  <2> QED BY <2>1, <2>2, <2>3 DEF RevokesAll
<1>7. IsFiniteSet(mine) /\ AmountsOf(mine) = SumOf(bonds)
  BY <1>3, <1>6, RevokesAddUp
<1>8. IsFiniteSet(requests) /\ requests \subseteq Request
  BY DEF RequestsStand, RequestsCanBeDone, IInv, CalendarInOrder
<1>9. less = SumOf(bonds) /\ less \in Nat
  <2>1. delegator[d].lessTotal = AmountsOf(old) /\ AmountsOf(old) \in Nat
    BY <1>1, <1>2, <1>8, RequestsAreFew, AmountsInNat DEF RequestsStand, PendingAddsUp
  <2> DEFINE sum == SumOf(bonds)
             before == AmountsOf(old)
  <2>2. sum \in Nat /\ before \in Nat /\ less = Sub(before, before) + sum
    BY <1>3, <2>1
  <2> HIDE DEF sum, before, less
  <2>3. less = sum
    BY <2>2 DEF Sub
  <2> QED BY <2>2, <2>3 DEF sum
<1> HIDE DEF kept, new, mine, less
<1>10. /\ LedgerAgrees' /\ SameBonds(delegator, delegator')
       /\ DOMAIN delegator' = DOMAIN delegator /\ delegator'[d].lessTotal = less
       /\ \A x \in DOMAIN delegator : x # d => delegator'[x] = delegator[x]
  BY <1>1, <1>9, PendingAgrees
<1>11. \A r \in mine : /\ r.delegator = d /\ IsRevoke(r)
                       /\ r.collator \in DOMAIN bonds /\ r.amount = bonds[r.collator]
  BY <1>6 DEF RevokesAll
<1>12. \A r \in requests' : r \in mine \/ (r \in requests /\ r.delegator # d)
  BY <1>1, <1>2 DEF RequestsOf
<1>13. RequestsCanBeDone'
  <2>1. ASSUME NEW r \in requests' PROVE CanBeDone(delegator, r)
    <3>1. CASE r \in mine
      BY <1>1, <1>11, <3>1 DEF CanBeDone, Backed
    <3>2. CASE r \notin mine
      BY <1>12, <3>2 DEF RequestsStand, RequestsCanBeDone
    <3> QED BY <3>1, <3>2
  <2>2. \A r \in requests' : CanBeDone(delegator', r)
    BY <1>10, <2>1, SameBondsRecord
  <2>3. IsFiniteSet(requests')
    <3>1. IsFiniteSet(requests \ old)
      BY <1>8, FS_Subset
    <3> QED BY <1>1, <1>7, <3>1, FS_Union
  <2>4. ASSUME NEW r \in requests', NEW s \in requests',
               r.delegator = s.delegator, r.collator = s.collator
        PROVE  r = s
    <3>1. \A x, y \in mine : x.collator = y.collator => x = y
      BY <1>6 DEF RevokesAll
    <3>2. \A x, y \in requests : x.delegator = y.delegator /\ x.collator = y.collator => x = y
      BY DEF RequestsStand, RequestsCanBeDone
    <3> QED BY <1>11, <1>12, <2>4, <3>1, <3>2
  <2> QED BY <2>2, <2>3, <2>4 DEF RequestsCanBeDone
<1>14. ASSUME NEW x \in DOMAIN delegator'
       PROVE  delegator'[x].lessTotal = AmountsOf(RequestsOf(requests', x))
  <2>1. CASE x = d
    <3>1. RequestsOf(requests', d) = mine
      BY <1>1, <1>2, <1>11 DEF RequestsOf
    <3> QED BY <1>7, <1>9, <1>10, <2>1, <3>1
  <2>2. CASE x # d
    <3>1. RequestsOf(requests', x) = RequestsOf(requests, x)
      BY <1>1, <1>2, <1>11, <2>2 DEF RequestsOf
    <3>2. delegator[x].lessTotal = AmountsOf(RequestsOf(requests, x))
      BY <1>10 DEF RequestsStand, PendingAddsUp
    <3> QED BY <1>10, <2>2, <3>1, <3>2
  <2> QED BY <2>1, <2>2
<1>15. PendingAddsUp'
  BY <1>14 DEF PendingAddsUp
<1> QED BY <1>10, <1>13, <1>15 DEF RequestsStand

-----------------------------------------------------------------------------
(* The self bonds stand after each call *)

\* The calls that leave every self bond and the request on it alone, on books old and new.
LEMMA SelfBondsKept ==
    ASSUME SelfBondsStand, DOMAIN candidate' = DOMAIN candidate,
           \A c \in DOMAIN candidate : SameCandidate(candidate[c], candidate'[c]),
           UNCHANGED collatorLock
    PROVE  SelfBondsStand'
<1>1. \A c \in DOMAIN candidate : /\ candidate'[c].bond = candidate[c].bond
                                  /\ candidate'[c].bondLess = candidate[c].bondLess
  BY DEF SameCandidate
<1>2. SelfBondIsLocked'
  <2>1. ASSUME NEW c \in Account
        PROVE  collatorLock'[c] = IF c \in DOMAIN candidate' THEN candidate'[c].bond ELSE 0
    BY <1>1 DEF SelfBondsStand, SelfBondIsLocked
  <2> QED BY <2>1 DEF SelfBondIsLocked
<1>3. SelfRequestsCanBeDone'
  BY <1>1 DEF SelfBondsStand, SelfRequestsCanBeDone
<1> QED BY <1>2, <1>3 DEF SelfBondsStand

\* One candidate's self bond or the request on it is written, and the bond locked.
LEMMA SelfBondWritten ==
    ASSUME SelfBondsStand, collatorLock \in [Account -> Nat],
           NEW c \in DOMAIN candidate, c \in Account, NEW book,
           candidate' = [candidate EXCEPT ![c] = book],
           collatorLock' = [collatorLock EXCEPT ![c] = book.bond],
           book.bondLess # NoBondLess => book.bondLess.amount + MinCandidateStk <= book.bond
    PROVE  SelfBondsStand'
<1>1. /\ DOMAIN candidate' = DOMAIN candidate /\ candidate'[c] = book
      /\ \A x \in DOMAIN candidate : x # c => candidate'[x] = candidate[x]
  OBVIOUS
<1>2. SelfBondIsLocked'
  <2>1. ASSUME NEW x \in Account
        PROVE  collatorLock'[x] = IF x \in DOMAIN candidate' THEN candidate'[x].bond ELSE 0
    BY <1>1 DEF SelfBondsStand, SelfBondIsLocked
  <2> QED BY <2>1 DEF SelfBondIsLocked
<1>3. SelfRequestsCanBeDone'
  BY <1>1 DEF SelfBondsStand, SelfRequestsCanBeDone
<1> QED BY <1>2, <1>3 DEF SelfBondsStand

\* The calls on a candidate's status.
LEMMA StatusCallsStand ==
    ASSUME IInv, SelfBondsStand, NEW c \in Account,
           \/ ScheduleLeaveCandidates(c) \/ CancelLeaveCandidates(c)
           \/ GoOffline(c) \/ GoOnline(c)
    PROVE  SelfBondsStand'
<1>1. c \in DOMAIN candidate /\ UNCHANGED collatorLock
  BY DEF ScheduleLeaveCandidates, CancelLeaveCandidates, GoOffline, GoOnline, IsCandidate
<1>2. candidate[c] \in Book
  BY <1>1, CandidateFields
<1>3. /\ DOMAIN candidate' = DOMAIN candidate
      /\ candidate'[c].bond = candidate[c].bond /\ candidate'[c].bondLess = candidate[c].bondLess
      /\ \A x \in DOMAIN candidate : x # c => candidate'[x] = candidate[x]
  <2>1. CASE ScheduleLeaveCandidates(c)
    BY <1>1, <1>2, <2>1 DEF ScheduleLeaveCandidates, Book
  <2>2. CASE CancelLeaveCandidates(c)
    BY <1>1, <1>2, <2>2 DEF CancelLeaveCandidates, Book
  <2>3. CASE GoOffline(c) \/ GoOnline(c)
    BY <1>1, <1>2, <2>3 DEF GoOffline, GoOnline, Book
  <2> QED BY <2>1, <2>2, <2>3
<1>4. SelfBondIsLocked'
  <2>1. ASSUME NEW x \in Account
        PROVE  collatorLock'[x] = IF x \in DOMAIN candidate' THEN candidate'[x].bond ELSE 0
    BY <1>1, <1>3 DEF SelfBondsStand, SelfBondIsLocked
  <2> QED BY <2>1 DEF SelfBondIsLocked
<1>5. SelfRequestsCanBeDone'
  BY <1>3 DEF SelfBondsStand, SelfRequestsCanBeDone
<1> QED BY <1>4, <1>5 DEF SelfBondsStand

\* The calls on a candidate's self bond.  A decrease is scheduled against the bond of that
\* time, and a bond may only grow until it is executed: there is one request at a time.
LEMMA SelfBondCallsStand ==
    ASSUME IInv, SelfBondsStand, NEW c \in Account, NEW amount \in Nat,
           \/ CandidateBondMore(c, amount) \/ ScheduleCandidateBondLess(c, amount)
           \/ ExecuteCandidateBondLess(c) \/ CancelCandidateBondLess(c)
    PROVE  SelfBondsStand'
<1> DEFINE book == candidate[c]
<1>1. c \in DOMAIN candidate
  BY DEF CandidateBondMore, ScheduleCandidateBondLess, ExecuteCandidateBondLess,
         CancelCandidateBondLess, IsCandidate
<1>2. /\ book \in Book /\ book.bond \in Nat /\ collatorLock \in [Account -> Nat]
      /\ book.bondLess \in BondLess /\ book.bondLess.amount \in Nat
      /\ collatorLock[c] = book.bond
      /\ book.bondLess # NoBondLess => book.bondLess.amount + MinCandidateStk <= book.bond
  BY <1>1, CandidateFields DEF IInv, BalancesInOrder, BondLess, SelfBondsStand,
     SelfBondIsLocked, SelfRequestsCanBeDone
<1>3. [collatorLock EXCEPT ![c] = book.bond] = collatorLock
  BY <1>2
<1>4. CASE CandidateBondMore(c, amount)
  <2> DEFINE bond == book.bond + amount
             new == [book EXCEPT !.bond = @ + amount, !.counted = @ + amount]
  <2>1. /\ candidate' = [candidate EXCEPT ![c] = new]
        /\ collatorLock' = [collatorLock EXCEPT ![c] = bond]
    BY <1>4 DEF CandidateBondMore, SetBond
  <2>2. new.bond = bond /\ new.bondLess = book.bondLess
    BY <1>2 DEF Book
  <2>3. book.bondLess # NoBondLess => book.bondLess.amount + MinCandidateStk <= bond
    BY <1>2, AmountsAssumption
  <2> HIDE DEF new, bond
  <2> QED BY <1>1, <1>2, <2>1, <2>2, <2>3, SelfBondWritten
<1>5. CASE ScheduleCandidateBondLess(c, amount)
  <2> DEFINE request == [amount |-> amount, when |-> round + CandidateBondLessDelay]
             new == [book EXCEPT !.bondLess = request]
  <2>1. /\ candidate' = [candidate EXCEPT ![c] = new] /\ UNCHANGED collatorLock
        /\ book.bond > amount /\ book.bond - amount >= MinCandidateStk
    BY <1>5 DEF ScheduleCandidateBondLess
  <2>2. new.bond = book.bond /\ new.bondLess.amount = amount
    BY <1>2 DEF Book
  <2>3. amount + MinCandidateStk <= book.bond
    BY <1>2, <2>1, AmountsAssumption
  <2> HIDE DEF new
  <2> QED BY <1>1, <1>2, <1>3, <2>1, <2>2, <2>3, SelfBondWritten
<1>6. CASE ExecuteCandidateBondLess(c)
  <2> DEFINE new == WithLessBond(book)
  <2>1. /\ candidate' = [candidate EXCEPT ![c] = new]
        /\ collatorLock' = [collatorLock EXCEPT ![c] = new.bond]
    BY <1>6 DEF ExecuteCandidateBondLess, SetBond
  <2>2. new.bondLess = NoBondLess
    BY <1>2 DEF WithLessBond, Book
  <2> HIDE DEF new
  <2> QED BY <1>1, <1>2, <2>1, <2>2, SelfBondWritten
<1>7. CASE CancelCandidateBondLess(c)
  <2> DEFINE new == [book EXCEPT !.bondLess = NoBondLess]
  <2>1. candidate' = [candidate EXCEPT ![c] = new] /\ UNCHANGED collatorLock
    BY <1>7 DEF CancelCandidateBondLess
  <2>2. new.bond = book.bond /\ new.bondLess = NoBondLess
    BY <1>2 DEF Book
  <2> HIDE DEF new
  <2> QED BY <1>1, <1>2, <1>3, <2>1, <2>2, SelfBondWritten
<1> QED BY <1>4, <1>5, <1>6, <1>7

\* Joining and exiting.
LEMMA ComingAndGoingStand ==
    ASSUME IInv, SelfBondsStand, NEW c \in Account, NEW bond \in Nat,
           JoinCandidates(c, bond) \/ ExecuteLeaveCandidates(c)
    PROVE  SelfBondsStand'
<1>1. collatorLock \in [Account -> Nat]
  BY DEF IInv, BalancesInOrder
<1>2. CASE JoinCandidates(c, bond)
  <2> DEFINE new == NewBook(bond)
  <2>1. /\ candidate' = Put(candidate, c, new)
        /\ collatorLock' = [collatorLock EXCEPT ![c] = bond]
    BY <1>2 DEF JoinCandidates
  <2>2. new.bond = bond /\ new.bondLess = NoBondLess
    BY DEF NewBook
  <2> HIDE DEF new
  <2>3. SelfBondIsLocked'
    <3>1. ASSUME NEW x \in Account
          PROVE  collatorLock'[x] = IF x \in DOMAIN candidate' THEN candidate'[x].bond ELSE 0
      BY <1>1, <2>1, <2>2 DEF SelfBondsStand, SelfBondIsLocked, Put
    <3> QED BY <3>1 DEF SelfBondIsLocked
  <2>4. SelfRequestsCanBeDone'
    BY <2>1, <2>2 DEF SelfBondsStand, SelfRequestsCanBeDone, Put
  <2> QED BY <2>3, <2>4 DEF SelfBondsStand
<1>3. CASE ExecuteLeaveCandidates(c)
  <2>1. /\ candidate' = Drop(candidate, c)
        /\ collatorLock' = [collatorLock EXCEPT ![c] = 0]
    BY <1>3 DEF ExecuteLeaveCandidates
  <2>2. SelfBondIsLocked'
    <3>1. ASSUME NEW x \in Account
          PROVE  collatorLock'[x] = IF x \in DOMAIN candidate' THEN candidate'[x].bond ELSE 0
      BY <1>1, <2>1 DEF SelfBondsStand, SelfBondIsLocked, Drop
    <3> QED BY <3>1 DEF SelfBondIsLocked
  <2>3. SelfRequestsCanBeDone'
    BY <2>1 DEF SelfBondsStand, SelfRequestsCanBeDone, Drop
  <2> QED BY <2>2, <2>3 DEF SelfBondsStand
<1> QED BY <1>2, <1>3

\* No candidate comes or goes, and no self bond, status or request on a self bond changes.
CandidatesStay ==
    /\ DOMAIN candidate' = DOMAIN candidate
    /\ \A c \in DOMAIN candidate : SameCandidate(candidate[c], candidate'[c])
    /\ UNCHANGED collatorLock

\* The calls of delegators write lists and nothing else of a candidate.
LEMMA DelegationCallsKeepCandidates ==
    ASSUME IInv, LedgerAgrees,
           NEW d \in Account, NEW c \in Account, NEW amount \in Nat,
           \/ Delegate(d, c, amount) \/ DelegatorBondMore(d, c, amount)
           \/ ExecuteDelegationRequest(d, c) \/ ExecuteLeaveDelegators(d)
    PROVE  CandidatesStay
<1>1. \A x \in DOMAIN candidate : BookInv(candidate[x])
  BY DEF IInv, CandidatesInOrder, CandidateInv
<1>2. ASSUME NEW book, SetBook(c, book), c \in DOMAIN candidate,
             SameCandidate(candidate[c], book), UNCHANGED collatorLock
      PROVE  CandidatesStay
  <2>1. DOMAIN candidate' = DOMAIN candidate
    BY <1>2 DEF SetBook
  <2>2. \A x \in DOMAIN candidate : SameCandidate(candidate[x], candidate'[x])
    BY <1>2 DEF SetBook, SameCandidate
  <2> QED BY <1>2, <2>1, <2>2 DEF CandidatesStay
<1>3. CASE Delegate(d, c, amount)
  <2> DEFINE bond == [owner |-> d, amount |-> amount]
             new == AddDelegation(candidate[c], bond)
  <2>1. c \in DOMAIN candidate /\ SetBook(c, new.book) /\ UNCHANGED collatorLock
    BY <1>3 DEF Delegate, IsCandidate
  <2>2. bond \in Bond
    BY DEF Bond
  <2>3. SameCandidate(candidate[c], new.book)
    BY <1>1, <2>1, <2>2, AddDelegationKeepsInv
  <2> HIDE DEF new
  <2> QED BY <1>2, <2>1, <2>3
<1>4. CASE DelegatorBondMore(d, c, amount)
  <2> DEFINE bond == delegator[d].bonds[c]
             new == IncreaseDelegation(candidate[c], d, bond, amount)
  <2>1. /\ c \in DOMAIN candidate /\ SetBook(c, new.book) /\ UNCHANGED collatorLock
        /\ new.ok /\ Backed(delegator, d, c)
    BY <1>4 DEF DelegatorBondMore, IsCandidate, Backs, IsDelegator, Backed
  <2>2. bond \in Nat
    BY <2>1, BondIsListed DEF BondOf
  <2>3. SameCandidate(candidate[c], new.book)
    BY <1>1, <2>1, <2>2, IncreaseDelegationKeepsInv
  <2> HIDE DEF new
  <2> QED BY <1>2, <2>1, <2>3
<1>5. CASE ExecuteDelegationRequest(d, c)
  <2>1. UNCHANGED collatorLock
    BY <1>5 DEF ExecuteDelegationRequest
  <2>2. ASSUME NEW r \in RequestsFrom(d, c), ExecuteRevoke(d, c, r) PROVE CandidatesStay
    <3> DEFINE new == RmDelegation(candidate[c], d, r.amount)
    <3>1. c \in DOMAIN candidate /\ SetBook(c, new.book) /\ new.ok
      BY <2>2 DEF ExecuteRevoke, IsCandidate
    <3>2. SameCandidate(candidate[c], new.book)
      BY <1>1, <3>1, RmDelegationKeepsInv
    <3> HIDE DEF new
    <3> QED BY <1>2, <2>1, <3>1, <3>2
  <2>3. ASSUME NEW r \in RequestsFrom(d, c), ExecuteDecrease(d, c, r) PROVE CandidatesStay
    <3> DEFINE bond == delegator[d].bonds[c]
               new == DecreaseDelegation(candidate[c], d, bond, r.amount)
    <3>1. c \in DOMAIN candidate /\ SetBook(c, new.book) /\ new.ok /\ Backed(delegator, d, c)
      BY <2>3 DEF ExecuteDecrease, IsCandidate, Backs, IsDelegator, Backed
    <3>2. bond \in Nat /\ r.amount \in Nat
      BY <3>1, BondIsListed DEF BondOf, RequestsFrom, IInv, CalendarInOrder, Request
    <3>3. SameCandidate(candidate[c], new.book)
      BY <1>1, <3>1, <3>2, DecreaseDelegationKeepsInv
    <3> HIDE DEF new
    <3> QED BY <1>2, <2>1, <3>1, <3>3
  <2>4. \E r \in RequestsFrom(d, c) : ExecuteRevoke(d, c, r) \/ ExecuteDecrease(d, c, r)
    BY <1>5 DEF ExecuteDelegationRequest
  <2> QED BY <2>2, <2>3, <2>4
<1>6. CASE ExecuteLeaveDelegators(d)
  <2>1. /\ DOMAIN candidate' = DOMAIN candidate /\ UNCHANGED collatorLock
        /\ \A x \in DOMAIN candidate : SameCandidate(candidate[x], candidate'[x])
    BY <1>6, ExecuteLeaveDelegatorsAgrees DEF ExecuteLeaveDelegators
  <2> QED BY <2>1 DEF CandidatesStay
<1> QED BY <1>3, <1>4, <1>5, <1>6

\* ... and so never a self bond.
LEMMA DelegationCallsStand ==
    ASSUME IInv, LedgerAgrees, SelfBondsStand,
           NEW d \in Account, NEW c \in Account, NEW amount \in Nat,
           \/ Delegate(d, c, amount) \/ DelegatorBondMore(d, c, amount)
           \/ ExecuteDelegationRequest(d, c) \/ ExecuteLeaveDelegators(d)
    PROVE  SelfBondsStand'
<1>1. CandidatesStay
  BY DelegationCallsKeepCandidates
<1> QED BY <1>1, SelfBondsKept DEF CandidatesStay

\* The calls that change no candidate and lock no self bond.
LEMMA NoSelfBondWritten ==
    ASSUME SelfBondsStand, UNCHANGED <<candidate, collatorLock>>
    PROVE  SelfBondsStand'
BY DEF SelfBondsStand, SelfBondIsLocked, SelfRequestsCanBeDone

-----------------------------------------------------------------------------
(* The inductive invariant of the ledger *)

\* Before the first call nobody has bonded anything.
LEMMA InitCoherent ==
    ASSUME Init PROVE Coherent
<1>1. /\ DOMAIN candidate = {} /\ DOMAIN delegator = {} /\ requests = {}
      /\ \A a \in Account : collatorLock[a] = 0 /\ delegatorLock[a] = 0
  BY DEF Init, NoEntries
<1>2. \A c \in Account : Listed(c) = {} /\ OnRecord(delegator, c) = {}
  BY <1>1 DEF Listed, OnRecord, Backed
<1>3. LedgerAgrees
  BY <1>1, <1>2 DEF LedgerAgrees, BooksAreOrdered, BooksListBonds, DelegatorsAreSound,
                    StakeIsLocked
<1>4. RequestsStand
  BY <1>1, FS_EmptySet DEF RequestsStand, RequestsCanBeDone, PendingAddsUp
<1>5. SelfBondsStand
  BY <1>1 DEF SelfBondsStand, SelfBondIsLocked, SelfRequestsCanBeDone
<1> QED BY <1>3, <1>4, <1>5 DEF Coherent

\* Any call of a candidate.
LEMMA CandidateCallCoherent ==
    ASSUME IInv, IInv', Coherent, NEW c \in Joiners, CandidateCall(c)
    PROVE  Coherent'
<1>1. c \in Account /\ Amounts \subseteq Nat /\ 0 \in Nat
  BY AccountsAssumption, AmountsAssumption
<1>2. LedgerAgrees /\ RequestsStand /\ SelfBondsStand
  BY DEF Coherent
<1>3. ASSUME NEW bond \in Nat, JoinCandidates(c, bond) PROVE Coherent'
  <2>1. LedgerAgrees'
    BY <1>1, <1>2, <1>3, JoinCandidatesAgrees
  <2>2. RequestsStand'
    BY <1>2, <1>3, NothingPending DEF JoinCandidates
  <2>3. SelfBondsStand'
    BY <1>1, <1>2, <1>3, ComingAndGoingStand
  <2> QED BY <2>1, <2>2, <2>3 DEF Coherent
<1>4. ASSUME ExecuteLeaveCandidates(c) PROVE Coherent'
  <2>1. LedgerAgrees'
    BY <1>1, <1>2, <1>4, ExecuteLeaveCandidatesAgrees
  <2>2. RequestsStand'
    BY <1>1, <1>2, <1>4, ExecuteLeaveCandidatesRequests
  <2>3. SelfBondsStand'
    BY <1>1, <1>2, <1>4, ComingAndGoingStand
  <2> QED BY <2>1, <2>2, <2>3 DEF Coherent
<1>5. ASSUME \/ ScheduleLeaveCandidates(c) \/ CancelLeaveCandidates(c)
             \/ GoOffline(c) \/ GoOnline(c)
      PROVE  Coherent'
  <2>1. LedgerAgrees'
    BY <1>1, <1>2, <1>5, CandidateCallsAgree
  <2>2. UNCHANGED <<delegator, requests>>
    BY <1>5 DEF ScheduleLeaveCandidates, CancelLeaveCandidates, GoOffline, GoOnline
  <2>3. RequestsStand'
    BY <1>2, <2>2, NothingPending
  <2>4. SelfBondsStand'
    BY <1>1, <1>2, <1>5, StatusCallsStand
  <2> QED BY <2>1, <2>3, <2>4 DEF Coherent
<1>6. ASSUME NEW amount \in Nat,
             \/ CandidateBondMore(c, amount) \/ ScheduleCandidateBondLess(c, amount)
             \/ ExecuteCandidateBondLess(c) \/ CancelCandidateBondLess(c)
      PROVE  Coherent'
  <2>1. LedgerAgrees'
    BY <1>1, <1>2, <1>6, CandidateCallsAgree
  <2>2. UNCHANGED <<delegator, requests>>
    BY <1>6 DEF CandidateBondMore, ScheduleCandidateBondLess, ExecuteCandidateBondLess,
                CancelCandidateBondLess
  <2>3. RequestsStand'
    BY <1>2, <2>2, NothingPending
  <2>4. SelfBondsStand'
    BY <1>1, <1>2, <1>6, SelfBondCallsStand
  <2> QED BY <2>1, <2>3, <2>4 DEF Coherent
<1> QED BY <1>1, <1>3, <1>4, <1>5, <1>6 DEF CandidateCall

\* Any call of a delegator.
LEMMA DelegationCallCoherent ==
    ASSUME IInv, Coherent, NEW d \in Account, NEW c \in Account,
           DelegationCall(d, c) \/ DelegatorCall(d)
    PROVE  Coherent'
<1>1. Amounts \subseteq Nat /\ 0 \in Nat
  BY AmountsAssumption
<1>2. LedgerAgrees /\ RequestsStand /\ SelfBondsStand
  BY DEF Coherent
<1>3. ASSUME NEW amount \in Nat, Delegate(d, c, amount) PROVE Coherent'
  <2>1. LedgerAgrees'
    BY <1>2, <1>3, DelegateAgrees
  <2>2. RequestsStand'
    BY <1>2, <1>3, DelegateRequests
  <2>3. SelfBondsStand'
    BY <1>2, <1>3, DelegationCallsStand
  <2> QED BY <2>1, <2>2, <2>3 DEF Coherent
<1>4. ASSUME NEW amount \in Nat, DelegatorBondMore(d, c, amount) PROVE Coherent'
  <2>1. LedgerAgrees'
    BY <1>2, <1>4, DelegatorBondMoreAgrees
  <2>2. RequestsStand'
    BY <1>2, <1>4, DelegatorBondMoreRequests
  <2>3. SelfBondsStand'
    BY <1>2, <1>4, DelegationCallsStand
  <2> QED BY <2>1, <2>2, <2>3 DEF Coherent
<1>5. ASSUME ExecuteDelegationRequest(d, c) PROVE Coherent'
  <2>1. LedgerAgrees' /\ RequestsStand'
    BY <1>2, <1>5, ExecuteDelegationRequestRequests
  <2>2. SelfBondsStand'
    BY <1>1, <1>2, <1>5, DelegationCallsStand
  <2> QED BY <2>1, <2>2 DEF Coherent
<1>6. ASSUME ExecuteLeaveDelegators(d) PROVE Coherent'
  <2>1. LedgerAgrees'
    BY <1>2, <1>6, ExecuteLeaveDelegatorsAgrees
  <2>2. RequestsStand'
    BY <1>2, <1>6, ExecuteLeaveDelegatorsRequests
  <2>3. SelfBondsStand'
    BY <1>1, <1>2, <1>6, DelegationCallsStand
  <2> QED BY <2>1, <2>2, <2>3 DEF Coherent
<1>7. ASSUME NEW less \in Nat,
             ScheduleRevokeDelegation(d, c) \/ ScheduleDelegatorBondLess(d, c, less)
      PROVE  Coherent'
  <2>1. LedgerAgrees' /\ RequestsStand'
    BY <1>2, <1>7, ScheduleCallsAgree
  <2>2. UNCHANGED <<candidate, collatorLock>>
    BY <1>7 DEF ScheduleRevokeDelegation, ScheduleDelegatorBondLess, ScheduleRequest
  <2>3. SelfBondsStand'
    BY <1>2, <2>2, NoSelfBondWritten
  <2> QED BY <2>1, <2>3 DEF Coherent
<1>8. ASSUME CancelDelegationRequest(d, c) \/ CancelLeaveDelegators(d) PROVE Coherent'
  <2>1. LedgerAgrees' /\ RequestsStand'
    BY <1>2, <1>8, CancelCallsAgree
  <2>2. UNCHANGED <<candidate, collatorLock>>
    BY <1>8 DEF CancelDelegationRequest, CancelLeaveDelegators
  <2>3. SelfBondsStand'
    BY <1>2, <2>2, NoSelfBondWritten
  <2> QED BY <2>1, <2>3 DEF Coherent
<1>9. ASSUME ScheduleLeaveDelegators(d) PROVE Coherent'
  <2>1. LedgerAgrees' /\ RequestsStand'
    BY <1>2, <1>9, ScheduleLeaveDelegatorsAgrees
  <2>2. UNCHANGED <<candidate, collatorLock>>
    BY <1>9 DEF ScheduleLeaveDelegators
  <2>3. SelfBondsStand'
    BY <1>2, <2>2, NoSelfBondWritten
  <2> QED BY <2>1, <2>3 DEF Coherent
<1>10. CASE DelegationCall(d, c)
  BY <1>1, <1>3, <1>4, <1>5, <1>7, <1>8, <1>10 DEF DelegationCall
<1>11. CASE DelegatorCall(d)
  BY <1>6, <1>8, <1>9, <1>11 DEF DelegatorCall
<1> QED BY <1>10, <1>11

\* A round starts, or nothing happens.
LEMMA NothingBonded ==
    ASSUME Coherent, UNCHANGED <<candidate, delegator, requests, collatorLock, delegatorLock>>
    PROVE  Coherent'
<1>1. LedgerAgrees'
  BY DEF Coherent, LedgerAgrees, BooksAreOrdered, BooksListBonds, DelegatorsAreSound,
         StakeIsLocked, Listed
<1>2. RequestsStand' /\ SelfBondsStand'
  BY NothingPending, NoSelfBondWritten DEF Coherent
<1> QED BY <1>1, <1>2 DEF Coherent

\* Every step keeps it.
LEMMA StepCoherent ==
    ASSUME IInv, IInv', Coherent, [Next]_vars PROVE Coherent'
<1>1. CASE \E c \in Joiners : CandidateCall(c)
  BY <1>1, CandidateCallCoherent
<1>2. CASE \E d \in Backers, c \in Joiners : DelegationCall(d, c)
  BY <1>2, DelegationCallCoherent, AccountsAssumption
<1>3. CASE \E d \in Backers : DelegatorCall(d)
  BY <1>3, DelegationCallCoherent, AccountsAssumption
<1>4. CASE NextRound \/ UNCHANGED vars
  <2>1. UNCHANGED <<candidate, delegator, requests, collatorLock, delegatorLock>>
    BY <1>4 DEF NextRound, vars
  <2> QED BY <2>1, NothingBonded
<1> QED BY <1>1, <1>2, <1>3, <1>4 DEF Next, Call

(***************************************************************************)
(* The ledger is coherent in every reachable state: books, records, locks  *)
(* and requests tell the same story, whatever calls were made.             *)
(***************************************************************************)
THEOREM LedgerStaysCoherent == Spec => [](IInv /\ Coherent)
<1>1. Init => IInv /\ Coherent
  BY InitInv, InitCoherent
<1>2. IInv /\ Coherent /\ [Next]_vars => IInv' /\ Coherent'
  BY StepInv, StepCoherent
<1> QED BY <1>1, <1>2, PTL DEF Spec

-----------------------------------------------------------------------------
(* What a coherent ledger means *)

(***************************************************************************)
(* Locks are stakes: each account has its self bond and the sum of its     *)
(* bonds locked, and nothing else.                                         *)
(***************************************************************************)
THEOREM LocksStayStakes == Spec => []LocksMatchStake
<1>1. ASSUME Coherent PROVE LocksMatchStake
  <2>1. ASSUME NEW a \in DOMAIN delegator
        PROVE  delegator[a].total = SumOf(delegator[a].bonds)
    BY <1>1 DEF Coherent, LedgerAgrees, DelegatorsAreSound, Sound
  <2>2. \A a \in Account :
            /\ collatorLock[a] = IF a \in DOMAIN candidate THEN candidate[a].bond ELSE 0
            /\ delegatorLock[a] = IF a \in DOMAIN delegator THEN delegator[a].total ELSE 0
    BY <1>1 DEF Coherent, LedgerAgrees, StakeIsLocked, SelfBondsStand, SelfBondIsLocked
  <2> QED BY <2>1, <2>2 DEF LocksMatchStake, IsCandidate, IsDelegator
<1> QED BY <1>1, LedgerStaysCoherent, PTL

(***************************************************************************)
(* Every request on the books, of a delegator or of a candidate, can be    *)
(* executed as it was written.                                             *)
(***************************************************************************)
THEOREM RequestsAreAlwaysValid == Spec => []RequestsStayValid
<1>1. ASSUME Coherent PROVE RequestsStayValid
  <2>1. ASSUME NEW r \in requests
        PROVE  /\ Backs(r.delegator, r.collator)
               /\ RequestsFrom(r.delegator, r.collator) = {r}
               /\ LET bond == delegator[r.delegator].bonds[r.collator] IN
                    IF IsRevoke(r) THEN r.amount = bond ELSE r.amount + MinDelegation <= bond
    BY <1>1 DEF Coherent, RequestsStand, RequestsCanBeDone, CanBeDone, Backed, Backs,
                IsDelegator, RequestsFrom
  <2>2. ASSUME NEW d \in DOMAIN delegator
        PROVE  delegator[d].lessTotal =
                    SumOf([r \in {r \in requests : r.delegator = d} |-> r.amount])
    BY <1>1 DEF Coherent, RequestsStand, PendingAddsUp, AmountsOf, RequestsOf
  <2>3. SelfRequestsCanBeDone
    BY <1>1 DEF Coherent, SelfBondsStand
  <2> QED BY <2>1, <2>2, <2>3 DEF RequestsStayValid, SelfRequestsCanBeDone
<1> QED BY <1>1, LedgerStaysCoherent, PTL

(***************************************************************************)
(* The lookup by cached amounts finds every bond on record in its book, so *)
(* that no call fails with DelegationDNE and no exit finds the storage     *)
(* corrupted.                                                              *)
(***************************************************************************)
THEOREM BondsAreAlwaysFound == Spec => []EveryBondIsFound
<1>1. ASSUME IInv, Coherent PROVE EveryBondIsFound
  <2>1. ASSUME NEW d \in DOMAIN delegator, NEW c \in DOMAIN delegator[d].bonds
        PROVE  LET bond == delegator[d].bonds[c] IN
               /\ RmDelegation(candidate[c], d, bond).ok
               /\ Found(candidate[c], LookupList(candidate[c], d, bond), d)
    <3> DEFINE b == BondOf(delegator, d, c)
    <3>1. Backed(delegator, d, c)
      BY DEF Backed
    <3>2. /\ Ordered(candidate[c]) /\ b \in Contents(candidate[c])
          /\ b.owner = d /\ b.amount = delegator[d].bonds[c]
      BY <1>1, <3>1, BondIsListed DEF Coherent
    <3> HIDE DEF b
    <3>3. /\ RmDelegation(candidate[c], b.owner, b.amount).ok
          /\ Found(candidate[c], LookupList(candidate[c], b.owner, b.amount), b.owner)
      BY <3>2, RmDelegationContents, LookupFindsList
    <3> QED BY <3>2, <3>3
  <2> QED BY <2>1 DEF EveryBondIsFound
<1> QED BY <1>1, LedgerStaysCoherent, PTL

(***************************************************************************)
(* The two lists of an ordered book, read one after the other, are one     *)
(* list of its contents, each owner once, from the greatest to the least.  *)
(***************************************************************************)
LEMMA OneRanking ==
    ASSUME NEW book, Ordered(book)
    PROVE  LET list == book.top.list \o book.bottom.list IN
           /\ Orderly(list)
           /\ Entries(list) = Contents(book)
<1> DEFINE s == book.top.list
           t == book.bottom.list
           list == s \o t
<1>1. /\ s \in Seq(Bond) /\ t \in Seq(Bond) /\ OneEach(s) /\ OneEach(t)
      /\ Falling(s) /\ Falling(t) /\ Entries(s) \subseteq Bond /\ Entries(t) \subseteq Bond
      /\ \A a \in Entries(s), b \in Entries(t) : a.owner # b.owner /\ a.amount >= b.amount
  BY OrderedParts DEF Orderly
<1> HIDE DEF s, t
<1>2. /\ list \in Seq(Bond)
      /\ Len(s) \in Nat /\ Len(t) \in Nat
      /\ DOMAIN s = 1 .. Len(s) /\ DOMAIN t = 1 .. Len(t)
      /\ DOMAIN list = 1 .. Len(s) + Len(t)
      /\ \A j \in 1 .. Len(s) : list[j] = s[j]
      /\ \A j \in 1 .. Len(t) : list[Len(s) + j] = t[j]
  BY <1>1, ConcatElements
<1> HIDE DEF list
<1>3. ASSUME NEW i \in DOMAIN list
      PROVE  \/ i \in DOMAIN s /\ list[i] = s[i] /\ list[i] \in Entries(s)
             \/ /\ i > Len(s) /\ i - Len(s) \in DOMAIN t
                /\ list[i] = t[i - Len(s)] /\ list[i] \in Entries(t)
  <2>1. CASE i <= Len(s)
    BY <1>2, <2>1 DEF Entries
  <2>2. CASE i > Len(s)
    <3>1. i - Len(s) \in 1 .. Len(t) /\ i = Len(s) + (i - Len(s))
      BY <1>2, <2>2
    <3> QED BY <1>2, <2>2, <3>1 DEF Entries
  <2> QED BY <1>2, <2>1, <2>2
<1>4. Entries(list) = Entries(s) \cup Entries(t)
  <2>1. \A j \in DOMAIN s : j \in DOMAIN list /\ list[j] = s[j]
    BY <1>2
  <2>2. \A j \in DOMAIN t : Len(s) + j \in DOMAIN list /\ list[Len(s) + j] = t[j]
    BY <1>2
  <2>3. Entries(s) \subseteq Entries(list) /\ Entries(t) \subseteq Entries(list)
    BY <2>1, <2>2 DEF Entries
  <2>4. Entries(list) \subseteq Entries(s) \cup Entries(t)
    BY <1>3 DEF Entries
  <2> QED BY <2>3, <2>4
<1>5. \A i \in DOMAIN list : i \in Nat
  BY <1>2
<1>6. OneEach(list)
  <2>1. ASSUME NEW i \in DOMAIN list, NEW j \in DOMAIN list, list[i].owner = list[j].owner
        PROVE  i = j
    <3>1. CASE i \in DOMAIN s /\ list[i] = s[i] /\ j \in DOMAIN s /\ list[j] = s[j]
      BY <1>1, <2>1, <3>1 DEF OneEach
    <3>2. CASE /\ i - Len(s) \in DOMAIN t /\ list[i] = t[i - Len(s)]
               /\ j - Len(s) \in DOMAIN t /\ list[j] = t[j - Len(s)]
      <4>1. i - Len(s) = j - Len(s)
        BY <1>1, <2>1, <3>2 DEF OneEach
      <4> QED BY <1>2, <1>5, <4>1
    <3> QED BY <1>1, <1>3, <2>1, <3>1, <3>2
  <2> QED BY <2>1 DEF OneEach
<1>7. Falling(list)
  <2>1. ASSUME NEW i \in DOMAIN list, NEW j \in DOMAIN list, i < j
        PROVE  list[i].amount >= list[j].amount
    <3>1. CASE i \in DOMAIN s /\ list[i] = s[i] /\ j \in DOMAIN s /\ list[j] = s[j]
      BY <1>1, <2>1, <3>1 DEF Falling
    <3>2. CASE /\ i - Len(s) \in DOMAIN t /\ list[i] = t[i - Len(s)]
               /\ j - Len(s) \in DOMAIN t /\ list[j] = t[j - Len(s)]
      <4>1. i - Len(s) < j - Len(s)
        BY <1>2, <1>5, <2>1
      <4> QED BY <1>1, <3>2, <4>1 DEF Falling
    <3>3. CASE i \in DOMAIN s /\ list[i] \in Entries(s) /\ list[j] \in Entries(t)
      BY <1>1, <3>3
    <3>4. ~(i > Len(s) /\ j \in DOMAIN s)
      BY <1>2, <1>5, <2>1
    <3> QED BY <1>3, <3>1, <3>2, <3>3, <3>4
  <2> QED BY <2>1 DEF Falling
<1>8. Orderly(list) /\ Entries(list) = Contents(book)
  BY <1>2, <1>4, <1>6, <1>7 DEF Orderly, Contents, s, t
<1> QED BY <1>8 DEF list, s, t

(***************************************************************************)
(* A candidate's top delegations are the greatest it has, and the bottom   *)
(* list is used only once the top one is full.                             *)
(***************************************************************************)
THEOREM TopStaysGreatest == Spec => []TopIsGreatest
<1>1. ASSUME Coherent PROVE TopIsGreatest
  <2>1. ASSUME NEW c \in DOMAIN candidate
        PROVE  /\ \A i, j \in DOMAIN Backing(c) :
                    i < j => Backing(c)[i].amount >= Backing(c)[j].amount
               /\ Len(candidate[c].top.list) <= MaxTop
               /\ Len(candidate[c].bottom.list) <= MaxBottom
               /\ candidate[c].bottom.list # <<>> => Len(candidate[c].top.list) = MaxTop
    <3>1. Ordered(candidate[c])
      BY <1>1 DEF Coherent, LedgerAgrees, BooksAreOrdered
    <3>2. Falling(Backing(c))
      BY <3>1, OneRanking DEF Orderly, Backing
    <3>3. /\ Len(candidate[c].top.list) <= MaxTop
          /\ Len(candidate[c].bottom.list) <= MaxBottom
          /\ candidate[c].bottom.list # <<>> => Len(candidate[c].top.list) = MaxTop
      BY <3>1, OrderedParts
    <3> QED BY <3>2, <3>3 DEF Falling
  <2> QED BY <2>1 DEF TopIsGreatest
<1> QED BY <1>1, LedgerStaysCoherent, PTL

\* One book entry for each delegator with a bond on record.
LEMMA BackersCounted ==
    ASSUME NEW dels, NEW c, IsFiniteSet(DOMAIN dels)
    PROVE  LET backers == {d \in DOMAIN dels : c \in DOMAIN dels[d].bonds} IN
           /\ IsFiniteSet(backers)
           /\ Cardinality(backers) = Cardinality(OnRecord(dels, c))
           /\ {e.owner : e \in OnRecord(dels, c)} = backers
<1> DEFINE backers == {d \in DOMAIN dels : c \in DOMAIN dels[d].bonds}
           h == [d \in backers |-> BondOf(dels, d, c)]
<1>1. IsFiniteSet(backers)
  BY FS_Subset
<1>2. \A d : d \in backers <=> Backed(dels, d, c)
  BY DEF Backed
<1> HIDE DEF backers
<1>3. \A d : BondOf(dels, d, c).owner = d
  BY DEF BondOf
<1>4. \A d \in backers : BondOf(dels, d, c) \in OnRecord(dels, c)
  BY <1>2, InRecord
<1>5. \A e \in OnRecord(dels, c) : e.owner \in backers /\ e = BondOf(dels, e.owner, c)
  BY <1>2, OneOnRecord
<1>6. h \in Bijection(backers, OnRecord(dels, c))
  <2>1. h \in [backers -> OnRecord(dels, c)]
    BY <1>4
  <2>2. \A x, y \in backers : h[x] = h[y] => x = y
    BY <1>3
  <2>3. \A e \in OnRecord(dels, c) : \E d \in backers : h[d] = e
    BY <1>5
  <2> HIDE DEF h
  <2> QED BY <2>1, <2>2, <2>3 DEF Bijection, Injection, Surjection, IsInjective
<1>7. Cardinality(backers) = Cardinality(OnRecord(dels, c))
  BY <1>1, <1>6, FS_Bijection DEF ExistsBijection
<1>8. {e.owner : e \in OnRecord(dels, c)} = backers
  BY <1>3, <1>4, <1>5
<1> QED BY <1>1, <1>7, <1>8 DEF backers

(***************************************************************************)
(* The delegators' records, the candidates' lists and the metadata cached  *)
(* from these agree after every sequence of calls.                         *)
(***************************************************************************)
THEOREM BooksAlwaysAgree == Spec => []BooksAgree
<1>1. ASSUME IInv, Coherent, NEW c \in DOMAIN candidate
      PROVE  /\ Owners(Backing(c)) = BackersOf(c)
             /\ Len(Backing(c)) = Cardinality(BackersOf(c))
             /\ \A i \in DOMAIN Backing(c) :
                    Backing(c)[i].amount = delegator[Backing(c)[i].owner].bonds[c]
  <2>1. c \in Account /\ IsFiniteSet(DOMAIN delegator)
    BY <1>1, FS_Subset, AccountsAssumption
       DEF IInv, CandidatesInOrder, IsStorageMap, DelegatorsInOrder
  <2>2. Ordered(candidate[c]) /\ Contents(candidate[c]) = OnRecord(delegator, c)
    BY <1>1, <2>1 DEF Coherent, LedgerAgrees, BooksAreOrdered, BooksListBonds, Listed
  <2>3. Orderly(Backing(c)) /\ Entries(Backing(c)) = OnRecord(delegator, c)
    BY <2>2, OneRanking DEF Backing
  <2>4. Owners(Backing(c)) = {e.owner : e \in OnRecord(delegator, c)}
    BY <2>3 DEF Owners, Entries
  <2>5. /\ Cardinality(BackersOf(c)) = Cardinality(OnRecord(delegator, c))
        /\ {e.owner : e \in OnRecord(delegator, c)} = BackersOf(c)
    BY <2>1, BackersCounted DEF BackersOf
  <2>6. Len(Backing(c)) = Cardinality(OnRecord(delegator, c))
    BY <2>3, LengthOfList
  <2>7. \A i \in DOMAIN Backing(c) : Backing(c)[i] \in OnRecord(delegator, c)
    BY <2>3 DEF Entries
  <2>8. \A i \in DOMAIN Backing(c) :
            Backing(c)[i].amount = delegator[Backing(c)[i].owner].bonds[c]
    BY <2>7, OneOnRecord
  <2> QED BY <2>4, <2>5, <2>6, <2>8
<1>2. ASSUME IInv, Coherent PROVE ListsMatchBonds
  <2>1. ASSUME NEW d \in DOMAIN delegator, NEW c \in DOMAIN delegator[d].bonds
        PROVE  c \in DOMAIN candidate
    BY <1>2, BondIsListed DEF Backed, Coherent
  <2> QED BY <1>1, <1>2, <2>1 DEF ListsMatchBonds
<1>3. ASSUME Coherent PROVE MetadataMatchesLists
  <2>1. ASSUME NEW c \in DOMAIN candidate
        PROVE  LET book == candidate[c]
                   top == book.top.list
                   bottom == book.bottom.list
               IN  /\ book.counted = book.bond + ListSum(top)
                   /\ book.top.total = ListSum(top)
                   /\ book.count = Len(top) + Len(bottom)
                   /\ book.lowTop = LowestAmount(top)
                   /\ book.highBottom = HighestAmount(bottom)
                   /\ book.lowBottom = LowestAmount(bottom)
                   /\ book.topCapacity = CapacityOf(top, MaxTop)
                   /\ book.bottomCapacity = CapacityOf(bottom, MaxBottom)
    <3> DEFINE book == candidate[c]
               top == book.top.list
    <3>1. Ordered(book)
      BY <1>3 DEF Coherent, LedgerAgrees, BooksAreOrdered
    <3> HIDE DEF book
    <3>2. BookInv(book) /\ Kept(book.top, 0)
      BY <3>1 DEF Ordered
    <3>3. Orderly(top) /\ StakeOf(Entries(top)) \in Nat
      BY <3>2, KeptParts
    <3>4. ListSum(top) = StakeOf(Entries(top))
      BY <3>3, StakeOfList DEF ListSum
    <3>5. book.top.total = StakeOf(Entries(top)) + 0
      BY <3>2 DEF Kept
    <3>6. book.top.total = ListSum(top)
      BY <3>3, <3>4, <3>5
    <3>7. /\ book.counted = book.bond + book.top.total
          /\ book.count = Len(top) + Len(book.bottom.list)
          /\ book.lowTop = LowestAmount(top)
          /\ book.highBottom = HighestAmount(book.bottom.list)
          /\ book.lowBottom = LowestAmount(book.bottom.list)
          /\ book.topCapacity = CapacityOf(top, MaxTop)
          /\ book.bottomCapacity = CapacityOf(book.bottom.list, MaxBottom)
      BY <3>2 DEF BookInv, TopCached, BottomCached
    <3> QED BY <3>6, <3>7 DEF book
  <2> QED BY <2>1 DEF MetadataMatchesLists
<1>4. IInv /\ Coherent => BooksAgree
  BY <1>2, <1>3 DEF BooksAgree
<1> QED BY <1>4, LedgerStaysCoherent, PTL

-----------------------------------------------------------------------------
(* Total and what is locked *)

\* What every account has on candidate c.
StakeOn(dels, c) == [d \in Account |-> IF Backed(dels, d, c) THEN dels[d].bonds[c] ELSE 0]

\* The records of an agreeing ledger, as far as sums over them are concerned.
LEMMA StakeOnType ==
    ASSUME IInv, NEW c
    PROVE  /\ StakeOn(delegator, c) \in [Account -> Nat]
           /\ \A d : Backed(delegator, d, c) => d \in Account /\ delegator[d].bonds[c] \in Nat
<1>1. ASSUME NEW d, Backed(delegator, d, c)
      PROVE  d \in Account /\ delegator[d].bonds[c] \in Nat
  <2>1. d \in DOMAIN delegator /\ c \in DOMAIN delegator[d].bonds
    BY <1>1 DEF Backed
  <2>2. d \in Account /\ IsDelegatorState(delegator[d])
    BY <2>1 DEF IInv, DelegatorsInOrder
  <2>3. IsStorageMap(delegator[d].bonds, Account, Nat)
    BY <2>2, DelegatorFields
  <2> QED BY <2>1, <2>2, <2>3 DEF IsStorageMap
<1> QED BY <1>1 DEF StakeOn

\* One account's lock, or stake, gets another value.
Written(lock, a, v) == [lock EXCEPT ![a] = v]

\* Writing one value changes the sum by the difference.
LEMMA OneWritten ==
    ASSUME NEW lock \in [Account -> Nat], NEW a \in Account, NEW v \in Nat
    PROVE  /\ Written(lock, a, v) \in [Account -> Nat]
           /\ Written(lock, a, v)[a] = v
           /\ \A x \in Account : x # a => Written(lock, a, v)[x] = lock[x]
           /\ SumOf(lock) \in Nat /\ SumOf(Written(lock, a, v)) \in Nat
           /\ SumOf(Written(lock, a, v)) + lock[a] = SumOf(lock) + v
<1> DEFINE new == Written(lock, a, v)
<1>1. IsFiniteSet(Account) /\ DOMAIN lock = Account /\ lock[a] \in Nat
  BY AccountsAssumption
<1>2. /\ new = Put(lock, a, v) /\ new \in [Account -> Nat] /\ new[a] = v
      /\ \A x \in Account : x # a => new[x] = lock[x]
  BY <1>1 DEF Put, Written
<1>3. SumOf(lock) \in Nat /\ SumOf(new) \in Nat
  BY <1>1, <1>2, SumInNat
<1>4. SumOf(Put(lock, a, v)) + lock[a] = SumOf(lock) + v
  BY <1>1, SumOfPutOld
<1> HIDE DEF new
<1> QED BY <1>2, <1>3, <1>4 DEF new

\* What d has on candidates other than c.
Elsewhere(dels, d, c) == IF d \in DOMAIN dels THEN SumOf(Drop(dels[d].bonds, c)) ELSE 0

\* What a delegator has in all is what it has on c and elsewhere.
LEMMA LockIsSplit ==
    ASSUME NEW dels, NEW c, NEW d \in Account, d \in DOMAIN dels => Sound(dels[d])
    PROVE  /\ Elsewhere(dels, d, c) \in Nat /\ StakeOn(dels, c)[d] \in Nat
           /\ (IF d \in DOMAIN dels THEN dels[d].total ELSE 0)
                = Elsewhere(dels, d, c) + StakeOn(dels, c)[d]
<1> DEFINE bonds == dels[d].bonds
           rest == Drop(bonds, c)
<1>1. CASE d \notin DOMAIN dels
  BY <1>1 DEF Elsewhere, StakeOn, Backed
<1>2. CASE d \in DOMAIN dels
  <2>1. IsDelegatorState(dels[d]) /\ dels[d].total = SumOf(bonds)
    BY <1>2 DEF Sound
  <2>2. IsFiniteSet(DOMAIN bonds) /\ bonds \in [DOMAIN bonds -> Nat]
    BY <2>1, BondsOfSound
  <2>3. /\ Elsewhere(dels, d, c) = SumOf(rest)
        /\ StakeOn(dels, c)[d] = IF c \in DOMAIN bonds THEN bonds[c] ELSE 0
    BY <1>2 DEF Elsewhere, StakeOn, Backed
  <2> HIDE DEF bonds
  <2>4. CASE c \in DOMAIN bonds
    <3>1. SumOf(rest) \in Nat /\ SumOf(bonds) = SumOf(rest) + bonds[c] /\ bonds[c] \in Nat
      BY <2>2, <2>4, SumOfKey
    <3> QED BY <1>2, <2>1, <2>3, <2>4, <3>1
  <2>5. CASE c \notin DOMAIN bonds
    <3>1. rest = bonds
      BY <2>2, <2>5 DEF Drop
    <3>2. SumOf(bonds) \in Nat
      BY <2>2, SumInNat
    <3> QED BY <1>2, <2>1, <2>3, <2>5, <3>1, <3>2
  <2> QED BY <2>4, <2>5
<1> QED BY <1>1, <1>2

\* A step that changes only bonds on c changes nothing elsewhere.
LEMMA ElsewhereStays ==
    ASSUME NEW dels, NEW new, NEW c, ChangesOnly(dels, new, c), NEW d
    PROVE  Elsewhere(new, d, c) = Elsewhere(dels, d, c)
<1> DEFINE old == Drop(dels[d].bonds, c)
           rest == Drop(new[d].bonds, c)
<1>1. \A x : x # c =>
        /\ Backed(new, d, x) <=> Backed(dels, d, x)
        /\ Backed(dels, d, x) => new[d].bonds[x] = dels[d].bonds[x]
  BY DEF ChangesOnly
<1>2. CASE d \in DOMAIN dels /\ d \in DOMAIN new
  <2>1. old = rest
    BY <1>1, <1>2 DEF Drop, Backed
  <2> QED BY <1>2, <2>1 DEF Elsewhere
<1>3. CASE d \in DOMAIN dels /\ d \notin DOMAIN new
  <2>1. \A x \in DOMAIN old : old[x] = 0
    BY <1>1, <1>3 DEF Drop, Backed
  <2> QED BY <1>3, <2>1, SumOfZeros DEF Elsewhere
<1>4. CASE d \notin DOMAIN dels /\ d \in DOMAIN new
  <2>1. \A x \in DOMAIN rest : rest[x] = 0
    BY <1>1, <1>4 DEF Drop, Backed
  <2> QED BY <1>4, <2>1, SumOfZeros DEF Elsewhere
<1>5. CASE d \notin DOMAIN dels /\ d \notin DOMAIN new
  BY <1>5 DEF Elsewhere
<1> QED BY <1>2, <1>3, <1>4, <1>5

(***************************************************************************)
(* A call that changes bonds on one candidate only changes what is locked  *)
(* for delegations by as much as the stake on that candidate.              *)
(***************************************************************************)
LEMMA LockedStakeMoves ==
    ASSUME IInv, IInv', LedgerAgrees, LedgerAgrees', NEW c,
           ChangesOnly(delegator, delegator', c)
    PROVE  /\ SumOf(delegatorLock') + SumOf(StakeOn(delegator, c))
                = SumOf(delegatorLock) + SumOf(StakeOn(delegator', c))
           /\ SumOf(delegatorLock) \in Nat /\ SumOf(delegatorLock') \in Nat
           /\ SumOf(StakeOn(delegator, c)) \in Nat /\ SumOf(StakeOn(delegator', c)) \in Nat
           /\ StakeOn(delegator, c) \in [Account -> Nat]
           /\ StakeOn(delegator', c) \in [Account -> Nat]
<1> DEFINE on == StakeOn(delegator, c)
           onNew == StakeOn(delegator', c)
           else == [d \in Account |-> Elsewhere(delegator, d, c)]
<1>1. /\ delegatorLock \in [Account -> Nat] /\ delegatorLock' \in [Account -> Nat]
      /\ IsFiniteSet(Account)
  BY AccountsAssumption DEF IInv, BalancesInOrder
<1>2. ASSUME NEW d \in Account
      PROVE  /\ else[d] \in Nat /\ on[d] \in Nat /\ onNew[d] \in Nat
             /\ delegatorLock[d] = else[d] + on[d]
             /\ delegatorLock'[d] = else[d] + onNew[d]
  <2>1. /\ delegatorLock[d] = IF d \in DOMAIN delegator THEN delegator[d].total ELSE 0
        /\ delegatorLock'[d] = IF d \in DOMAIN delegator' THEN delegator'[d].total ELSE 0
        /\ d \in DOMAIN delegator => Sound(delegator[d])
        /\ d \in DOMAIN delegator' => Sound(delegator'[d])
    BY DEF LedgerAgrees, StakeIsLocked, DelegatorsAreSound
  <2>2. /\ else[d] \in Nat /\ on[d] \in Nat
        /\ delegatorLock[d] = else[d] + on[d]
    BY <2>1, LockIsSplit
  <2>3. /\ onNew[d] \in Nat
        /\ delegatorLock'[d] = Elsewhere(delegator', d, c) + onNew[d]
    BY <2>1, LockIsSplit
  <2>4. Elsewhere(delegator', d, c) = else[d]
    BY ElsewhereStays
  <2> QED BY <2>2, <2>3, <2>4
<1>3. /\ else \in [Account -> Nat]
      /\ on = [d \in Account |-> on[d]] /\ onNew = [d \in Account |-> onNew[d]]
  BY <1>2 DEF StakeOn
<1> HIDE DEF on, onNew, else
<1>4. on \in [Account -> Nat] /\ onNew \in [Account -> Nat]
  BY <1>2, <1>3
<1>5. /\ SumOf(delegatorLock) = SumOf(else) + SumOf(on)
      /\ SumOf(delegatorLock') = SumOf(else) + SumOf(onNew)
  <2>1. \A d \in Account : delegatorLock[d] = else[d] + on[d]
    BY <1>2
  <2>2. \A d \in Account : delegatorLock'[d] = else[d] + onNew[d]
    BY <1>2
  <2>3. SumOf(delegatorLock) = SumOf(else) + SumOf(on)
    BY <1>1, <1>3, <1>4, <2>1, SumOfTogether
  <2>4. SumOf(delegatorLock') = SumOf(else) + SumOf(onNew)
    BY <1>1, <1>3, <1>4, <2>2, SumOfTogether
  <2> QED BY <2>3, <2>4
<1>6. /\ SumOf(else) \in Nat /\ SumOf(on) \in Nat /\ SumOf(onNew) \in Nat
  BY <1>1, <1>3, <1>4, SumInNat
<1> QED BY <1>4, <1>5, <1>6 DEF on, onNew

\* What is on a candidate is the stake of the bonds on record.
LEMMA StakeOnRecord ==
    ASSUME IInv, NEW c
    PROVE  SumOf(StakeOn(delegator, c)) = StakeOf(OnRecord(delegator, c))
<1> DEFINE on == StakeOn(delegator, c)
           K == {d \in Account : Backed(delegator, d, c)}
           L == Account \ K
           f == [d \in K |-> on[d]]
           z == [d \in L |-> on[d]]
           R == OnRecord(delegator, c)
           g == [e \in R |-> e.amount]
           h == [d \in K |-> BondOf(delegator, d, c)]
<1>1. on \in [Account -> Nat] /\ \A d : Backed(delegator, d, c) => d \in Account
  BY StakeOnType
<1>2. IsFiniteSet(Account) /\ IsFiniteSet(K)
  BY AccountsAssumption, FS_Subset
<1>3. SumOf(on) = SumOf(f) + SumOf(z)
  <2>1. Account = K \cup L /\ K \cap L = {}
    OBVIOUS
  <2> HIDE DEF on, K, L
  <2> QED BY <1>1, <1>2, <2>1, SumOfParts
<1>4. SumOf(z) = 0
  <2>1. \A d \in DOMAIN z : z[d] = 0
    BY DEF StakeOn
  <2> HIDE DEF z
  <2> QED BY <2>1, SumOfZeros
<1>5. f \in [K -> Nat]
  BY <1>1
<1>6. h \in Bijection(K, R)
  <2>1. /\ \A d : BondOf(delegator, d, c).owner = d
        /\ \A d \in K : BondOf(delegator, d, c) \in R
        /\ \A e \in R : e.owner \in K /\ e = BondOf(delegator, e.owner, c)
    BY <1>1, InRecord, OneOnRecord DEF BondOf
  <2> HIDE DEF R, K
  <2>2. h \in [K -> R]
    BY <2>1
  <2>3. \A x, y \in K : h[x] = h[y] => x = y
    BY <2>1
  <2>4. \A e \in R : \E d \in K : h[d] = e
    BY <2>1
  <2> HIDE DEF h
  <2> QED BY <2>2, <2>3, <2>4 DEF Bijection, Injection, Surjection, IsInjective
<1>7. \A d \in K : h[d] \in R /\ g[h[d]] = f[d]
  <2>1. \A d \in K : BondOf(delegator, d, c) \in R
    BY InRecord
  <2>2. \A d \in K : f[d] = delegator[d].bonds[c]
    BY DEF StakeOn
  <2>3. \A d : BondOf(delegator, d, c).amount = delegator[d].bonds[c]
    BY DEF BondOf
  <2> HIDE DEF R, K, f
  <2> QED BY <2>1, <2>2, <2>3
<1>8. DOMAIN f = K /\ DOMAIN g = R
  OBVIOUS
<1> HIDE DEF f, g, h, K
<1>9. SumOf(g) = SumOf(f)
  BY <1>2, <1>5, <1>6, <1>7, <1>8, SumOfRenamed
<1>10. SumOf(f) \in Nat
  BY <1>2, <1>5, <1>8, SumInNat
<1> QED BY <1>3, <1>4, <1>9, <1>10 DEF StakeOf, g

\* What a rewritten bond means for the stake on the candidate,
LEMMA StakeRewritten ==
    ASSUME NEW dels, NEW new, NEW c, NEW d \in Account, NEW amount,
           Rewrites(dels, new, d, c, amount)
    PROVE  StakeOn(new, c) = Written(StakeOn(dels, c), d, amount)
BY DEF Rewrites, StakeOn, Written

\* ... a lost one,
LEMMA StakeLost ==
    ASSUME NEW dels, NEW new, NEW c, NEW d \in Account, Loses(dels, new, {d}, c)
    PROVE  StakeOn(new, c) = Written(StakeOn(dels, c), d, 0)
BY DEF Loses, StakeOn, Written

\* ... a new one,
LEMMA StakeAdded ==
    ASSUME NEW dels, NEW new, NEW c, NEW d \in Account, NEW amount,
           GivesWay(dels, new, {}, d, c, amount)
    PROVE  StakeOn(new, c) = Written(StakeOn(dels, c), d, amount)
BY DEF GivesWay, StakeOn, Written

\* ... and a new one that another gave way to.
LEMMA StakeReplaced ==
    ASSUME NEW dels, NEW new, NEW c, NEW d \in Account, NEW amount, NEW k, k # d,
           GivesWay(dels, new, {k}, d, c, amount)
    PROVE  StakeOn(new, c) = Written(Written(StakeOn(dels, c), k, 0), d, amount)
BY DEF GivesWay, StakeOn, Written

\* A saturating subtraction keeps Total within what is locked, if it takes at least as much.
LEMMA TotalFalls ==
    ASSUME NEW t \in Nat, NEW l \in Nat, t <= l, NEW n \in Nat, NEW x \in Nat, n + x = l,
           NEW a \in Nat, x <= a
    PROVE  Sub(t, a) <= n
BY DEF Sub

\* The stake of two sets of bonds that have none in common.
LEMMA StakeOfUnion ==
    ASSUME NEW S, NEW T, IsFiniteSet(S), S \subseteq Bond, IsFiniteSet(T), T \subseteq Bond,
           S \cap T = {}
    PROVE  StakeOf(S \cup T) = StakeOf(S) + StakeOf(T)
<1> DEFINE f == [b \in S \cup T |-> b.amount]
           g == [b \in S |-> f[b]]
           h == [b \in T |-> f[b]]
<1>1. g = [b \in S |-> b.amount] /\ h = [b \in T |-> b.amount]
  OBVIOUS
<1>2. IsFiniteSet(S \cup T)
  BY FS_Union
<1>3. f \in [S \cup T -> Nat] /\ DOMAIN f = S \cup T
  BY DEF Bond
<1>4. SumOf(f) = SumOf(g) + SumOf(h)
  <2> HIDE DEF f
  <2> QED BY <1>2, <1>3, SumOfParts
<1> QED BY <1>1, <1>4 DEF StakeOf

\* What the sums are, and that they are balances.
LEMMA LockedIsNat ==
    ASSUME IInv
    PROVE  /\ SumOf(collatorLock) \in Nat /\ SumOf(delegatorLock) \in Nat /\ total \in Nat
           /\ collatorLock \in [Account -> Nat] /\ delegatorLock \in [Account -> Nat]
           /\ Locked = SumOf(collatorLock) + SumOf(delegatorLock)
<1>1. /\ collatorLock \in [Account -> Nat] /\ delegatorLock \in [Account -> Nat]
      /\ total \in Nat /\ IsFiniteSet(Account)
  BY AccountsAssumption DEF IInv, BalancesInOrder
<1> QED BY <1>1, SumInNat DEF Locked

\* The calls of delegations: Total moves with what is locked.
LEMMA DelegationTotal ==
    ASSUME IInv, IInv', Coherent, LedgerAgrees', TotalIsNeverOverstated,
           NEW d \in Account, NEW c \in Account, NEW amount \in Nat,
           \/ Delegate(d, c, amount) \/ DelegatorBondMore(d, c, amount)
           \/ ExecuteDelegationRequest(d, c)
    PROVE  TotalIsNeverOverstated'
<1> DEFINE on == StakeOn(delegator, c)
           onNew == StakeOn(delegator', c)
           C == SumOf(collatorLock)
           D == SumOf(delegatorLock)
           DNew == SumOf(delegatorLock')
<1>1. LedgerAgrees /\ RequestsStand
  BY DEF Coherent
<1>2. /\ C \in Nat /\ D \in Nat /\ DNew \in Nat /\ total \in Nat /\ total' \in Nat
      /\ total <= C + D
  <2>1. delegatorLock' \in [Account -> Nat] /\ total' \in Nat
    BY DEF IInv, BalancesInOrder
  <2>2. DNew \in Nat
    BY <2>1, AccountsAssumption, SumInNat
  <2> QED BY <2>1, <2>2, LockedIsNat DEF TotalIsNeverOverstated
<1>3. collatorLock' = collatorLock
  BY DEF Delegate, DelegatorBondMore, ExecuteDelegationRequest
<1>4. on \in [Account -> Nat] /\ \A x : Backed(delegator, x, c) => x \in Account
  BY StakeOnType
<1>5. on[d] \in Nat /\ on[d] = IF Backed(delegator, d, c) THEN delegator[d].bonds[c] ELSE 0
  BY <1>4 DEF StakeOn
<1>6. ASSUME ChangesOnly(delegator, delegator', c)
      PROVE  DNew + SumOf(on) = D + SumOf(onNew) /\ SumOf(on) \in Nat /\ SumOf(onNew) \in Nat
  BY <1>1, <1>6, LockedStakeMoves
<1>7. ASSUME total' <= C + DNew PROVE TotalIsNeverOverstated'
  BY <1>3, <1>7 DEF TotalIsNeverOverstated, Locked
<1> HIDE DEF on, onNew, C, D, DNew
<1>8. CASE Delegate(d, c, amount)
  <2> DEFINE e == [owner |-> d, amount |-> amount]
             K == KickedBy(d, c, amount)
             added == AddDelegation(candidate[c], e)
  <2>1. /\ GivesWay(delegator, delegator', K, d, c, amount)
        /\ d \notin K /\ ~Backed(delegator, d, c)
    BY <1>1, <1>8, DelegateAgrees
  <2>2. /\ total' = total + Sub(amount, added.less) /\ c \in DOMAIN candidate
        /\ CanAdd(candidate[c], amount)
    BY <1>8 DEF Delegate, IsCandidate
  <2>3. Ordered(candidate[c]) /\ Contents(candidate[c]) = OnRecord(delegator, c)
    BY <1>1, <2>2 DEF LedgerAgrees, BooksAreOrdered, BooksListBonds, Listed
  <2>4. e \in Bond /\ e.amount = amount /\ e.owner = d
    BY DEF Bond
  <2>5. \A b \in Contents(candidate[c]) : b.owner # d
    BY <2>1, <2>3, OneOnRecord
  <2> HIDE DEF e
  <2>6. \/ added.kicked = {} /\ added.less = 0
        \/ \E k \in Contents(candidate[c]) :
            added.kicked = {k} /\ added.less = k.amount /\ e.amount > k.amount
    BY <2>2, <2>3, <2>4, <2>5, AddDelegationContents
  <2>7. K = {b.owner : b \in added.kicked}
    BY DEF KickedBy, e
  <2>8. ChangesOnly(delegator, delegator', c) /\ on[d] = 0
    BY <1>5, <2>1 DEF GivesWay
  <2>9. DNew + SumOf(on) = D + SumOf(onNew) /\ SumOf(on) \in Nat /\ SumOf(onNew) \in Nat
    BY <1>6, <2>8
  <2> HIDE DEF added
  <2>10. CASE added.kicked = {} /\ added.less = 0
    <3>1. K = {}
      BY <2>7, <2>10
    <3>2. onNew = Written(on, d, amount)
      BY <2>1, <3>1, StakeAdded DEF on, onNew
    <3>3. SumOf(onNew) + 0 = SumOf(on) + amount
      BY <1>4, <2>8, <3>2, OneWritten
    <3>4. Sub(amount, 0) = amount
      BY DEF Sub
    <3>5. total' <= C + DNew
      BY <1>2, <2>2, <2>9, <2>10, <3>3, <3>4
    <3> QED BY <1>7, <3>5
  <2>11. ASSUME NEW k \in Contents(candidate[c]),
                added.kicked = {k}, added.less = k.amount, e.amount > k.amount
         PROVE  total' <= C + DNew
    <3> DEFINE x == k.owner
               mid == Written(on, x, 0)
    <3>1. K = {x} /\ x # d
      BY <2>1, <2>7, <2>11
    <3>2. Backed(delegator, x, c) /\ k.amount = delegator[x].bonds[c]
      BY <2>3, <2>11, OneOnRecord
    <3>3. x \in Account /\ on[x] = k.amount /\ k.amount \in Nat
      BY <1>4, <3>2 DEF on, StakeOn
    <3>4. onNew = Written(mid, d, amount)
      BY <2>1, <3>1, StakeReplaced DEF on, onNew
    <3> HIDE DEF x
    <3>5. /\ mid \in [Account -> Nat] /\ mid[d] = 0
          /\ SumOf(mid) + k.amount = SumOf(on) + 0 /\ SumOf(mid) \in Nat
      <4>1. x \in Account /\ x # d /\ on[x] = k.amount
        BY <3>1, <3>3
      <4>2. 0 \in Nat /\ x \in Account /\ on \in [Account -> Nat]
        BY <1>4, <4>1
      <4>3. /\ Written(on, x, 0) \in [Account -> Nat]
            /\ SumOf(Written(on, x, 0)) \in Nat
            /\ SumOf(Written(on, x, 0)) + on[x] = SumOf(on) + 0
        BY <4>2, OneWritten
      <4>4. \A y \in Account : y # x => Written(on, x, 0)[y] = on[y]
        BY <4>2 DEF Written
      <4>5. /\ mid \in [Account -> Nat] /\ \A y \in Account : y # x => mid[y] = on[y]
            /\ SumOf(mid) \in Nat /\ SumOf(mid) + on[x] = SumOf(on) + 0
        BY <4>3, <4>4
      <4> HIDE DEF mid
      <4> QED BY <2>8, <4>1, <4>5
    <3> HIDE DEF mid
    <3>6. SumOf(onNew) + 0 = SumOf(mid) + amount
      BY <3>4, <3>5, OneWritten
    <3>7. Sub(amount, added.less) + k.amount = amount
      BY <2>4, <2>11, <3>3 DEF Sub
    <3>8. Sub(amount, added.less) \in Nat
      BY SubInNat
    <3> QED BY <1>2, <2>2, <2>9, <3>3, <3>5, <3>6, <3>7, <3>8
  <2> QED BY <1>7, <2>6, <2>10, <2>11
<1>9. CASE DelegatorBondMore(d, c, amount)
  <2> DEFINE sum == delegator[d].bonds[c] + amount
  <2>1. /\ Backed(delegator, d, c) /\ Rewrites(delegator, delegator', d, c, sum)
        /\ total' = total + amount
    BY <1>1, <1>9, DelegatorBondMoreAgrees DEF DelegatorBondMore
  <2>2. ChangesOnly(delegator, delegator', c) /\ on[d] = delegator[d].bonds[c]
    BY <1>5, <2>1 DEF Rewrites
  <2>3. sum \in Nat /\ sum = on[d] + amount
    BY <1>5, <2>2
  <2> HIDE DEF sum
  <2>4. onNew = Written(on, d, sum)
    BY <2>1, StakeRewritten DEF on, onNew
  <2>5. SumOf(onNew) + on[d] = SumOf(on) + sum
    BY <1>4, <2>3, <2>4, OneWritten
  <2>6. DNew + SumOf(on) = D + SumOf(onNew) /\ SumOf(on) \in Nat /\ SumOf(onNew) \in Nat
    BY <1>6, <2>2
  <2>7. total' <= C + DNew
    BY <1>2, <1>5, <2>1, <2>3, <2>5, <2>6
  <2> QED BY <1>7, <2>7
<1>10. CASE ExecuteDelegationRequest(d, c)
  <2>1. d \in DOMAIN delegator
    BY <1>10 DEF ExecuteDelegationRequest, IsDelegator
  <2>2. ASSUME NEW r \in RequestsFrom(d, c),
               ExecuteRevoke(d, c, r) \/ ExecuteDecrease(d, c, r), total' = Sub(total, r.amount)
        PROVE  total' <= C + DNew
    <3> DEFINE bond == delegator[d].bonds[c]
    <3>1. /\ r.amount \in Nat /\ Backed(delegator, d, c) /\ CanBeDone(delegator, r)
      BY <1>1, <2>1, OneRequestGone
    <3>2. bond \in Nat /\ on[d] = bond
      BY <1>5, <3>1
    <3>3. ASSUME NEW left \in Nat, left + r.amount = bond, onNew = Written(on, d, left),
                 ChangesOnly(delegator, delegator', c)
          PROVE  total' <= C + DNew
      <4>0. ChangesOnly(delegator, delegator', c)
        BY <3>3
      <4>1. DNew + SumOf(on) = D + SumOf(onNew) /\ SumOf(on) \in Nat /\ SumOf(onNew) \in Nat
        BY <1>6, <4>0
      <4>2. SumOf(onNew) + bond = SumOf(on) + left
        <5>1. SumOf(Written(on, d, left)) + on[d] = SumOf(on) + left
          BY <1>4, OneWritten
        <5> QED BY <3>2, <3>3, <5>1
      <4>3. DNew + r.amount = D
        BY <1>2, <3>1, <3>2, <3>3, <4>1, <4>2
      <4> DEFINE l == C + D
                 n == C + DNew
      <4>4. l \in Nat /\ n \in Nat /\ n + r.amount = l /\ total <= l
        BY <1>2, <3>1, <4>3
      <4> HIDE DEF l, n
      <4>5. Sub(total, r.amount) <= n
        BY <1>2, <3>1, <4>4, TotalFalls
      <4> QED BY <2>2, <4>5 DEF n
    <3>4. CASE ExecuteRevoke(d, c, r)
      <4>1. r.amount = bond
        BY <3>1, <3>4 DEF CanBeDone, ExecuteRevoke, RequestsFrom
      <4>2. Loses(delegator, delegator', {d}, c)
        BY <1>1, <3>1, <3>4, ExecuteRevokeAgrees
      <4>3. onNew = Written(on, d, 0)
        BY <4>2, StakeLost DEF on, onNew
      <4>4. ChangesOnly(delegator, delegator', c)
        BY <4>2 DEF Loses
      <4> QED BY <3>2, <3>3, <4>1, <4>3, <4>4
    <3>5. CASE ExecuteDecrease(d, c, r)
      <4> DEFINE left == bond - r.amount
      <4>1. left \in Nat /\ left + r.amount = bond
        BY <3>1, <3>2, <3>5 DEF ExecuteDecrease
      <4>2. Rewrites(delegator, delegator', d, c, left)
        BY <1>1, <3>1, <3>5, ExecuteDecreaseAgrees
      <4> HIDE DEF left
      <4>3. onNew = Written(on, d, left)
        BY <4>2, StakeRewritten DEF on, onNew
      <4>4. ChangesOnly(delegator, delegator', c)
        BY <4>2 DEF Rewrites
      <4> QED BY <3>3, <4>1, <4>3, <4>4
    <3> QED BY <2>2, <3>4, <3>5
  <2>3. \E r \in RequestsFrom(d, c) :
            /\ ExecuteRevoke(d, c, r) \/ ExecuteDecrease(d, c, r)
            /\ total' = Sub(total, r.amount)
    BY <1>10 DEF ExecuteDelegationRequest
  <2>4. total' <= C + DNew
    BY <2>2, <2>3
  <2> QED BY <1>7, <2>4
<1> QED BY <1>8, <1>9, <1>10

\* The calls that change self bonds.
LEMMA SelfBondTotal ==
    ASSUME IInv, Coherent, TotalIsNeverOverstated, NEW c \in Account, NEW amount \in Nat,
           \/ JoinCandidates(c, amount) \/ CandidateBondMore(c, amount)
           \/ ExecuteCandidateBondLess(c)
    PROVE  TotalIsNeverOverstated'
<1> DEFINE C == SumOf(collatorLock)
           CNew == SumOf(collatorLock')
           D == SumOf(delegatorLock)
           lock == IF c \in DOMAIN candidate THEN candidate[c].bond ELSE 0
<1>1. /\ C \in Nat /\ D \in Nat /\ total \in Nat /\ total <= C + D
      /\ collatorLock \in [Account -> Nat]
  BY LockedIsNat DEF TotalIsNeverOverstated
<1>2. collatorLock[c] = lock /\ lock \in Nat
  <2>1. collatorLock[c] = lock
    BY DEF Coherent, SelfBondsStand, SelfBondIsLocked
  <2> HIDE DEF lock
  <2> QED BY <1>1, <2>1
<1>3. delegatorLock' = delegatorLock
  BY DEF JoinCandidates, CandidateBondMore, ExecuteCandidateBondLess
<1>4. ASSUME total' <= CNew + D PROVE TotalIsNeverOverstated'
  BY <1>3, <1>4 DEF TotalIsNeverOverstated, Locked
<1>5. ASSUME NEW v \in Nat, collatorLock' = [collatorLock EXCEPT ![c] = v]
      PROVE  CNew \in Nat /\ CNew + lock = C + v
  <2>1. collatorLock' = Written(collatorLock, c, v)
    BY <1>5 DEF Written
  <2>2. /\ SumOf(Written(collatorLock, c, v)) \in Nat
        /\ SumOf(Written(collatorLock, c, v)) + collatorLock[c] = C + v
    BY <1>1, OneWritten
  <2> QED BY <1>2, <2>1, <2>2
<1> HIDE DEF C, CNew, D
<1>6. CASE JoinCandidates(c, amount)
  <2>1. /\ collatorLock' = [collatorLock EXCEPT ![c] = amount]
        /\ total' = total + amount /\ lock = 0
    BY <1>6 DEF JoinCandidates, IsCandidate
  <2>2. CNew \in Nat /\ CNew + lock = C + amount
    BY <1>5, <2>1
  <2>3. total' <= CNew + D
    BY <1>1, <2>1, <2>2
  <2> QED BY <1>4, <2>3
<1>7. CASE CandidateBondMore(c, amount)
  <2> DEFINE sum == lock + amount
  <2>1. collatorLock' = [collatorLock EXCEPT ![c] = sum] /\ total' = total + amount
    BY <1>7 DEF CandidateBondMore, IsCandidate
  <2>2. sum \in Nat
    BY <1>2
  <2>3. CNew \in Nat /\ CNew + lock = C + sum
    <3> HIDE DEF sum
    <3> QED BY <1>5, <2>1, <2>2
  <2>4. total' <= CNew + D
    <3> HIDE DEF lock
    <3> QED BY <1>1, <1>2, <2>1, <2>3
  <2> QED BY <1>4, <2>4
<1>8. CASE ExecuteCandidateBondLess(c)
  <2> DEFINE book == candidate[c]
             less == book.bondLess.amount
             left == Sub(lock, less)
  <2>1. c \in DOMAIN candidate /\ total' = Sub(total, less)
    BY <1>8 DEF ExecuteCandidateBondLess, IsCandidate
  <2>2. book \in Book /\ book.bond = lock /\ less \in Nat /\ less <= lock
    <3>1. CandidateInv(book)
      BY <2>1 DEF IInv, CandidatesInOrder
    <3>2. book \in Book
      BY <2>1, CandidateFields
    <3> QED BY <2>1, <3>1, <3>2 DEF CandidateInv, Book, BondLess
  <2>3. collatorLock' = [collatorLock EXCEPT ![c] = left]
    <3>1. WithLessBond(book).bond = left
      BY <2>2 DEF WithLessBond, Book
    <3> QED BY <1>8, <3>1 DEF ExecuteCandidateBondLess
  <2>4. left \in Nat /\ left + less = lock
    <3> HIDE DEF lock, less
    <3> QED BY <1>2, <2>2 DEF Sub
  <2>5. CNew \in Nat /\ CNew + lock = C + left
    <3> HIDE DEF left
    <3> QED BY <1>5, <2>3, <2>4
  <2> HIDE DEF left, less, lock
  <2>6. CNew + less = C
    BY <1>1, <1>2, <2>2, <2>4, <2>5
  <2> DEFINE l == C + D
             n == CNew + D
  <2>7. l \in Nat /\ n \in Nat /\ n + less = l /\ total <= l
    BY <1>1, <2>2, <2>5, <2>6
  <2> HIDE DEF l, n
  <2>8. Sub(total, less) <= n
    BY <1>1, <2>2, <2>7, TotalFalls
  <2> QED BY <1>4, <2>1, <2>8 DEF n
<1> QED BY <1>6, <1>7, <1>8

\* The exit of a candidate: Total falls by the totals of its lists, which are no less than
\* what is given back (decrease_bottom_delegation leaves the bottom total as it was).
LEMMA ExitTotal ==
    ASSUME IInv, IInv', Coherent, LedgerAgrees', TotalIsNeverOverstated,
           NEW c \in Account, ExecuteLeaveCandidates(c)
    PROVE  TotalIsNeverOverstated'
<1> DEFINE C == SumOf(collatorLock)
           CNew == SumOf(collatorLock')
           D == SumOf(delegatorLock)
           DNew == SumOf(delegatorLock')
           book == candidate[c]
           T == Entries(book.top.list)
           B == Entries(book.bottom.list)
           on == StakeOn(delegator, c)
           onNew == StakeOn(delegator', c)
           backing == book.bond + book.top.total + book.bottom.total
<1>1. /\ C \in Nat /\ D \in Nat /\ total \in Nat /\ total <= C + D
      /\ collatorLock \in [Account -> Nat]
  BY LockedIsNat DEF TotalIsNeverOverstated
<1>2. /\ c \in DOMAIN candidate /\ total' = Sub(total, backing)
      /\ collatorLock' = [collatorLock EXCEPT ![c] = 0]
  BY DEF ExecuteLeaveCandidates, IsCandidate
<1>3. LedgerAgrees
  BY DEF Coherent
<1>4. Ordered(book) /\ Contents(book) = OnRecord(delegator, c)
  BY <1>2, <1>3 DEF LedgerAgrees, BooksAreOrdered, BooksListBonds, Listed
<1>5. /\ book.bond \in Nat /\ book.top.total \in Nat /\ book.bottom.total \in Nat
      /\ StakeOf(Contents(book)) <= book.top.total + book.bottom.total
      /\ StakeOf(Contents(book)) \in Nat
  <2> HIDE DEF book
  <2>1. /\ book \in Book /\ Kept(book.top, 0) /\ \E x \in Nat : Kept(book.bottom, x)
        /\ Contents(book) = T \cup B
        /\ \A a \in T, b \in B : a.owner # b.owner
    BY <1>4, BookSets
  <2>2. PICK x \in Nat : Kept(book.bottom, x)
    BY <2>1
  <2>3. /\ IsFiniteSet(T) /\ T \subseteq Bond /\ StakeOf(T) \in Nat
        /\ IsFiniteSet(B) /\ B \subseteq Bond /\ StakeOf(B) \in Nat
        /\ book.top.total \in Nat /\ book.bottom.total \in Nat
    BY <2>1, <2>2, KeptParts
  <2>4. book.top.total = StakeOf(T) + 0 /\ book.bottom.total = StakeOf(B) + x
    BY <2>1, <2>2 DEF Kept
  <2>5. book.bond \in Nat
    BY <2>1 DEF Book
  <2>6. T \cap B = {}
    BY <2>1
  <2> HIDE DEF T, B
  <2>7. StakeOf(T \cup B) = StakeOf(T) + StakeOf(B)
    BY <2>3, <2>6, StakeOfUnion
  <2> QED BY <2>1, <2>3, <2>4, <2>5, <2>7
<1>6. CNew \in Nat /\ CNew + book.bond = C
  <2>1. collatorLock[c] = book.bond
    BY <1>2 DEF Coherent, SelfBondsStand, SelfBondIsLocked
  <2>2. collatorLock' = Written(collatorLock, c, 0)
    BY <1>2 DEF Written
  <2>3. 0 \in Nat
    OBVIOUS
  <2>4. /\ SumOf(Written(collatorLock, c, 0)) \in Nat
        /\ SumOf(Written(collatorLock, c, 0)) + collatorLock[c] = C + 0
    BY <1>1, <2>3, OneWritten
  <2> QED BY <1>1, <2>1, <2>2, <2>4
<1>7. Loses(delegator, delegator', BackersOnRecord(c), c)
  BY <1>3, ExecuteLeaveCandidatesAgrees
<1>8. DNew + SumOf(on) = D + SumOf(onNew) /\ DNew \in Nat
  <2>1. ChangesOnly(delegator, delegator', c)
    BY <1>7 DEF Loses
  <2> QED BY <1>3, <2>1, LockedStakeMoves
<1>9. SumOf(onNew) = 0
  <2>1. \A d : ~Backed(delegator', d, c)
    BY <1>7 DEF Loses, BackersOnRecord, Backed
  <2>2. \A d \in DOMAIN onNew : onNew[d] = 0
    BY <2>1 DEF StakeOn
  <2> HIDE DEF onNew
  <2> QED BY <2>2, SumOfZeros
<1>10. SumOf(on) = StakeOf(Contents(book))
  BY <1>4, StakeOnRecord
<1> DEFINE l == C + D
           n == CNew + DNew
           x == book.bond + StakeOf(Contents(book))
<1> HIDE DEF C, CNew, D, DNew, on, onNew
<1>11. l \in Nat /\ n \in Nat /\ n + x = l /\ total <= l
  <2> DEFINE stake == StakeOf(Contents(book))
             bond == book.bond
  <2>1. stake \in Nat /\ bond \in Nat /\ DNew + stake = D + 0 /\ CNew + bond = C
    BY <1>5, <1>6, <1>8, <1>9, <1>10
  <2> HIDE DEF stake, bond
  <2>2. n + (bond + stake) = l
    BY <1>1, <1>6, <1>8, <2>1
  <2>3. l \in Nat /\ n \in Nat /\ total <= l
    BY <1>1, <1>6, <1>8
  <2> QED BY <2>2, <2>3 DEF stake, bond
<1>12. x \in Nat /\ backing \in Nat /\ x <= backing
  BY <1>5
<1> HIDE DEF l, n, x, backing
<1>13. total' <= n
  BY <1>1, <1>2, <1>11, <1>12, TotalFalls
<1> QED BY <1>13 DEF TotalIsNeverOverstated, Locked, n, CNew, DNew

\* The exit of a delegator: every bond is found, so Total falls by all that is unlocked.
LEMMA LeaveTotal ==
    ASSUME IInv, Coherent, TotalIsNeverOverstated, NEW d \in Account, ExecuteLeaveDelegators(d)
    PROVE  TotalIsNeverOverstated'
<1> DEFINE C == SumOf(collatorLock)
           D == SumOf(delegatorLock)
           DNew == SumOf(delegatorLock')
           less == delegator[d].total
<1>1. /\ C \in Nat /\ D \in Nat /\ total \in Nat /\ total <= C + D
      /\ delegatorLock \in [Account -> Nat]
  BY LockedIsNat DEF TotalIsNeverOverstated
<1>2. LedgerAgrees
  BY DEF Coherent
<1>3. d \in DOMAIN delegator /\ total' = Sub(total, less)
  BY <1>2, ExecuteLeaveDelegatorsAgrees
<1>4. collatorLock' = collatorLock /\ delegatorLock' = Written(delegatorLock, d, 0)
  BY DEF ExecuteLeaveDelegators, Written
<1>5. delegatorLock[d] = less /\ less \in Nat
  <2>1. delegatorLock[d] = less
    BY <1>2, <1>3 DEF LedgerAgrees, StakeIsLocked
  <2> HIDE DEF less
  <2> QED BY <1>1, <2>1
<1>6. DNew \in Nat /\ DNew + less = D
  <2>1. 0 \in Nat
    OBVIOUS
  <2>2. /\ SumOf(Written(delegatorLock, d, 0)) \in Nat
        /\ SumOf(Written(delegatorLock, d, 0)) + delegatorLock[d] = D + 0
    BY <1>1, <2>1, OneWritten
  <2> QED BY <1>1, <1>4, <1>5, <2>2
<1> DEFINE l == C + D
           n == C + DNew
<1> HIDE DEF C, D, DNew, less
<1>7. l \in Nat /\ n \in Nat /\ n + less = l /\ total <= l
  BY <1>1, <1>5, <1>6
<1> HIDE DEF l, n
<1>8. total' <= n
  BY <1>1, <1>3, <1>5, <1>7, TotalFalls
<1> QED BY <1>4, <1>8 DEF TotalIsNeverOverstated, Locked, n, C, DNew

\* Every step keeps Total within what is locked.
LEMMA StepTotal ==
    ASSUME IInv, IInv', Coherent, Coherent', TotalIsNeverOverstated, [Next]_vars
    PROVE  TotalIsNeverOverstated'
<1>1. /\ Joiners \subseteq Account /\ Backers \subseteq Account /\ Amounts \subseteq Nat
      /\ 0 \in Nat
  BY AccountsAssumption, AmountsAssumption
<1>2. LedgerAgrees'
  BY DEF Coherent
<1>3. ASSUME UNCHANGED <<total, collatorLock, delegatorLock>> PROVE TotalIsNeverOverstated'
  BY <1>3 DEF TotalIsNeverOverstated, Locked
<1>4. ASSUME NEW c \in Joiners, CandidateCall(c) PROVE TotalIsNeverOverstated'
  <2>1. c \in Account
    BY <1>1
  <2>2. CASE \/ \E bond \in Amounts : JoinCandidates(c, bond)
             \/ \E more \in Amounts : CandidateBondMore(c, more)
             \/ ExecuteCandidateBondLess(c)
    BY <1>1, <2>1, <2>2, SelfBondTotal
  <2>3. CASE ExecuteLeaveCandidates(c)
    BY <1>2, <2>1, <2>3, ExitTotal
  <2>4. CASE \/ ScheduleLeaveCandidates(c) \/ CancelLeaveCandidates(c)
             \/ GoOffline(c) \/ GoOnline(c)
             \/ \E less \in Amounts : ScheduleCandidateBondLess(c, less)
             \/ CancelCandidateBondLess(c)
    <3>1. UNCHANGED <<total, collatorLock, delegatorLock>>
      BY <2>4 DEF ScheduleLeaveCandidates, CancelLeaveCandidates, GoOffline, GoOnline,
                  ScheduleCandidateBondLess, CancelCandidateBondLess
    <3> QED BY <1>3, <3>1
  <2> QED BY <1>4, <2>2, <2>3, <2>4 DEF CandidateCall
<1>5. ASSUME NEW d \in Backers, NEW c \in Joiners, DelegationCall(d, c)
      PROVE  TotalIsNeverOverstated'
  <2>1. d \in Account /\ c \in Account
    BY <1>1
  <2>2. CASE \/ \E amount \in Amounts : Delegate(d, c, amount)
             \/ \E more \in Amounts : DelegatorBondMore(d, c, more)
             \/ ExecuteDelegationRequest(d, c)
    BY <1>1, <1>2, <2>1, <2>2, DelegationTotal
  <2>3. CASE \/ ScheduleRevokeDelegation(d, c)
             \/ \E less \in Amounts : ScheduleDelegatorBondLess(d, c, less)
             \/ CancelDelegationRequest(d, c)
    <3>1. UNCHANGED <<total, collatorLock, delegatorLock>>
      BY <2>3 DEF ScheduleRevokeDelegation, ScheduleDelegatorBondLess, ScheduleRequest,
                  CancelDelegationRequest
    <3> QED BY <1>3, <3>1
  <2> QED BY <1>5, <2>2, <2>3 DEF DelegationCall
<1>6. ASSUME NEW d \in Backers, DelegatorCall(d) PROVE TotalIsNeverOverstated'
  <2>1. CASE ExecuteLeaveDelegators(d)
    BY <1>1, <2>1, LeaveTotal
  <2>2. CASE ScheduleLeaveDelegators(d) \/ CancelLeaveDelegators(d)
    <3>1. UNCHANGED <<total, collatorLock, delegatorLock>>
      BY <2>2 DEF ScheduleLeaveDelegators, CancelLeaveDelegators
    <3> QED BY <1>3, <3>1
  <2> QED BY <1>6, <2>1, <2>2 DEF DelegatorCall
<1>7. CASE NextRound \/ UNCHANGED vars
  <2>1. UNCHANGED <<total, collatorLock, delegatorLock>>
    BY <1>7 DEF NextRound, vars
  <2> QED BY <1>3, <2>1
<1> QED BY <1>4, <1>5, <1>6, <1>7 DEF Next, Call

(***************************************************************************)
(* Total, from which the issuance of a round is computed, never claims     *)
(* more stake than is locked.                                              *)
(***************************************************************************)
THEOREM TotalIsAlwaysBacked == Spec => []TotalIsNeverOverstated
<1>1. Init => TotalIsNeverOverstated
  <2>1. ASSUME Init PROVE TotalIsNeverOverstated
    <3>1. total = 0 /\ SumOf(collatorLock) \in Nat /\ SumOf(delegatorLock) \in Nat
      BY <2>1, InitInv, LockedIsNat DEF Init
    <3> QED BY <3>1 DEF TotalIsNeverOverstated, Locked
  <2> QED BY <2>1
<1>2. /\ IInv /\ IInv' /\ Coherent /\ Coherent' /\ TotalIsNeverOverstated /\ [Next]_vars
      => TotalIsNeverOverstated'
  BY StepTotal
<1> QED BY <1>1, <1>2, LedgerStaysCoherent, PTL DEF Spec

-----------------------------------------------------------------------------
(* Stake is taken with cause *)

\* The bond of d on c is as it was before the step.
Untouched(d, c) == Backed(delegator', d, c) /\ delegator'[d].bonds[c] = delegator[d].bonds[c]

\* What is not touched is not taken.
LEMMA UntouchedHasCause ==
    ASSUME IInv, Coherent, NEW d, NEW c, Backed(delegator, d, c), Untouched(d, c)
    PROVE  HasCause(d, c)
<1>1. delegator[d].bonds[c] \in Nat
  BY BondIsListed DEF BondOf, Coherent
<1>2. Backs(d, c)' /\ ~(delegator'[d].bonds[c] < delegator[d].bonds[c])
  <2>1. Backs(d, c)' /\ delegator'[d].bonds[c] = delegator[d].bonds[c]
    BY DEF Untouched, Backed, Backs, IsDelegator
  <2> QED BY <1>1, <2>1
<1> QED BY <1>2 DEF HasCause

\* Bonds on one candidate change: those on the others are not touched.
LEMMA OthersUntouched ==
    ASSUME NEW d, NEW x, NEW c, x # c, Backed(delegator, d, x), ChangesOnly(delegator, delegator', c)
    PROVE  Untouched(d, x)
BY DEF ChangesOnly, Untouched

(***************************************************************************)
(* A delegation joins: whoever loses a bond was the least in a full book,  *)
(* and the newcomer gives strictly more.                                   *)
(***************************************************************************)
LEMMA DelegateHasCause ==
    ASSUME IInv, Coherent, NEW d \in Account, NEW c \in Account, NEW amount \in Nat,
           Delegate(d, c, amount), NEW x, NEW y, Backed(delegator, x, y)
    PROVE  HasCause(x, y)
<1> DEFINE K == KickedBy(d, c, amount)
           e == [owner |-> d, amount |-> amount]
           added == AddDelegation(candidate[c], e)
<1>1. LedgerAgrees
  BY DEF Coherent
<1>2. GivesWay(delegator, delegator', K, d, c, amount) /\ ~Backed(delegator, d, c)
  BY <1>1, DelegateAgrees
<1>3. c \in DOMAIN candidate /\ CanAdd(candidate[c], amount)
  BY DEF Delegate, IsCandidate
<1>4. Ordered(candidate[c]) /\ Contents(candidate[c]) = OnRecord(delegator, c)
  BY <1>1, <1>3 DEF LedgerAgrees, BooksAreOrdered, BooksListBonds, Listed
<1>5. e \in Bond /\ e.amount = amount /\ e.owner = d
  BY DEF Bond
<1>6. \A b \in Contents(candidate[c]) : b.owner # d
  BY <1>2, <1>4, OneOnRecord
<1> HIDE DEF e
<1>7. \/ added.kicked = {}
      \/ \E k \in Contents(candidate[c]) :
            /\ added.kicked = {k} /\ amount > k.amount
            /\ \A b \in Contents(candidate[c]) : b.amount >= k.amount
            /\ Cardinality(Contents(candidate[c])) = MaxTop + MaxBottom
  BY <1>3, <1>4, <1>5, <1>6, AddDelegationContents
<1>8. K = {b.owner : b \in added.kicked}
  BY DEF KickedBy, e
<1> HIDE DEF K, added
<1>9. CASE y # c
  <2>1. ChangesOnly(delegator, delegator', c)
    BY <1>2 DEF GivesWay
  <2> QED BY <1>9, <2>1, OthersUntouched, UntouchedHasCause
<1>10. CASE y = c /\ x \notin K
  <2>1. x # d
    BY <1>2, <1>10
  <2>2. Backed(delegator', x, c) /\ delegator'[x].bonds[c] = delegator[x].bonds[c]
    BY <1>2, <1>10, <2>1 DEF GivesWay
  <2> QED BY <1>10, <2>2, UntouchedHasCause DEF Untouched
<1>11. CASE y = c /\ x \in K
  <2>1. PICK k \in Contents(candidate[c]) :
            /\ added.kicked = {k} /\ amount > k.amount
            /\ \A b \in Contents(candidate[c]) : b.amount >= k.amount
            /\ Cardinality(Contents(candidate[c])) = MaxTop + MaxBottom
    BY <1>7, <1>8, <1>11
  <2>2. x = k.owner
    BY <1>8, <1>11, <2>1
  <2>3. k.amount = delegator[x].bonds[c]
    BY <1>4, <2>2, OneOnRecord
  <2>4. \A z \in BackersOf(c) : BondOf(delegator, z, c) \in Contents(candidate[c])
    BY <1>4, InRecord DEF BackersOf, Backed
  <2>5. \A z \in BackersOf(c) : delegator[z].bonds[c] >= delegator[x].bonds[c]
    <3>1. ASSUME NEW z \in BackersOf(c)
          PROVE  delegator[z].bonds[c] >= delegator[x].bonds[c]
      <4>1. BondOf(delegator, z, c).amount >= k.amount
        BY <2>1, <2>4
      <4>2. BondOf(delegator, z, c).amount = delegator[z].bonds[c]
        BY DEF BondOf
      <4> QED BY <2>3, <4>1, <4>2
    <3> QED BY <3>1
  <2>6. Cardinality(BackersOf(c)) = MaxTop + MaxBottom
    <3>1. IsFiniteSet(DOMAIN delegator)
      BY FS_Subset, AccountsAssumption DEF IInv, DelegatorsInOrder
    <3>2. Cardinality(BackersOf(c)) = Cardinality(OnRecord(delegator, c))
      BY <3>1, BackersCounted DEF BackersOf
    <3> QED BY <1>4, <2>1, <3>2
  <2>7. d \in BackersOf(c)' \ BackersOf(c) /\ delegator'[d].bonds[c] > delegator[x].bonds[c]
    <3>1. Backed(delegator', d, c) /\ delegator'[d].bonds[c] = amount
      BY <1>2 DEF GivesWay
    <3>2. d \in BackersOf(c)' /\ d \notin BackersOf(c)
      BY <1>2, <3>1 DEF BackersOf, Backed
    <3> QED BY <2>1, <2>3, <3>1, <3>2
  <2>8. Outbid(x, c)
    BY <2>5, <2>6, <2>7 DEF Outbid
  <2>9. ~Backs(x, c)'
    <3>1. x # d
      BY <1>2, <1>11
    <3>2. ~Backed(delegator', x, c)
      BY <1>2, <1>11, <3>1 DEF GivesWay
    <3> QED BY <3>2 DEF Backed, Backs, IsDelegator
  <2> QED BY <1>11, <2>8, <2>9 DEF HasCause
<1> QED BY <1>9, <1>10, <1>11

\* More stake on a bond takes none from any.
LEMMA BondMoreHasCause ==
    ASSUME IInv, Coherent, NEW d \in Account, NEW c \in Account, NEW more \in Nat,
           DelegatorBondMore(d, c, more), NEW x, NEW y, Backed(delegator, x, y)
    PROVE  HasCause(x, y)
<1> DEFINE bond == delegator[d].bonds[c]
<1>1. /\ Backed(delegator, d, c)
      /\ Rewrites(delegator, delegator', d, c, bond + more)
  BY DelegatorBondMoreAgrees DEF Coherent
<1>2. bond \in Nat
  BY <1>1, BondIsListed DEF BondOf, Coherent
<1>3. CASE y # c
  <2>1. ChangesOnly(delegator, delegator', c)
    BY <1>1 DEF Rewrites
  <2> QED BY <1>3, <2>1, OthersUntouched, UntouchedHasCause
<1>4. CASE y = c /\ x # d
  <2>1. Backed(delegator', x, c) /\ delegator'[x].bonds[c] = delegator[x].bonds[c]
    BY <1>1, <1>4 DEF Rewrites
  <2> QED BY <1>4, <2>1, UntouchedHasCause DEF Untouched
<1>5. CASE y = c /\ x = d
  <2> DEFINE now == delegator'[d].bonds[c]
  <2>1. Backed(delegator', d, c) /\ now = bond + more
    BY <1>1 DEF Rewrites
  <2>2. ~(now < bond)
    <3> HIDE DEF now, bond
    <3> QED BY <1>2, <2>1
  <2>3. Backs(d, c)'
    BY <2>1 DEF Backed, Backs, IsDelegator
  <2> QED BY <1>5, <2>2, <2>3 DEF HasCause
<1> QED BY <1>3, <1>4, <1>5

\* What a due request was scheduled for is what is taken, and from nobody else.
LEMMA ExecuteRequestHasCause ==
    ASSUME IInv, Coherent, NEW d \in Account, NEW c \in Account,
           ExecuteDelegationRequest(d, c), NEW x, NEW y, Backed(delegator, x, y)
    PROVE  HasCause(x, y)
<1>1. PICK r \in RequestsFrom(d, c) :
        r.when <= round /\ (ExecuteRevoke(d, c, r) \/ ExecuteDecrease(d, c, r))
  BY DEF ExecuteDelegationRequest
<1>2. d \in DOMAIN delegator /\ LedgerAgrees /\ RequestsStand
  BY DEF ExecuteDelegationRequest, IsDelegator, Coherent
<1>3. r \in Request /\ r.amount \in Nat /\ CanBeDone(delegator, r) /\ Backed(delegator, d, c)
  BY <1>2, OneRequestGone
<1>4. ASSUME ChangesOnly(delegator, delegator', c), y # c PROVE HasCause(x, y)
  BY <1>4, OthersUntouched, UntouchedHasCause
<1>5. CASE ExecuteRevoke(d, c, r)
  <2>1. Loses(delegator, delegator', {d}, c)
    BY <1>2, <1>3, <1>5, ExecuteRevokeAgrees
  <2>2. ChangesOnly(delegator, delegator', c)
    BY <2>1 DEF Loses
  <2>3. CASE y = c /\ x # d
    <3>1. Backed(delegator', x, c) /\ delegator'[x].bonds[c] = delegator[x].bonds[c]
      BY <2>1, <2>3 DEF Loses
    <3> QED BY <2>3, <3>1, UntouchedHasCause DEF Untouched
  <2>4. CASE y = c /\ x = d
    <3>1. r \in Due(d, c, "Revoke")
      BY <1>1, <1>5 DEF Due, ExecuteRevoke, IsRevoke
    <3>2. ~Backed(delegator', d, c)
      BY <2>1 DEF Loses
    <3>3. ~Backs(d, c)'
      BY <3>2 DEF Backed, Backs, IsDelegator
    <3>4. Due(d, c, "Revoke") # {}
      BY <3>1
    <3> QED BY <2>4, <3>3, <3>4 DEF HasCause
  <2> QED BY <1>4, <2>2, <2>3, <2>4
<1>6. CASE ExecuteDecrease(d, c, r)
  <2>1. Rewrites(delegator, delegator', d, c, delegator[d].bonds[c] - r.amount)
    BY <1>2, <1>3, <1>6, ExecuteDecreaseAgrees
  <2>2. ChangesOnly(delegator, delegator', c)
    BY <2>1 DEF Rewrites
  <2>3. CASE y = c /\ x # d
    <3>1. Backed(delegator', x, c) /\ delegator'[x].bonds[c] = delegator[x].bonds[c]
      BY <2>1, <2>3 DEF Rewrites
    <3> QED BY <2>3, <3>1, UntouchedHasCause DEF Untouched
  <2>4. CASE y = c /\ x = d
    <3>1. r \in Due(d, c, "Decrease")
      <4>1. r.action = "Decrease"
        BY <1>3, <1>6 DEF ExecuteDecrease, IsRevoke, Request
      <4> QED BY <1>1, <4>1 DEF Due
    <3>2. /\ Backed(delegator', d, c)
          /\ delegator'[d].bonds[c] = delegator[d].bonds[c] - r.amount
      BY <2>1 DEF Rewrites
    <3>3. Backs(d, c)'
      BY <3>2 DEF Backed, Backs, IsDelegator
    <3> QED BY <2>4, <3>1, <3>2, <3>3 DEF HasCause
  <2> QED BY <1>4, <2>2, <2>3, <2>4
<1> QED BY <1>1, <1>5, <1>6

\* A candidate goes: its exit is due, and only bonds on it are given back.
LEMMA ExitHasCause ==
    ASSUME IInv, Coherent, NEW c \in Account, ExecuteLeaveCandidates(c),
           NEW x, NEW y, Backed(delegator, x, y)
    PROVE  HasCause(x, y)
<1>1. Loses(delegator, delegator', BackersOnRecord(c), c)
  BY ExecuteLeaveCandidatesAgrees DEF Coherent
<1>2. CASE y # c
  <2>1. ChangesOnly(delegator, delegator', c)
    BY <1>1 DEF Loses
  <2> QED BY <1>2, <2>1, OthersUntouched, UntouchedHasCause
<1>3. CASE y = c
  <2>1. ExitIsDue(c)
    BY DEF ExecuteLeaveCandidates, ExitIsDue
  <2>2. ~Backed(delegator', x, c)
    BY <1>1 DEF Loses, BackersOnRecord, Backed
  <2>3. ~Backs(x, c)'
    BY <2>2 DEF Backed, Backs, IsDelegator
  <2> QED BY <1>3, <2>1, <2>3 DEF HasCause
<1> QED BY <1>2, <1>3

\* A delegator goes: a revoke of every one of its bonds is due, and no other record is touched.
LEMMA LeaveHasCause ==
    ASSUME IInv, Coherent, NEW d \in Account, ExecuteLeaveDelegators(d),
           NEW x, NEW y, Backed(delegator, x, y)
    PROVE  HasCause(x, y)
<1>1. delegator' = Drop(delegator, d)
  BY ExecuteLeaveDelegatorsAgrees DEF Coherent
<1>2. CASE x # d
  <2>1. x \in DOMAIN delegator' /\ delegator'[x] = delegator[x]
    BY <1>1, <1>2 DEF Drop, Backed
  <2>2. Untouched(x, y)
    BY <2>1 DEF Untouched, Backed
  <2> QED BY <2>2, UntouchedHasCause
<1>3. CASE x = d
  <2>1. y \in DOMAIN delegator[d].bonds
    BY <1>3 DEF Backed
  <2>2. PICK r \in RequestsFrom(d, y) : IsRevoke(r)
    BY <2>1 DEF ExecuteLeaveDelegators, IsLeaving
  <2>3. r \in OwnRequests(d)
    BY <2>1, <2>2 DEF OwnRequests
  <2>4. r.when <= round
    BY <2>2, <2>3 DEF ExecuteLeaveDelegators
  <2>5. r \in Due(d, y, "Revoke")
    BY <2>2, <2>4 DEF Due, IsRevoke
  <2>6. ~Backs(d, y)'
    BY <1>1 DEF Drop, Backs, IsDelegator
  <2>7. Due(d, y, "Revoke") # {}
    BY <2>5
  <2> QED BY <1>3, <2>6, <2>7 DEF HasCause
<1> QED BY <1>2, <1>3

\* No other call touches a bond.
LEMMA SameBondsHaveCause ==
    ASSUME IInv, Coherent, SameBonds(delegator, delegator'), NEW x, NEW y, Backed(delegator, x, y)
    PROVE  HasCause(x, y)
<1>1. Untouched(x, y)
  BY DEF SameBonds, Untouched
<1> QED BY <1>1, UntouchedHasCause

\* Scheduling and cancelling only write what is pending.
LEMMA RequestCallsKeepBonds ==
    ASSUME NEW d \in Account, NEW c \in Account, NEW less \in Nat,
           \/ ScheduleRevokeDelegation(d, c) \/ ScheduleDelegatorBondLess(d, c, less)
           \/ CancelDelegationRequest(d, c)
           \/ ScheduleLeaveDelegators(d) \/ CancelLeaveDelegators(d)
    PROVE  SameBonds(delegator, delegator')
<1>1. /\ DOMAIN delegator' = DOMAIN delegator
      /\ \A x \in DOMAIN delegator : delegator'[x].bonds = delegator[x].bonds
  <2>1. CASE ScheduleRevokeDelegation(d, c)
    BY <2>1 DEF ScheduleRevokeDelegation, ScheduleRequest
  <2>2. CASE ScheduleDelegatorBondLess(d, c, less)
    BY <2>2 DEF ScheduleDelegatorBondLess, ScheduleRequest
  <2>3. CASE CancelDelegationRequest(d, c)
    BY <2>3 DEF CancelDelegationRequest
  <2>4. CASE ScheduleLeaveDelegators(d)
    BY <2>4 DEF ScheduleLeaveDelegators
  <2>5. CASE CancelLeaveDelegators(d)
    BY <2>5 DEF CancelLeaveDelegators
  <2> QED BY <2>1, <2>2, <2>3, <2>4, <2>5
<1> QED BY <1>1 DEF SameBonds, Backed

\* Whatever the step, a bond that is gone or less has its cause.
LEMMA StepHasCause ==
    ASSUME IInv, Coherent, [Next]_vars, NEW x, NEW y, Backed(delegator, x, y)
    PROVE  HasCause(x, y)
<1>1. /\ Joiners \subseteq Account /\ Backers \subseteq Account /\ Amounts \subseteq Nat
      /\ 0 \in Nat
  BY AccountsAssumption, AmountsAssumption
<1>2. ASSUME UNCHANGED delegator PROVE HasCause(x, y)
  <2>1. SameBonds(delegator, delegator')
    BY <1>2 DEF SameBonds
  <2> QED BY <2>1, SameBondsHaveCause
<1>3. ASSUME NEW c \in Joiners, CandidateCall(c) PROVE HasCause(x, y)
  <2>1. c \in Account
    BY <1>1
  <2>2. CASE ExecuteLeaveCandidates(c)
    BY <2>1, <2>2, ExitHasCause
  <2>3. CASE ~ExecuteLeaveCandidates(c)
    <3>1. UNCHANGED delegator
      BY <1>3, <2>3 DEF CandidateCall, JoinCandidates, ScheduleLeaveCandidates,
         CancelLeaveCandidates, GoOffline, GoOnline, CandidateBondMore,
         ScheduleCandidateBondLess, ExecuteCandidateBondLess, CancelCandidateBondLess
    <3> QED BY <1>2, <3>1
  <2> QED BY <2>2, <2>3
<1>4. ASSUME NEW d \in Backers, NEW c \in Joiners, DelegationCall(d, c) PROVE HasCause(x, y)
  <2>1. d \in Account /\ c \in Account
    BY <1>1
  <2>2. CASE \E amount \in Amounts : Delegate(d, c, amount)
    BY <1>1, <2>1, <2>2, DelegateHasCause
  <2>3. CASE \E more \in Amounts : DelegatorBondMore(d, c, more)
    BY <1>1, <2>1, <2>3, BondMoreHasCause
  <2>4. CASE ExecuteDelegationRequest(d, c)
    BY <2>1, <2>4, ExecuteRequestHasCause
  <2>5. CASE \/ ScheduleRevokeDelegation(d, c) \/ CancelDelegationRequest(d, c)
             \/ \E less \in Amounts : ScheduleDelegatorBondLess(d, c, less)
    BY <1>1, <2>1, <2>5, RequestCallsKeepBonds, SameBondsHaveCause
  <2> QED BY <1>4, <2>2, <2>3, <2>4, <2>5 DEF DelegationCall
<1>5. ASSUME NEW d \in Backers, DelegatorCall(d) PROVE HasCause(x, y)
  <2>1. d \in Account
    BY <1>1
  <2>2. CASE ExecuteLeaveDelegators(d)
    BY <2>1, <2>2, LeaveHasCause
  <2>3. CASE ScheduleLeaveDelegators(d) \/ CancelLeaveDelegators(d)
    BY <1>1, <2>1, <2>3, RequestCallsKeepBonds, SameBondsHaveCause
  <2> QED BY <1>5, <2>2, <2>3 DEF DelegatorCall
<1>6. CASE NextRound \/ UNCHANGED vars
  <2>1. UNCHANGED delegator
    BY <1>6 DEF NextRound, vars
  <2> QED BY <1>2, <2>1
<1> QED BY <1>3, <1>4, <1>5, <1>6 DEF Next, Call

(***************************************************************************)
(* No step takes stake from a delegation but one its owner asked for and   *)
(* waited for, its collator's due exit, or a strictly greater bid on a     *)
(* full book.                                                              *)
(***************************************************************************)
THEOREM StakeIsOnlyTakenWithCause == Spec => StakeIsTakenWithCause
<1>1. ASSUME IInv, Coherent, [Next]_vars
      PROVE  \A d \in DOMAIN delegator : \A c \in DOMAIN delegator[d].bonds : HasCause(d, c)
  BY <1>1, StepHasCause DEF Backed
<1> QED BY <1>1, LedgerStaysCoherent, PTL DEF Spec, StakeIsTakenWithCause

-----------------------------------------------------------------------------
(* Stake is covered *)

\* Nobody has more locked than there is in the account.
Covered(lock) == \A a \in Account : lock[a] <= FreeBalance[a]
LocksAreCovered == Covered(collatorLock) /\ Covered(delegatorLock)

\* What is left of a covered lock is covered, and so is what grows by no more than is free.
LEMMA CoveredBySub ==
    ASSUME NEW old \in Nat, NEW free \in Nat, NEW x \in Nat, old <= free
    PROVE  /\ Sub(old, x) <= free
           /\ x <= Sub(free, old) => old + x <= free
BY DEF Sub

\* One lock is written.
LEMMA CoveredWritten ==
    ASSUME NEW lock \in [Account -> Nat], Covered(lock), NEW a, NEW v,
           a \in Account => v <= FreeBalance[a]
    PROVE  Covered([lock EXCEPT ![a] = v])
BY DEF Covered

\* A delegator's total after a bond and a request are struck from its record.
LEMMA StruckTotal ==
    ASSUME NEW ds, IsDelegatorState(ds), NEW d, NEW c
    PROVE  /\ WithoutRequest(WithoutBond(ds, c), d, c).total = WithoutBond(ds, c).total
           /\ \E x \in Nat : WithoutBond(ds, c).total = Sub(ds.total, x)
<1> DEFINE rest == WithoutBond(ds, c)
           less == Sub(rest.lessTotal, SumOf([r \in RequestsFrom(d, c) |-> r.amount]))
<1>1. /\ ds \in [bonds : {ds.bonds}, total : Nat, lessTotal : Nat]
      /\ IsStorageMap(ds.bonds, Account, Nat)
  BY DEF IsDelegatorState
<1>2. \E x \in Nat : rest.total = Sub(ds.total, x)
  <2>1. CASE c \in DOMAIN ds.bonds
    <3>1. ds.bonds[c] \in Nat
      BY <1>1, <2>1 DEF IsStorageMap
    <3>2. rest.total = Sub(ds.total, ds.bonds[c])
      BY <1>1, <2>1 DEF WithoutBond
    <3> QED BY <3>1, <3>2
  <2>2. CASE c \notin DOMAIN ds.bonds
    <3>1. rest.total = Sub(ds.total, 0)
      BY <1>1, <2>2 DEF WithoutBond, Sub
    <3> QED BY <3>1
  <2> QED BY <2>1, <2>2
<1>3. WithoutRequest(rest, d, c).total = rest.total
  <2>1. IsDelegatorState(rest)
    BY WithoutBondType
  <2>2. rest \in [bonds : {rest.bonds}, total : Nat, lessTotal : Nat]
    BY <2>1 DEF IsDelegatorState
  <2>3. WithoutRequest(rest, d, c) = [rest EXCEPT !.lessTotal = less]
    BY DEF WithoutRequest
  <2> HIDE DEF rest, less
  <2> QED BY <2>2, <2>3
<1> QED BY <1>2, <1>3

\* A candidate's calls lock what is free of its account, and never more.
LEMMA SelfBondCallsCovered ==
    ASSUME IInv, Coherent, LocksAreCovered, NEW c \in Account, NEW amount \in Nat,
           \/ JoinCandidates(c, amount) \/ CandidateBondMore(c, amount)
           \/ ExecuteCandidateBondLess(c)
    PROVE  LocksAreCovered'
<1>1. /\ FreeBalance[c] \in Nat /\ collatorLock \in [Account -> Nat]
      /\ collatorLock[c] \in Nat /\ collatorLock[c] <= FreeBalance[c]
  BY AmountsAssumption DEF IInv, BalancesInOrder, LocksAreCovered, Covered
<1>2. c \in DOMAIN candidate => candidate[c].bond = collatorLock[c]
  BY DEF Coherent, SelfBondsStand, SelfBondIsLocked
<1>3. SUFFICES ASSUME NEW v, collatorLock' = [collatorLock EXCEPT ![c] = v],
                      UNCHANGED delegatorLock
               PROVE  v <= FreeBalance[c]
  <2>1. /\ \E v : collatorLock' = [collatorLock EXCEPT ![c] = v]
        /\ UNCHANGED delegatorLock
    BY DEF JoinCandidates, CandidateBondMore, ExecuteCandidateBondLess
  <2>2. PICK v : collatorLock' = [collatorLock EXCEPT ![c] = v]
    BY <2>1
  <2>3. v <= FreeBalance[c]
    BY <1>3, <2>1, <2>2
  <2>4. Covered(collatorLock')
    BY <1>1, <2>2, <2>3, CoveredWritten DEF LocksAreCovered
  <2> QED BY <2>1, <2>4 DEF LocksAreCovered
<1>4. collatorLock'[c] = v
  BY <1>1, <1>3
<1>5. CASE JoinCandidates(c, amount)
  <2>1. collatorLock' = [collatorLock EXCEPT ![c] = amount] /\ FreeBalance[c] >= amount
    BY <1>5 DEF JoinCandidates, CollatorStakable, IsCandidate
  <2>2. collatorLock'[c] = amount
    BY <1>1, <2>1
  <2> QED BY <1>1, <1>4, <2>1, <2>2
<1>6. CASE CandidateBondMore(c, amount)
  <2>1. /\ c \in DOMAIN candidate
        /\ collatorLock' = [collatorLock EXCEPT ![c] = candidate[c].bond + amount]
        /\ Sub(FreeBalance[c], candidate[c].bond) >= amount
    BY <1>6 DEF CandidateBondMore, CollatorStakable, IsCandidate
  <2>2. Sub(FreeBalance[c], collatorLock[c]) >= amount /\ v = collatorLock[c] + amount
    BY <1>1, <1>2, <1>4, <2>1
  <2>3. Sub(FreeBalance[c], collatorLock[c]) \in Nat
    BY <1>1, SubInNat
  <2>4. amount <= Sub(FreeBalance[c], collatorLock[c])
    BY <2>2, <2>3
  <2> QED BY <1>1, <2>2, <2>4, CoveredBySub
<1>7. CASE ExecuteCandidateBondLess(c)
  <2> DEFINE book == candidate[c]
             less == book.bondLess.amount
  <2>1. /\ c \in DOMAIN candidate
        /\ collatorLock' = [collatorLock EXCEPT ![c] = WithLessBond(book).bond]
    BY <1>7 DEF ExecuteCandidateBondLess, IsCandidate
  <2>2. CandidateInv(book)
    BY <2>1 DEF IInv, CandidatesInOrder
  <2>3. less \in Nat /\ book \in Book
    BY <2>2, BookParts
  <2>4. WithLessBond(book).bond = Sub(book.bond, less)
    BY <2>3 DEF WithLessBond, Book
  <2>5. v = Sub(collatorLock[c], less)
    BY <1>1, <1>2, <1>4, <2>1, <2>4
  <2> QED BY <1>1, <2>3, <2>5, CoveredBySub
<1> QED BY <1>5, <1>6, <1>7

\* A delegator's total is locked, and covered.
LEMMA TotalIsCovered ==
    ASSUME IInv, Coherent, LocksAreCovered, NEW d \in DOMAIN delegator
    PROVE  /\ d \in Account /\ IsDelegatorState(delegator[d])
           /\ delegator[d].total \in Nat /\ FreeBalance[d] \in Nat
           /\ delegator[d].total <= FreeBalance[d]
           /\ \A x \in Nat : Sub(delegator[d].total, x) <= FreeBalance[d]
<1>1. d \in Account /\ IsDelegatorState(delegator[d]) /\ delegator[d].total \in Nat
  BY DelegatorFields DEF IInv, DelegatorsInOrder
<1>2. delegatorLock[d] = delegator[d].total
  BY <1>1 DEF Coherent, LedgerAgrees, StakeIsLocked
<1>3. FreeBalance[d] \in Nat /\ delegator[d].total <= FreeBalance[d]
  BY <1>1, <1>2, AmountsAssumption DEF LocksAreCovered, Covered
<1> HIDE DEF LocksAreCovered
<1> QED BY <1>1, <1>3, CoveredBySub

\* ... and so is what is left of it without some of its bonds.
LEMMA RestIsCovered ==
    ASSUME IInv, Coherent, LocksAreCovered, NEW d \in DOMAIN delegator, NEW c
    PROVE  /\ WithoutBond(delegator[d], c).total <= FreeBalance[d]
           /\ WithoutRequest(WithoutBond(delegator[d], c), d, c).total <= FreeBalance[d]
<1>1. IsDelegatorState(delegator[d]) /\ \A x \in Nat : Sub(delegator[d].total, x) <= FreeBalance[d]
  BY TotalIsCovered
<1>2. \E x \in Nat : WithoutBond(delegator[d], c).total = Sub(delegator[d].total, x)
  BY <1>1, StruckTotal
<1>3. WithoutBond(delegator[d], c).total <= FreeBalance[d]
  BY <1>1, <1>2
<1> QED BY <1>1, <1>3, StruckTotal

\* A new bond is of what is free.
LEMMA JoinedIsCovered ==
    ASSUME IInv, Coherent, LocksAreCovered, NEW d \in Account, NEW c, NEW amount \in Nat,
           DelegatorStakable(d) >= amount
    PROVE  WithBond(d, c, amount).total <= FreeBalance[d]
<1>1. CASE d \in DOMAIN delegator
  <2>1. IsDelegatorState(delegator[d])
    BY <1>1 DEF IInv, DelegatorsInOrder
  <2>2. WithBond(d, c, amount).total = delegator[d].total + amount
    BY <1>1, <2>1 DEF WithBond, IsDelegator, IsDelegatorState
  <2>3. Sub(FreeBalance[d], delegator[d].total) >= amount
    BY <1>1 DEF DelegatorStakable, IsDelegator
  <2>4. /\ delegator[d].total \in Nat /\ FreeBalance[d] \in Nat
        /\ delegator[d].total <= FreeBalance[d]
    BY <1>1, TotalIsCovered
  <2>5. amount <= Sub(FreeBalance[d], delegator[d].total)
    <3>1. Sub(FreeBalance[d], delegator[d].total) \in Nat
      BY <2>4, SubInNat
    <3> QED BY <2>3, <3>1
  <2> QED BY <2>2, <2>4, <2>5, CoveredBySub
<1>2. CASE d \notin DOMAIN delegator
  <2>1. WithBond(d, c, amount).total = amount /\ FreeBalance[d] >= amount
    BY <1>2 DEF WithBond, DelegatorStakable, IsDelegator
  <2>2. FreeBalance[d] \in Nat
    BY AmountsAssumption
  <2> QED BY <2>1, <2>2
<1> QED BY <1>1, <1>2

LEMMA DelegateCovered ==
    ASSUME IInv, Coherent, LocksAreCovered, NEW d \in Account, NEW c, NEW amount \in Nat,
           Delegate(d, c, amount)
    PROVE  LocksAreCovered'
<1> DEFINE added == AddDelegation(candidate[c], [owner |-> d, amount |-> amount])
           kicked == {b.owner : b \in added.kicked}
           left(k) == WithoutRequest(WithoutBond(delegator[k], c), k, c)
           joined == WithBond(d, c, amount)
<1>1. /\ kicked \subseteq DOMAIN delegator /\ DelegatorStakable(d) >= amount
      /\ delegatorLock' = [x \in Account |->
            IF x = d THEN joined.total
            ELSE IF x \in kicked THEN left(x).total ELSE delegatorLock[x]]
      /\ UNCHANGED collatorLock
  BY DEF Delegate, CanBond
<1>2. joined.total <= FreeBalance[d]
  BY <1>1, JoinedIsCovered
<1>3. \A x \in kicked : left(x).total <= FreeBalance[x]
  BY <1>1, RestIsCovered
<1> HIDE DEF kicked, left, joined
<1>4. Covered(delegatorLock')
  BY <1>1, <1>2, <1>3 DEF LocksAreCovered, Covered
<1> QED BY <1>1, <1>4 DEF LocksAreCovered

LEMMA ExitCovered ==
    ASSUME IInv, Coherent, LocksAreCovered, NEW c, ExecuteLeaveCandidates(c)
    PROVE  LocksAreCovered'
<1> DEFINE book == candidate[c]
           backers == Owners(book.top.list) \cup Owners(book.bottom.list)
           returned == {d \in backers : Backs(d, c)}
           struck(d) == WithoutRequest(WithoutBond(delegator[d], c), d, c)
           left(d) == IF d \in returned THEN struck(d) ELSE delegator[d]
<1>1. /\ delegatorLock' = [d \in Account |->
            IF d \in returned THEN left(d).total
            ELSE IF d \in backers THEN 0 ELSE delegatorLock[d]]
      /\ collatorLock' = [collatorLock EXCEPT ![c] = 0]
  BY DEF ExecuteLeaveCandidates
<1>2. \A a \in Account : FreeBalance[a] \in Nat /\ 0 <= FreeBalance[a]
  BY AmountsAssumption
<1>3. \A d \in returned : left(d).total <= FreeBalance[d]
  <2>1. \A d \in returned : d \in DOMAIN delegator /\ left(d) = struck(d)
    BY DEF Backs, IsDelegator
  <2> QED BY <2>1, RestIsCovered
<1> HIDE DEF backers, returned, left
<1>4. Covered(delegatorLock')
  BY <1>1, <1>2, <1>3 DEF LocksAreCovered, Covered
<1>5. Covered(collatorLock')
  <2>1. collatorLock \in [Account -> Nat]
    BY DEF IInv, BalancesInOrder
  <2> QED BY <1>1, <1>2, <2>1, CoveredWritten DEF LocksAreCovered
<1> QED BY <1>4, <1>5 DEF LocksAreCovered

LEMMA DelegatorCallsCovered ==
    ASSUME IInv, Coherent, LocksAreCovered, NEW d \in Account, NEW c \in Account,
           NEW more \in Nat,
           \/ DelegatorBondMore(d, c, more) \/ ExecuteDelegationRequest(d, c)
           \/ ExecuteLeaveDelegators(d)
    PROVE  LocksAreCovered'
<1>1. /\ d \in DOMAIN delegator /\ UNCHANGED collatorLock
      /\ \E v : delegatorLock' = [delegatorLock EXCEPT ![d] = v]
  BY DEF DelegatorBondMore, ExecuteDelegationRequest, ExecuteRevoke, ExecuteDecrease,
         ExecuteLeaveDelegators, Backs, IsDelegator
<1>2. PICK v : delegatorLock' = [delegatorLock EXCEPT ![d] = v]
  BY <1>1
<1>3. delegatorLock \in [Account -> Nat] /\ delegatorLock'[d] = v
  BY <1>2 DEF IInv, BalancesInOrder
<1>4. /\ delegator[d].total \in Nat /\ FreeBalance[d] \in Nat
      /\ delegator[d].total <= FreeBalance[d] /\ IsDelegatorState(delegator[d])
      /\ \A x \in Nat : Sub(delegator[d].total, x) <= FreeBalance[d]
  BY <1>1, TotalIsCovered
<1>5. SUFFICES v <= FreeBalance[d]
  <2>1. Covered(delegatorLock')
    BY <1>2, <1>3, <1>5, CoveredWritten DEF LocksAreCovered
  <2> QED BY <1>1, <2>1 DEF LocksAreCovered
<1>6. CASE DelegatorBondMore(d, c, more)
  <2>1. /\ delegatorLock' = [delegatorLock EXCEPT ![d] = delegator[d].total + more]
        /\ Sub(FreeBalance[d], delegator[d].total) >= more
    BY <1>1, <1>6 DEF DelegatorBondMore, DelegatorStakable, IsDelegator
  <2>2. v = delegator[d].total + more
    BY <1>3, <2>1
  <2>3. more <= Sub(FreeBalance[d], delegator[d].total)
    <3>1. Sub(FreeBalance[d], delegator[d].total) \in Nat
      BY <1>4, SubInNat
    <3> QED BY <2>1, <3>1
  <2> QED BY <1>4, <2>2, <2>3, CoveredBySub
<1>7. CASE ExecuteDelegationRequest(d, c)
  <2>1. PICK r \in RequestsFrom(d, c) : ExecuteRevoke(d, c, r) \/ ExecuteDecrease(d, c, r)
    BY <1>7 DEF ExecuteDelegationRequest
  <2>2. r.amount \in Nat
    BY <2>1 DEF RequestsFrom, IInv, CalendarInOrder, Request
  <2>3. CASE ExecuteRevoke(d, c, r)
    <3> DEFINE fulfilled == Fulfilled(d, r)
    <3>1. delegatorLock' = [delegatorLock EXCEPT ![d] = WithoutBond(fulfilled, c).total]
      BY <2>3 DEF ExecuteRevoke
    <3>2. IsDelegatorState(fulfilled) /\ fulfilled.total = delegator[d].total
      <4>1. fulfilled = [delegator[d] EXCEPT !.lessTotal = Sub(@, r.amount)]
        BY DEF Fulfilled
      <4>2. Sub(delegator[d].lessTotal, r.amount) \in Nat
        BY <1>4, <2>2, SubInNat DEF IsDelegatorState
      <4> QED BY <1>4, <4>1, <4>2 DEF IsDelegatorState
    <3> HIDE DEF fulfilled
    <3>3. \E x \in Nat : WithoutBond(fulfilled, c).total = Sub(delegator[d].total, x)
      BY <3>2, StruckTotal
    <3>4. v = WithoutBond(fulfilled, c).total
      BY <1>3, <3>1
    <3> QED BY <1>4, <3>3, <3>4
  <2>4. CASE ExecuteDecrease(d, c, r)
    <3>1. delegatorLock' = [delegatorLock EXCEPT ![d] = Sub(delegator[d].total, r.amount)]
      BY <2>4 DEF ExecuteDecrease
    <3>2. v = Sub(delegator[d].total, r.amount)
      BY <1>3, <3>1
    <3> QED BY <1>4, <2>2, <3>2
  <2> QED BY <2>1, <2>3, <2>4
<1>8. CASE ExecuteLeaveDelegators(d)
  <2>1. delegatorLock' = [delegatorLock EXCEPT ![d] = 0]
    BY <1>8 DEF ExecuteLeaveDelegators
  <2>2. v = 0
    BY <1>3, <2>1
  <2> QED BY <1>4, <2>2
<1> QED BY <1>6, <1>7, <1>8

(***************************************************************************)
(* No step locks more of an account than it has.                           *)
(***************************************************************************)
LEMMA StepKeepsCovered ==
    ASSUME IInv, Coherent, LocksAreCovered, [Next]_vars
    PROVE  LocksAreCovered'
<1>1. /\ Joiners \subseteq Account /\ Backers \subseteq Account /\ Amounts \subseteq Nat
      /\ 0 \in Nat
  BY AccountsAssumption, AmountsAssumption
<1>2. ASSUME UNCHANGED <<collatorLock, delegatorLock>> PROVE LocksAreCovered'
  BY <1>2 DEF LocksAreCovered
<1>3. ASSUME NEW c \in Joiners, CandidateCall(c) PROVE LocksAreCovered'
  <2>1. c \in Account
    BY <1>1
  <2>2. CASE ExecuteLeaveCandidates(c)
    BY <2>2, ExitCovered
  <2>3. CASE \/ \E bond \in Amounts : JoinCandidates(c, bond)
             \/ \E more \in Amounts : CandidateBondMore(c, more)
             \/ ExecuteCandidateBondLess(c)
    BY <1>1, <2>1, <2>3, SelfBondCallsCovered
  <2>4. CASE \/ ScheduleLeaveCandidates(c) \/ CancelLeaveCandidates(c)
             \/ GoOffline(c) \/ GoOnline(c) \/ CancelCandidateBondLess(c)
             \/ \E less \in Amounts : ScheduleCandidateBondLess(c, less)
    BY <1>2, <2>4 DEF ScheduleLeaveCandidates, CancelLeaveCandidates, GoOffline, GoOnline,
       CancelCandidateBondLess, ScheduleCandidateBondLess
  <2> QED BY <1>3, <2>2, <2>3, <2>4 DEF CandidateCall
<1>4. ASSUME NEW d \in Backers, NEW c \in Joiners, DelegationCall(d, c) PROVE LocksAreCovered'
  <2>1. d \in Account /\ c \in Account
    BY <1>1
  <2>2. CASE \E amount \in Amounts : Delegate(d, c, amount)
    BY <1>1, <2>1, <2>2, DelegateCovered
  <2>3. CASE \/ \E more \in Amounts : DelegatorBondMore(d, c, more)
             \/ ExecuteDelegationRequest(d, c)
    BY <1>1, <2>1, <2>3, DelegatorCallsCovered
  <2>4. CASE \/ ScheduleRevokeDelegation(d, c) \/ CancelDelegationRequest(d, c)
             \/ \E less \in Amounts : ScheduleDelegatorBondLess(d, c, less)
    BY <1>2, <2>4 DEF ScheduleRevokeDelegation, CancelDelegationRequest,
       ScheduleDelegatorBondLess, ScheduleRequest
  <2> QED BY <1>4, <2>2, <2>3, <2>4 DEF DelegationCall
<1>5. ASSUME NEW d \in Backers, DelegatorCall(d) PROVE LocksAreCovered'
  <2>1. d \in Account
    BY <1>1
  <2>2. CASE ExecuteLeaveDelegators(d)
    BY <1>1, <2>1, <2>2, DelegatorCallsCovered
  <2>3. CASE ScheduleLeaveDelegators(d) \/ CancelLeaveDelegators(d)
    BY <1>2, <2>3 DEF ScheduleLeaveDelegators, CancelLeaveDelegators
  <2> QED BY <1>5, <2>2, <2>3 DEF DelegatorCall
<1>6. CASE NextRound \/ UNCHANGED vars
  BY <1>2, <1>6 DEF NextRound, vars
<1> QED BY <1>3, <1>4, <1>5, <1>6 DEF Next, Call

-----------------------------------------------------------------------------
(* What the abstract ledger sees *)

\* A delegation is found on its list under its owner, with its amount.
LEMMA AmountIsListed ==
    ASSUME NEW list, OneEach(list), NEW i \in DOMAIN list
    PROVE  Holds(list, list[i].owner) /\ AmountOf(list, list[i].owner) = list[i].amount
<1>1. Position(list, list[i].owner) = i
  BY DEF Position, OneEach
<1> QED BY <1>1 DEF Holds, AmountOf

\* The stakes on c by delegator, and on each candidate of C, as the records have them.
OwnStakes(dels, c) == [d \in {x \in DOMAIN dels : Backed(dels, x, c)} |-> dels[d].bonds[c]]
StakesOf(dels, C) == [c \in C |-> OwnStakes(dels, c)]

\* The self bonds of the candidates of C, as they are locked.
SelfLocked(lock, C) == [c \in C |-> lock[c]]

\* The stakes the abstract ledger sees are those of the records and the locks.
StakesAreOwn ==
    /\ SelfStake = SelfLocked(collatorLock, DOMAIN candidate)
    /\ ListedStake = StakesOf(delegator, DOMAIN candidate)

\* A list of all that is on record on c reads as the record.
LEMMA ListIsRecord ==
    ASSUME NEW list, Orderly(list), NEW dels, NEW c, Entries(list) = OnRecord(dels, c)
    PROVE  [d \in Owners(list) |-> AmountOf(list, d)] = OwnStakes(dels, c)
<1> DEFINE backers == {x \in DOMAIN dels : Backed(dels, x, c)}
<1>1. \A d : d \in backers <=> Backed(dels, d, c)
  BY DEF Backed
<1>2. \A d : BondOf(dels, d, c).owner = d
  BY DEF BondOf
<1>3. \A i \in DOMAIN list : /\ list[i] \in OnRecord(dels, c)
                             /\ AmountOf(list, list[i].owner) = list[i].amount
  BY AmountIsListed DEF Entries, Orderly
<1>4. \A i \in DOMAIN list : /\ list[i].owner \in backers
                             /\ AmountOf(list, list[i].owner) = dels[list[i].owner].bonds[c]
  BY <1>1, <1>3, OneOnRecord
<1>5. \A d \in backers : \E i \in DOMAIN list : list[i].owner = d
  <2>1. ASSUME NEW d \in backers PROVE \E i \in DOMAIN list : list[i].owner = d
    <3>1. BondOf(dels, d, c) \in Entries(list)
      BY <1>1, InRecord
    <3> QED BY <1>2, <3>1 DEF Entries
  <2> QED BY <2>1
<1> HIDE DEF backers
<1>6. Owners(list) = backers
  BY <1>4, <1>5 DEF Owners
<1>7. \A d \in backers : AmountOf(list, d) = dels[d].bonds[c]
  BY <1>4, <1>5
<1>8. OwnStakes(dels, c) = [d \in backers |-> dels[d].bonds[c]]
  BY DEF OwnStakes, backers
<1> QED BY <1>6, <1>7, <1>8

\* In an agreeing ledger the lists and the self bonds read as records and locks.
LEMMA ListsReadAsRecords ==
    ASSUME IInv, Coherent PROVE StakesAreOwn
<1>1. \A c \in DOMAIN candidate : c \in Account
  BY DEF IInv, CandidatesInOrder, IsStorageMap
<1>2. \A c \in DOMAIN candidate : candidate[c].bond = collatorLock[c]
  BY <1>1 DEF Coherent, SelfBondsStand, SelfBondIsLocked
<1>3. SelfStake = SelfLocked(collatorLock, DOMAIN candidate)
  BY <1>2 DEF SelfStake, SelfLocked
<1>4. ASSUME NEW c \in DOMAIN candidate
      PROVE  [d \in Owners(Backing(c)) |-> AmountOf(Backing(c), d)] = OwnStakes(delegator, c)
  <2>1. Ordered(candidate[c]) /\ Contents(candidate[c]) = OnRecord(delegator, c)
    BY <1>1 DEF Coherent, LedgerAgrees, BooksAreOrdered, BooksListBonds, Listed
  <2>2. Orderly(Backing(c)) /\ Entries(Backing(c)) = OnRecord(delegator, c)
    BY <2>1, OneRanking DEF Backing
  <2> QED BY <2>2, ListIsRecord
<1>5. ListedStake = StakesOf(delegator, DOMAIN candidate)
  BY <1>4 DEF ListedStake, StakesOf
<1> QED BY <1>3, <1>5 DEF StakesAreOwn

\* The stakes on a candidate: finitely many balances, those of its book.
LEMMA OwnStakesType ==
    ASSUME IInv, NEW c
    PROVE  LET stakes == OwnStakes(delegator, c) IN
           /\ IsFiniteSet(DOMAIN stakes)
           /\ stakes \in [DOMAIN stakes -> Nat]
           /\ Cardinality(DOMAIN stakes) = Cardinality(OnRecord(delegator, c))
<1>1. IsFiniteSet(DOMAIN delegator)
  BY FS_Subset, AccountsAssumption DEF IInv, DelegatorsInOrder
<1> DEFINE backers == {d \in DOMAIN delegator : c \in DOMAIN delegator[d].bonds}
           stakes == OwnStakes(delegator, c)
<1>2. DOMAIN stakes = backers
  BY DEF OwnStakes, Backed
<1>3. IsFiniteSet(backers) /\ Cardinality(backers) = Cardinality(OnRecord(delegator, c))
  BY <1>1, BackersCounted
<1>4. \A d \in DOMAIN stakes : stakes[d] \in Nat
  BY StakeOnType DEF OwnStakes
<1>5. stakes \in [DOMAIN stakes -> Nat]
  <2>1. stakes = [d \in DOMAIN stakes |-> stakes[d]]
    BY DEF OwnStakes
  <2> HIDE DEF stakes
  <2> QED BY <1>4, <2>1
<1> QED BY <1>2, <1>3, <1>5

-----------------------------------------------------------------------------
(* Ranks are the greatest stakes *)

\* Finitely many values between two bounds add up to between as many times the bounds.
LEMMA SumBetween ==
    ASSUME NEW f, IsFiniteSet(DOMAIN f), f \in [DOMAIN f -> Nat], NEW v \in Nat
    PROVE  /\ Cardinality(DOMAIN f) \in Nat /\ v * Cardinality(DOMAIN f) \in Nat
           /\ (\A k \in DOMAIN f : f[k] <= v) => SumOf(f) <= v * Cardinality(DOMAIN f)
           /\ (\A k \in DOMAIN f : v <= f[k]) => v * Cardinality(DOMAIN f) <= SumOf(f)
<1> DEFINE D == DOMAIN f
           ones == Marked(D, D)
           all == Scaled(ones, v)
<1>1. ones \in [D -> Nat] /\ SumOf(ones) = Cardinality(D)
  <2>1. D \in SUBSET D
    OBVIOUS
  <2>2. SumOf(ones) = Cardinality(D)
    BY <2>1, SumOfMarks
  <2> QED BY <2>2 DEF Marked
<1>2. SumOf(all) = v * Cardinality(D)
  <2> HIDE DEF D, ones
  <2>1. IsFiniteSet(D)
    BY DEF D
  <2> QED BY <1>1, <2>1, SumOfScaled
<1>3. DOMAIN all = D /\ \A k \in D : all[k] = v
  BY DEF Scaled, Marked
<1>4. all \in [D -> Nat]
  BY DEF Scaled, Marked
<1>5. Cardinality(D) \in Nat
  BY FS_CardinalityType
<1> HIDE DEF all, ones
<1>6. (\A k \in DOMAIN f : f[k] <= v) => SumOf(f) <= SumOf(all)
  BY <1>3, <1>4, SumOfLess
<1>7. (\A k \in DOMAIN f : v <= f[k]) => SumOf(all) <= SumOf(f)
  BY <1>3, <1>4, SumOfLess
<1> QED BY <1>2, <1>5, <1>6, <1>7

\* What a set of delegators stakes together.
Sum(f, S) == SumOf([x \in S |-> f[x]])

\* Parts of a map, and sums over them.
LEMMA SumOfSet ==
    ASSUME NEW f, IsFiniteSet(DOMAIN f), f \in [DOMAIN f -> Nat], NEW S, S \subseteq DOMAIN f
    PROVE  /\ IsFiniteSet(S) /\ Cardinality(S) \in Nat
           /\ Sum(f, S) \in Nat
           /\ \A T : T \subseteq S => Sum(f, S) = Sum(f, T) + Sum(f, S \ T)
           /\ \A T : T \subseteq S => Sum(f, T) <= Sum(f, S)
           /\ \A v \in Nat :
                /\ v * Cardinality(S) \in Nat
                /\ (\A k \in S : f[k] <= v) => Sum(f, S) <= v * Cardinality(S)
                /\ (\A k \in S : v <= f[k]) => v * Cardinality(S) <= Sum(f, S)
<1> DEFINE g == [x \in S |-> f[x]]
<1>1. IsFiniteSet(S) /\ Cardinality(S) \in Nat
  BY FS_Subset, FS_CardinalityType
<1>2. DOMAIN g = S /\ g \in [S -> Nat] /\ Sum(f, S) = SumOf(g) /\ \A k \in S : g[k] = f[k]
  BY DEF Sum
<1>3. SumOf(g) \in Nat
  <2> HIDE DEF g
  <2> QED BY <1>1, <1>2, SumInNat
<1>4. ASSUME NEW T, T \subseteq S PROVE Sum(f, S) = Sum(f, T) + Sum(f, S \ T)
  <2> DEFINE R == S \ T
  <2>1. S = T \cup R /\ T \cap R = {}
    BY <1>4
  <2>2. SumOf(g) = SumOf([x \in T |-> g[x]]) + SumOf([x \in R |-> g[x]])
    <3> HIDE DEF g, R
    <3> QED BY <1>1, <1>2, <2>1, SumOfParts
  <2>3. [x \in T |-> g[x]] = [x \in T |-> f[x]] /\ [x \in R |-> g[x]] = [x \in R |-> f[x]]
    BY <1>4
  <2> QED BY <1>2, <2>2, <2>3 DEF Sum
<1>5. ASSUME NEW T, T \subseteq S PROVE Sum(f, T) <= Sum(f, S)
  <2> DEFINE h == [x \in T |-> f[x]]
  <2>1. h \in [DOMAIN h -> Nat] /\ \A k \in DOMAIN h : k \in DOMAIN g /\ h[k] <= g[k]
    BY <1>5
  <2>2. SumOf(h) <= SumOf(g)
    <3> HIDE DEF g, h
    <3> QED BY <1>1, <1>2, <2>1, SumOfLess
  <2> QED BY <2>2 DEF Sum
<1>6. ASSUME NEW v \in Nat
      PROVE  /\ v * Cardinality(S) \in Nat
             /\ (\A k \in S : f[k] <= v) => Sum(f, S) <= v * Cardinality(S)
             /\ (\A k \in S : v <= f[k]) => v * Cardinality(S) <= Sum(f, S)
  <2> HIDE DEF g
  <2>1. /\ v * Cardinality(S) \in Nat
        /\ (\A k \in S : g[k] <= v) => SumOf(g) <= v * Cardinality(S)
        /\ (\A k \in S : v <= g[k]) => v * Cardinality(S) <= SumOf(g)
    BY <1>1, <1>2, SumBetween
  <2> QED BY <1>2, <2>1
<1> QED BY <1>1, <1>2, <1>3, <1>4, <1>5, <1>6

(***************************************************************************)
(* The greatest n values are together at least what any other n are: those *)
(* of the others among them count on both sides, and each of the rest is   *)
(* at most the least of the greatest.                                      *)
(***************************************************************************)
LEMMA GreatestSum ==
    ASSUME NEW f, IsFiniteSet(DOMAIN f), f \in [DOMAIN f -> Nat], NEW n \in Nat,
           NEW T, T \subseteq DOMAIN f, T # DOMAIN f => Cardinality(T) = n,
           \A x \in T, y \in DOMAIN f \ T : f[x] >= f[y],
           NEW S, S \subseteq DOMAIN f, Cardinality(S) <= n
    PROVE  Sum(f, S) <= Sum(f, T)
<1> DEFINE D == DOMAIN f
           new == S \ T
           old == T \ S
           both == S \cap T
<1>1. CASE T = D
  BY <1>1, SumOfSet
<1>2. CASE T # D /\ T = {}
  <2>1. IsFiniteSet(S) /\ Cardinality(S) = 0
    BY <1>2, SumOfSet, FS_EmptySet
  <2>2. S = {}
    BY <2>1, FS_EmptySet
  <2>3. Sum(f, S) \in Nat /\ S = T
    BY <1>2, <2>2, SumOfSet
  <2> QED BY <2>3
<1>3. CASE T # D /\ T # {}
  <2> DEFINE bounds == {v \in Nat : \A y \in D \ T : f[y] <= v}
  <2>1. \A x \in T : f[x] \in bounds
    OBVIOUS
  <2>2. bounds \in SUBSET Nat /\ bounds # {}
    BY <1>3, <2>1
  <2>3. \E v \in bounds : \A w \in bounds : v <= w
    <3> HIDE DEF bounds
    <3> QED BY <2>2, LeastNumber
  <2>4. PICK v \in bounds : \A w \in bounds : v <= w
    BY <2>3
  <2>5. v \in Nat /\ (\A k \in new : f[k] <= v) /\ (\A k \in old : v <= f[k])
    BY <2>1, <2>4
  <2> HIDE DEF bounds
  <2>6. /\ IsFiniteSet(S) /\ IsFiniteSet(T) /\ Cardinality(S) \in Nat /\ Cardinality(T) \in Nat
        /\ IsFiniteSet(new) /\ IsFiniteSet(old) /\ IsFiniteSet(both)
        /\ Cardinality(new) \in Nat /\ Cardinality(old) \in Nat /\ Cardinality(both) \in Nat
    <3>1. new \subseteq D /\ old \subseteq D /\ both \subseteq D
      OBVIOUS
    <3> HIDE DEF new, old, both
    <3> QED BY <3>1, SumOfSet
  <2>7. /\ Cardinality(S) = Cardinality(both) + Cardinality(new)
        /\ Cardinality(T) = Cardinality(both) + Cardinality(old)
    <3>1. S \ T = new /\ T \ S = old /\ S \cap T = both /\ T \cap S = both
      OBVIOUS
    <3>2. Cardinality(new) = Cardinality(S) - Cardinality(both)
      BY <2>6, FS_Difference
    <3>3. Cardinality(T \ S) = Cardinality(T) - Cardinality(T \cap S)
      BY <2>6, FS_Difference
    <3>4. Cardinality(old) = Cardinality(T) - Cardinality(both)
      BY <3>1, <3>3
    <3> HIDE DEF new, old, both
    <3> QED BY <2>6, <3>2, <3>4
  <2>8. Cardinality(new) <= Cardinality(old)
    <3> HIDE DEF new, old, both
    <3> QED BY <1>3, <2>6, <2>7
  <2>9. /\ Sum(f, S) = Sum(f, both) + Sum(f, new) /\ Sum(f, T) = Sum(f, both) + Sum(f, old)
        /\ Sum(f, both) \in Nat /\ Sum(f, new) \in Nat /\ Sum(f, old) \in Nat
    <3>1. /\ new = S \ both /\ old = T \ both
          /\ both \subseteq S /\ both \subseteq T
          /\ new \subseteq D /\ old \subseteq D /\ both \subseteq D
      OBVIOUS
    <3> HIDE DEF new, old, both
    <3>2. Sum(f, both) \in Nat /\ Sum(f, new) \in Nat /\ Sum(f, old) \in Nat
      BY <3>1, SumOfSet
    <3>3. \A U : U \subseteq S => Sum(f, S) = Sum(f, U) + Sum(f, S \ U)
      BY SumOfSet
    <3>4. \A U : U \subseteq T => Sum(f, T) = Sum(f, U) + Sum(f, T \ U)
      BY SumOfSet
    <3>5. Sum(f, S) = Sum(f, both) + Sum(f, S \ both)
      BY <3>1, <3>3
    <3>6. Sum(f, T) = Sum(f, both) + Sum(f, T \ both)
      BY <3>1, <3>4
    <3> QED BY <3>1, <3>2, <3>5, <3>6
  <2>10. /\ v * Cardinality(new) \in Nat /\ v * Cardinality(old) \in Nat
         /\ Sum(f, new) <= v * Cardinality(new)
         /\ v * Cardinality(old) <= Sum(f, old)
    <3>1. new \subseteq D /\ old \subseteq D
      OBVIOUS
    <3> HIDE DEF new, old, both
    <3> QED BY <2>5, <3>1, SumOfSet
  <2>11. v * Cardinality(new) <= v * Cardinality(old)
    <3>1. ASSUME NEW i \in Nat, NEW j \in Nat, i <= j PROVE v * i <= v * j
      BY <2>5, <3>1
    <3> QED BY <2>6, <2>8, <3>1
  <2> HIDE DEF new, old, both
  <2> QED BY <2>9, <2>10, <2>11
<1> QED BY <1>1, <1>2, <1>3

\* The abstract ledger has the same storage maps and sums.
LEMMA LedgerMaps ==
    /\ \A f, k, v : Ledger!Put(f, k, v) = Put(f, k, v)
    /\ \A f, k : Ledger!Drop(f, k) = Drop(f, k)
    /\ \A f, S : Ledger!SumOf(Ledger!Restricted(f, S)) = Sum(f, S)
    /\ Ledger!NoEntries = NoEntries
<1>1. \A f, k, v : Ledger!Put(f, k, v) = Put(f, k, v)
  BY DEF Ledger!Put, Put
<1>2. \A f, k : Ledger!Drop(f, k) = Drop(f, k)
  BY DEF Ledger!Drop, Drop
<1>3. \A f : Ledger!SumOf(f) = SumOf(f)
  BY Zenon DEF SumOf, Units, Cardinality, Ledger!SumOf, Ledger!Units, Ledger!Cardinality
<1>4. \A f, S : Ledger!Restricted(f, S) = [x \in S |-> f[x]]
  BY DEF Ledger!Restricted
<1>5. \A f, S : Ledger!SumOf(Ledger!Restricted(f, S)) = Sum(f, S)
  BY <1>3, <1>4 DEF Sum
<1>6. Ledger!NoEntries = NoEntries
  BY DEF Ledger!NoEntries, NoEntries
<1> QED BY <1>1, <1>2, <1>5, <1>6

\* The MaxTop greatest stakes make the greatest sum of as many.
LEMMA TopStakeIs ==
    ASSUME NEW f, IsFiniteSet(DOMAIN f), f \in [DOMAIN f -> Nat],
           NEW T, T \subseteq DOMAIN f, Cardinality(T) <= MaxTop,
           T # DOMAIN f => Cardinality(T) = MaxTop,
           \A x \in T, y \in DOMAIN f \ T : f[x] >= f[y]
    PROVE  Ledger!TopStake(f) = Sum(f, T)
<1> DEFINE few == {S \in SUBSET DOMAIN f : Cardinality(S) <= MaxTop}
           sums == {Sum(f, S) : S \in few}
<1>1. Sum(f, T) \in sums
  OBVIOUS
<1>2. \A S \in few : Sum(f, S) \in Nat /\ Sum(f, S) <= Sum(f, T)
  <2>1. MaxTop \in Nat
    BY CapacitiesPositive
  <2>2. ASSUME NEW S \in few PROVE Sum(f, S) \in Nat /\ Sum(f, S) <= Sum(f, T)
    <3>1. S \subseteq DOMAIN f /\ Cardinality(S) <= MaxTop
      OBVIOUS
    <3>2. Sum(f, S) \in Nat
      BY <3>1, SumOfSet
    <3>3. Sum(f, S) <= Sum(f, T)
      BY <2>1, <3>1, GreatestSum
    <3> QED BY <3>2, <3>3
  <2> QED BY <2>2
<1>3. \A s \in sums : s \in Nat /\ s <= Sum(f, T)
  BY <1>2
<1>4. Ledger!TopStake(f) = Ledger!Max(sums)
  <2>1. {Ledger!SumOf(Ledger!Restricted(f, S)) : S \in few} = sums
    BY LedgerMaps
  <2>2. \A S : Ledger!Cardinality(S) = Cardinality(S)
    BY Zenon DEF Ledger!Cardinality, Cardinality
  <2>3. {S \in SUBSET DOMAIN f : Ledger!Cardinality(S) <= MaxTop} = few
    BY <2>2
  <2>4. Ledger!TopStake(f) = Ledger!Max({Ledger!SumOf(Ledger!Restricted(f, S)) :
                S \in {S \in SUBSET DOMAIN f : Ledger!Cardinality(S) <= MaxTop}})
    BY DEF Ledger!TopStake
  <2> QED BY <2>1, <2>3, <2>4
<1> HIDE DEF sums
<1>5. Ledger!Max(sums) = Sum(f, T)
  <2>1. Ledger!Max(sums) = CHOOSE x \in sums : \A y \in sums : x >= y
    BY DEF Ledger!Max
  <2>2. \E x \in sums : \A y \in sums : x >= y
    BY <1>1, <1>3
  <2>3. Ledger!Max(sums) \in sums /\ \A y \in sums : Ledger!Max(sums) >= y
    BY <2>1, <2>2
  <2> QED BY <1>1, <1>3, <2>3
<1> QED BY <1>4, <1>5

\* The top list of a book is such a greatest part of what is on record on its candidate.
LEMMA TopListIsTop ==
    ASSUME NEW book, Ordered(book), NEW dels, NEW c, Contents(book) = OnRecord(dels, c),
           NEW f, f = OwnStakes(dels, c), IsFiniteSet(DOMAIN f), f \in [DOMAIN f -> Nat]
    PROVE  Ledger!TopStake(f) = StakeOf(Entries(book.top.list))
<1> DEFINE top == Entries(book.top.list)
           below == Entries(book.bottom.list)
           T == {e.owner : e \in top}
           g == [d \in T |-> f[d]]
           h == [d \in T |-> BondOf(dels, d, c)]
           amounts == [e \in top |-> e.amount]
<1>1. /\ top \subseteq OnRecord(dels, c) /\ below \subseteq OnRecord(dels, c)
      /\ OnRecord(dels, c) = top \cup below
      /\ IsFiniteSet(top) /\ top \subseteq Bond /\ Cardinality(top) <= MaxTop
      /\ below # {} => Cardinality(top) = MaxTop
      /\ \A a \in top, b \in below : a.owner # b.owner /\ a.amount >= b.amount
  BY OrderedParts DEF Contents
<1>2. /\ \A d : d \in DOMAIN f <=> Backed(dels, d, c)
      /\ \A d \in DOMAIN f : f[d] = dels[d].bonds[c]
  BY DEF OwnStakes, Backed
<1>3. \A e \in OnRecord(dels, c) :
        e.owner \in DOMAIN f /\ e = BondOf(dels, e.owner, c) /\ e.amount = f[e.owner]
  BY <1>2, OneOnRecord
<1>4. \A d \in DOMAIN f :
        /\ BondOf(dels, d, c) \in OnRecord(dels, c)
        /\ BondOf(dels, d, c).owner = d /\ BondOf(dels, d, c).amount = f[d]
  BY <1>2, InRecord DEF BondOf
<1> HIDE DEF top, below
<1>5. T \subseteq DOMAIN f
  BY <1>1, <1>3
<1>6. \A d \in T : BondOf(dels, d, c) \in top
  BY <1>1, <1>3
<1>7. \A d \in DOMAIN f \ T : BondOf(dels, d, c) \in below
  <2>1. ASSUME NEW d \in DOMAIN f \ T PROVE BondOf(dels, d, c) \in below
    <3>1. BondOf(dels, d, c) \in top \cup below
      BY <1>1, <1>4
    <3>2. BondOf(dels, d, c) \notin top
      BY <1>4
    <3> QED BY <3>1, <3>2
  <2> QED BY <2>1
<1>8. h \in Bijection(T, top)
  <2>1. h \in [T -> top]
    BY <1>6
  <2>2. \A x, y \in T : h[x] = h[y] => x = y
    BY <1>4, <1>5
  <2>3. \A e \in top : e.owner \in T /\ e = BondOf(dels, e.owner, c)
    BY <1>1, <1>3
  <2>4. \A e \in top : \E d \in T : h[d] = e
    BY <2>3
  <2> HIDE DEF h
  <2> QED BY <2>1, <2>2, <2>4 DEF Bijection, Injection, Surjection, IsInjective
<1>9. IsFiniteSet(T) /\ Cardinality(T) = Cardinality(top)
  <2>1. IsFiniteSet(T)
    BY <1>5, FS_Subset
  <2> HIDE DEF T
  <2> QED BY <1>8, <2>1, FS_Bijection DEF ExistsBijection
<1>10. T # DOMAIN f => Cardinality(T) = MaxTop
  <2>1. ASSUME T # DOMAIN f PROVE below # {}
    BY <1>5, <1>7, <2>1
  <2> QED BY <1>1, <1>9, <2>1
<1>11. \A x \in T, y \in DOMAIN f \ T : f[x] >= f[y]
  <2>1. ASSUME NEW x \in T, NEW y \in DOMAIN f \ T PROVE f[x] >= f[y]
    <3>1. BondOf(dels, x, c).amount >= BondOf(dels, y, c).amount
      BY <1>1, <1>6, <1>7
    <3> QED BY <1>4, <1>5, <3>1
  <2> QED BY <2>1
<1>12. Ledger!TopStake(f) = Sum(f, T)
  <2> HIDE DEF T
  <2> QED BY <1>1, <1>5, <1>9, <1>10, <1>11, TopStakeIs
<1>13. SumOf(amounts) = SumOf(g)
  <2>1. DOMAIN g = T /\ DOMAIN amounts = top /\ g \in [T -> Nat]
    BY <1>5
  <2>2. \A d \in T : amounts[h[d]] = g[d]
    BY <1>4, <1>5, <1>6
  <2> HIDE DEF g, h, amounts, T
  <2> QED BY <1>8, <1>9, <2>1, <2>2, SumOfRenamed
<1>14. StakeOf(top) = SumOf(amounts) /\ Sum(f, T) = SumOf(g)
  BY DEF StakeOf, Sum
<1> QED BY <1>12, <1>13, <1>14 DEF top

\* The pool ranks each active candidate by its self bond and the greatest stakes on it.
RanksAreTop ==
    /\ pool = [c \in DOMAIN pool |-> SelfStake[c] + Ledger!TopStake(ListedStake[c])]
    /\ DOMAIN pool = {c \in DOMAIN candidate : candidate[c].status = "Active"}

(***************************************************************************)
(* A candidate's counted stake is its self bond and its top total, and the *)
(* top list is the greatest part of what is on record.                     *)
(***************************************************************************)
LEMMA PoolRanksByTop ==
    ASSUME IInv, Coherent, PoolIsCurrent PROVE RanksAreTop
<1>1. DOMAIN pool = {c \in DOMAIN candidate : candidate[c].status = "Active"}
  BY DEF PoolIsCurrent
<1>2. \A c \in DOMAIN pool : pool[c] = candidate[c].counted
  BY DEF PoolIsCurrent
<1>3. StakesAreOwn
  BY ListsReadAsRecords
<1>4. ASSUME NEW c \in DOMAIN candidate
      PROVE  candidate[c].counted = SelfStake[c] + Ledger!TopStake(ListedStake[c])
  <2> DEFINE f == OwnStakes(delegator, c)
             book == candidate[c]
  <2>1. c \in Account
    BY DEF IInv, CandidatesInOrder, IsStorageMap
  <2>2. Ordered(book) /\ Contents(book) = OnRecord(delegator, c)
    BY <2>1 DEF Coherent, LedgerAgrees, BooksAreOrdered, BooksListBonds, Listed
  <2>3. IsFiniteSet(DOMAIN f) /\ f \in [DOMAIN f -> Nat]
    BY OwnStakesType
  <2>4. ListedStake[c] = f /\ SelfStake[c] = book.bond
    BY <1>3 DEF StakesAreOwn, StakesOf, SelfStake
  <2> HIDE DEF f, book
  <2>5. Ledger!TopStake(f) = StakeOf(Entries(book.top.list))
    BY <2>2, <2>3, TopListIsTop DEF f
  <2>6. BookInv(book) /\ Kept(book.top, 0)
    BY <2>2 DEF Ordered
  <2>7. StakeOf(Entries(book.top.list)) \in Nat
    BY <2>6, KeptParts
  <2>8. /\ book.counted = book.bond + book.top.total
        /\ book.top.total = StakeOf(Entries(book.top.list)) + 0
    BY <2>6 DEF BookInv, TopCached, Kept
  <2>9. book.counted = book.bond + StakeOf(Entries(book.top.list))
    BY <2>7, <2>8
  <2> QED BY <2>4, <2>5, <2>9 DEF book
<1>5. pool = [c \in DOMAIN pool |-> pool[c]]
  BY DEF PoolIsCurrent
<1>6. \A c \in DOMAIN pool : pool[c] = SelfStake[c] + Ledger!TopStake(ListedStake[c])
  BY <1>1, <1>2, <1>4
<1> QED BY <1>1, <1>5, <1>6 DEF RanksAreTop

-----------------------------------------------------------------------------
(* Changes of bonds, as changes of stakes *)

\* The stakes on a candidate, by delegator.
LEMMA OwnStakesAre ==
    ASSUME NEW dels, NEW c
    PROVE  /\ OwnStakes(dels, c) = [d \in DOMAIN OwnStakes(dels, c) |-> dels[d].bonds[c]]
           /\ \A d : d \in DOMAIN OwnStakes(dels, c) <=> Backed(dels, d, c)
           /\ \A d \in DOMAIN OwnStakes(dels, c) : OwnStakes(dels, c)[d] = dels[d].bonds[c]
BY DEF OwnStakes, Backed

\* Bonds that are as they were are the same stakes.
LEMMA SameStakes ==
    ASSUME NEW dels, NEW new, NEW c,
           \A d : Backed(new, d, c) <=> Backed(dels, d, c),
           \A d : Backed(dels, d, c) => new[d].bonds[c] = dels[d].bonds[c]
    PROVE  OwnStakes(new, c) = OwnStakes(dels, c)
<1>1. DOMAIN OwnStakes(new, c) = DOMAIN OwnStakes(dels, c)
  BY OwnStakesAre
<1>2. \A d \in DOMAIN OwnStakes(dels, c) : new[d].bonds[c] = dels[d].bonds[c]
  BY OwnStakesAre
<1> QED BY <1>1, <1>2, OwnStakesAre

\* One owner's bond gets another amount,
LEMMA RewrittenStakes ==
    ASSUME NEW dels, NEW new, NEW c, NEW d, NEW amount, Backed(dels, d, c),
           Rewrites(dels, new, d, c, amount)
    PROVE  OwnStakes(new, c) = Put(OwnStakes(dels, c), d, amount)
<1> DEFINE old == OwnStakes(dels, c)
           then == OwnStakes(new, c)
<1>1. DOMAIN then = DOMAIN old \cup {d}
  BY OwnStakesAre DEF Rewrites
<1>2. then[d] = amount /\ \A x \in DOMAIN then : x # d => x \in DOMAIN old /\ then[x] = old[x]
  BY OwnStakesAre DEF Rewrites
<1>3. then = [x \in DOMAIN then |-> then[x]]
  BY DEF OwnStakes
<1> HIDE DEF old, then
<1> QED BY <1>1, <1>2, <1>3 DEF Put, old, then

\* ... or one joins,
LEMMA JoinedStakes ==
    ASSUME NEW dels, NEW new, NEW c, NEW d, NEW amount,
           GivesWay(dels, new, {}, d, c, amount)
    PROVE  OwnStakes(new, c) = Put(OwnStakes(dels, c), d, amount)
<1> DEFINE old == OwnStakes(dels, c)
           then == OwnStakes(new, c)
<1>1. DOMAIN then = DOMAIN old \cup {d}
  <2>1. \A x : x \in DOMAIN then <=> x = d \/ x \in DOMAIN old
    BY OwnStakesAre DEF GivesWay
  <2> QED BY <2>1
<1>2. then[d] = amount /\ \A x \in DOMAIN then : x # d => x \in DOMAIN old /\ then[x] = old[x]
  BY OwnStakesAre DEF GivesWay
<1>3. then = [x \in DOMAIN then |-> then[x]]
  BY DEF OwnStakes
<1> HIDE DEF old, then
<1> QED BY <1>1, <1>2, <1>3 DEF Put, old, then

\* ... or one takes another's place,
LEMMA ReplacedStakes ==
    ASSUME NEW dels, NEW new, NEW c, NEW d, NEW amount, NEW k,
           GivesWay(dels, new, {k}, d, c, amount)
    PROVE  OwnStakes(new, c) = Put(Drop(OwnStakes(dels, c), k), d, amount)
<1> DEFINE old == OwnStakes(dels, c)
           then == OwnStakes(new, c)
<1>1. DOMAIN then = (DOMAIN old \ {k}) \cup {d}
  <2>1. \A x : x \in DOMAIN then <=> x = d \/ (x \in DOMAIN old /\ x # k)
    BY OwnStakesAre DEF GivesWay
  <2> QED BY <2>1
<1>2. /\ then[d] = amount
      /\ \A x \in DOMAIN then : x # d => x \in DOMAIN old /\ x # k /\ then[x] = old[x]
  BY OwnStakesAre DEF GivesWay
<1>3. then = [x \in DOMAIN then |-> then[x]]
  BY DEF OwnStakes
<1> HIDE DEF old, then
<1> QED BY <1>1, <1>2, <1>3 DEF Put, Drop, old, then

\* ... or one goes.
LEMMA LostStakes ==
    ASSUME NEW dels, NEW new, NEW c, NEW d, Loses(dels, new, {d}, c)
    PROVE  OwnStakes(new, c) = Drop(OwnStakes(dels, c), d)
<1> DEFINE old == OwnStakes(dels, c)
           then == OwnStakes(new, c)
<1>1. DOMAIN then = DOMAIN old \ {d}
  <2>1. \A x : x \in DOMAIN then <=> x \in DOMAIN old /\ x # d
    BY OwnStakesAre DEF Loses
  <2> QED BY <2>1
<1>2. \A x \in DOMAIN then : then[x] = old[x]
  BY OwnStakesAre DEF Loses
<1>3. then = [x \in DOMAIN then |-> then[x]]
  BY DEF OwnStakes
<1> HIDE DEF old, then
<1> QED BY <1>1, <1>2, <1>3 DEF Drop, old, then

\* The stakes on the other candidates are as they were.
LEMMA OtherStakes ==
    ASSUME NEW dels, NEW new, NEW c, ChangesOnly(dels, new, c), NEW C
    PROVE  /\ \A x : x # c => OwnStakes(new, x) = OwnStakes(dels, x)
           /\ StakesOf(new, C) = [StakesOf(dels, C) EXCEPT ![c] = OwnStakes(new, c)]
<1>1. ASSUME NEW x, x # c PROVE OwnStakes(new, x) = OwnStakes(dels, x)
  BY <1>1, SameStakes DEF ChangesOnly
<1>2. \A x \in C : StakesOf(new, C)[x] = [StakesOf(dels, C) EXCEPT ![c] = OwnStakes(new, c)][x]
  BY <1>1 DEF StakesOf
<1> QED BY <1>1, <1>2 DEF StakesOf

-----------------------------------------------------------------------------
(* Steps of the abstract ledger *)

LedgerStep == Ledger!Next \/ UNCHANGED Ledger!vars

InBalance(v) == v \in UNION {0 .. FreeBalance[a] : a \in Account}

\* After a step the ranks are those of what is then staked.
LEMMA RankedAfter ==
    ASSUME RanksAreTop' PROVE Ledger!Rank(DOMAIN pool')
BY DEF RanksAreTop, Ledger!Rank

\* The same stakes and the same candidates offering: the same ranks.
LEMMA NothingSeen ==
    ASSUME RanksAreTop, RanksAreTop', UNCHANGED <<SelfStake, ListedStake>>,
           DOMAIN pool' = DOMAIN pool
    PROVE  LedgerStep
<1>1. pool' = pool
  BY DEF RanksAreTop
<1> QED BY <1>1 DEF LedgerStep, Ledger!vars

\* A candidate starts or stops offering to collate.
LEMMA OfferingSeen ==
    ASSUME RanksAreTop, RanksAreTop', UNCHANGED <<SelfStake, ListedStake>>,
           NEW c \in DOMAIN SelfStake,
           DOMAIN pool' = DOMAIN pool \cup {c} \/ DOMAIN pool' = DOMAIN pool \ {c}
    PROVE  LedgerStep
<1>1. Ledger!Rank(DOMAIN pool')
  BY RankedAfter
<1>2. CASE DOMAIN pool' = DOMAIN pool
  BY <1>2, NothingSeen
<1>3. CASE DOMAIN pool' # DOMAIN pool /\ DOMAIN pool' = DOMAIN pool \cup {c}
  <2>1. Ledger!Resume(c)
    BY <1>1, <1>3 DEF Ledger!Resume
  <2> QED BY <2>1 DEF LedgerStep, Ledger!Next
<1>4. CASE DOMAIN pool' # DOMAIN pool /\ DOMAIN pool' = DOMAIN pool \ {c}
  <2>1. Ledger!StopOffering(c)
    BY <1>1, <1>4 DEF Ledger!StopOffering
  <2> QED BY <2>1 DEF LedgerStep, Ledger!Next
<1> QED BY <1>2, <1>3, <1>4

\* A candidate comes,
LEMMA EnterSeen ==
    ASSUME RanksAreTop', NEW c, c \notin DOMAIN SelfStake, NEW amount, InBalance(amount),
           SelfStake' = Put(SelfStake, c, amount),
           ListedStake' = Put(ListedStake, c, NoEntries),
           DOMAIN pool' = DOMAIN pool \cup {c}
    PROVE  LedgerStep
<1>1. Ledger!Rank(DOMAIN pool \cup {c})
  BY RankedAfter
<1>2. Ledger!Enter(c, amount)
  BY <1>1, LedgerMaps DEF Ledger!Enter
<1>3. c \in DOMAIN SelfStake' \ DOMAIN SelfStake
  BY DEF Put
<1> QED BY <1>2, <1>3 DEF LedgerStep, Ledger!Next, InBalance

\* ... or goes.
LEMMA ExitSeen ==
    ASSUME RanksAreTop, NEW c, c \in DOMAIN SelfStake, c \notin DOMAIN pool,
           SelfStake' = Drop(SelfStake, c), ListedStake' = Drop(ListedStake, c),
           UNCHANGED pool
    PROVE  LedgerStep
<1>1. Ledger!Exit(c)
  BY LedgerMaps DEF Ledger!Exit
<1>2. c \in DOMAIN SelfStake \ DOMAIN SelfStake'
  BY DEF Drop
<1> QED BY <1>1, <1>2 DEF LedgerStep, Ledger!Next

\* A self bond changes.
LEMMA RebondSeen ==
    ASSUME RanksAreTop, RanksAreTop', NEW c \in DOMAIN SelfStake, NEW amount, InBalance(amount),
           SelfStake' = [SelfStake EXCEPT ![c] = amount], UNCHANGED ListedStake,
           DOMAIN pool' = DOMAIN pool
    PROVE  LedgerStep
<1>1. CASE SelfStake' = SelfStake
  BY <1>1, NothingSeen
<1>2. CASE SelfStake' # SelfStake
  <2>1. Ledger!Rebond(c, amount)
    BY RankedAfter DEF Ledger!Rebond
  <2>2. DOMAIN SelfStake' = DOMAIN SelfStake /\ SelfStake'[c] # SelfStake[c]
    BY <1>2 DEF SelfStake
  <2>3. c \in Ledger!Rebonded
    BY <2>2 DEF Ledger!Rebonded
  <2> QED BY <2>1, <2>3 DEF LedgerStep, Ledger!Next, InBalance
<1> QED BY <1>1, <1>2

\* The stakes on one candidate change: a delegator comes, changes its stake, or takes
\* the place of one of the least.
LEMMA StakesSeen ==
    ASSUME RanksAreTop, RanksAreTop', UNCHANGED SelfStake, DOMAIN pool' = DOMAIN pool,
           NEW c \in DOMAIN ListedStake, NEW then, ListedStake' = [ListedStake EXCEPT ![c] = then],
           NEW d \in Account, NEW amount, InBalance(amount),
           LET stakes == ListedStake[c] IN
           \/ /\ d \in DOMAIN stakes
              /\ then = Put(stakes, d, amount)
           \/ /\ d \notin DOMAIN stakes
              /\ Cardinality(DOMAIN stakes) < MaxTop + MaxBottom
              /\ then = Put(stakes, d, amount)
           \/ /\ d \notin DOMAIN stakes
              /\ Cardinality(DOMAIN stakes) = MaxTop + MaxBottom
              /\ \E k \in DOMAIN stakes :
                    /\ amount > stakes[k]
                    /\ \A x \in DOMAIN stakes : stakes[x] >= stakes[k]
                    /\ then = Put(Drop(stakes, k), d, amount)
    PROVE  LedgerStep
<1>1. CASE ListedStake' = ListedStake
  BY <1>1, NothingSeen
<1>2. CASE ListedStake' # ListedStake
  <2> DEFINE stakes == ListedStake[c]
  <2>1. Ledger!Rank(DOMAIN pool)
    BY RankedAfter
  <2>2. DOMAIN ListedStake' = DOMAIN ListedStake /\ ListedStake'[c] # ListedStake[c]
    BY <1>2 DEF ListedStake
  <2>3. c \in Ledger!Restaked
    BY <2>2 DEF Ledger!Restaked
  <2>4. \A S : Ledger!Cardinality(S) = Cardinality(S)
    BY Zenon DEF Ledger!Cardinality, Cardinality
  <2>5. CASE d \in DOMAIN stakes /\ then = Put(stakes, d, amount)
    <3>1. Ledger!Restake(d, c, amount)
      BY <2>1, <2>5, LedgerMaps DEF Ledger!Restake
    <3> QED BY <2>3, <3>1 DEF LedgerStep, Ledger!Next, InBalance
  <2>6. CASE /\ d \notin DOMAIN stakes
             /\ Cardinality(DOMAIN stakes) < MaxTop + MaxBottom
             /\ then = Put(stakes, d, amount)
    <3>1. Ledger!Stake(d, c, amount)
      BY <2>1, <2>4, <2>6, LedgerMaps DEF Ledger!Stake
    <3> QED BY <2>3, <3>1 DEF LedgerStep, Ledger!Next, InBalance
  <2>7. CASE /\ d \notin DOMAIN stakes
             /\ Cardinality(DOMAIN stakes) = MaxTop + MaxBottom
             /\ \E k \in DOMAIN stakes :
                    /\ amount > stakes[k]
                    /\ \A x \in DOMAIN stakes : stakes[x] >= stakes[k]
                    /\ then = Put(Drop(stakes, k), d, amount)
    <3>1. Ledger!Outbid(d, c, amount)
      BY <2>1, <2>4, <2>7, LedgerMaps DEF Ledger!Outbid
    <3> QED BY <2>3, <3>1 DEF LedgerStep, Ledger!Next, InBalance
  <2> QED BY <2>5, <2>6, <2>7
<1> QED BY <1>1, <1>2

\* A delegator takes back what it has on some candidates.
LEMMA UnstakeSeen ==
    ASSUME RanksAreTop', UNCHANGED SelfStake, DOMAIN pool' = DOMAIN pool,
           NEW d \in Account, NEW C, C \subseteq DOMAIN ListedStake, C # {},
           \A c \in C : d \in DOMAIN ListedStake[c],
           ListedStake' = [c \in DOMAIN ListedStake |->
                IF c \in C THEN Drop(ListedStake[c], d) ELSE ListedStake[c]]
    PROVE  LedgerStep
<1>1. \A c \in C : ListedStake'[c] # ListedStake[c]
  BY DEF Drop
<1>2. \A c \in DOMAIN ListedStake \ C : ListedStake'[c] = ListedStake[c]
  OBVIOUS
<1>3. Ledger!Restaked = C
  BY <1>1, <1>2 DEF Ledger!Restaked
<1>4. Ledger!Rank(DOMAIN pool)
  BY RankedAfter
<1>5. Ledger!Unstake(d, C)
  BY <1>4, LedgerMaps DEF Ledger!Unstake
<1> QED BY <1>3, <1>5 DEF LedgerStep, Ledger!Next

-----------------------------------------------------------------------------
(* The calls, as the abstract ledger sees them *)

StakesAreBalances ==
    /\ \A a \in Account : InBalance(collatorLock[a])
    /\ \A d, c : Backed(delegator, d, c) => InBalance(delegator[d].bonds[c])

BooksHaveRoom ==
    \A c \in DOMAIN candidate :
        Cardinality(DOMAIN OwnStakes(delegator, c)) <= MaxTop + MaxBottom

\* What the invariants mean for the abstract ledger.
Seen == StakesAreOwn /\ RanksAreTop /\ StakesAreBalances /\ BooksHaveRoom

\* Two lists within their capacities hold no more than both together.
LEMMA SumsInOrder ==
    ASSUME NEW a \in Nat, NEW b \in Nat, NEW m \in Nat, NEW n \in Nat, a <= m, b <= n
    PROVE  a + b <= m + n
  OBVIOUS

\* ... and that they do mean it.
LEMMA LedgerIsSeen ==
    ASSUME IInv, Coherent, PoolIsCurrent, LocksAreCovered PROVE Seen
<1>1. StakesAreOwn /\ RanksAreTop
  BY ListsReadAsRecords, PoolRanksByTop
<1>2. ASSUME NEW a \in Account, NEW v \in Nat, v <= FreeBalance[a] PROVE InBalance(v)
  <2>1. FreeBalance[a] \in Nat
    BY AmountsAssumption
  <2>2. v \in 0 .. FreeBalance[a]
    BY <1>2, <2>1
  <2> QED BY <2>2 DEF InBalance
<1>3. ASSUME NEW a \in Account PROVE InBalance(collatorLock[a])
  <2>1. collatorLock[a] \in Nat /\ collatorLock[a] <= FreeBalance[a]
    BY DEF IInv, BalancesInOrder, LocksAreCovered, Covered
  <2> QED BY <1>2, <2>1
<1>4. ASSUME NEW d, NEW c, Backed(delegator, d, c) PROVE InBalance(delegator[d].bonds[c])
  <2> DEFINE bonds == delegator[d].bonds
             rest == SumOf(Drop(bonds, c))
  <2>1. d \in DOMAIN delegator /\ c \in DOMAIN bonds
    BY <1>4 DEF Backed
  <2>2. Sound(delegator[d])
    BY <2>1 DEF Coherent, LedgerAgrees, DelegatorsAreSound
  <2>3. IsDelegatorState(delegator[d]) /\ delegator[d].total = SumOf(bonds)
    BY <2>2 DEF Sound
  <2>4. IsFiniteSet(DOMAIN bonds) /\ bonds \in [DOMAIN bonds -> Nat]
    BY <2>3, BondsOfSound
  <2>5. d \in Account /\ delegator[d].total <= FreeBalance[d] /\ FreeBalance[d] \in Nat
    BY <2>1, TotalIsCovered
  <2> HIDE DEF bonds
  <2>6. rest \in Nat /\ SumOf(bonds) = rest + bonds[c]
    BY <2>1, <2>4, SumOfKey
  <2>7. bonds[c] \in Nat
    BY <2>1, <2>4
  <2>8. bonds[c] <= FreeBalance[d]
    <3> HIDE DEF rest
    <3> QED BY <2>3, <2>5, <2>6, <2>7
  <2> QED BY <1>2, <2>5, <2>7, <2>8 DEF bonds
<1>5. ASSUME NEW c \in DOMAIN candidate
      PROVE  Cardinality(DOMAIN OwnStakes(delegator, c)) <= MaxTop + MaxBottom
  <2> DEFINE book == candidate[c]
  <2>1. c \in Account
    BY DEF IInv, CandidatesInOrder, IsStorageMap
  <2>2. Ordered(book) /\ Contents(book) = OnRecord(delegator, c)
    BY <2>1 DEF Coherent, LedgerAgrees, BooksAreOrdered, BooksListBonds, Listed
  <2> HIDE DEF book
  <2>3. Cardinality(DOMAIN OwnStakes(delegator, c)) = Cardinality(Contents(book))
    BY <2>2, OwnStakesType
  <2>4. Cardinality(Contents(book)) = Len(book.top.list) + Len(book.bottom.list)
    BY <2>2, ContentsCount
  <2>5. /\ Len(book.top.list) <= MaxTop /\ Len(book.bottom.list) <= MaxBottom
        /\ Len(book.top.list) \in Nat /\ Len(book.bottom.list) \in Nat
    BY <2>2, OrderedParts
  <2>6. MaxTop \in Nat /\ MaxBottom \in Nat
    BY CapacitiesPositive
  <2>7. Len(book.top.list) + Len(book.bottom.list) <= MaxTop + MaxBottom
    BY <2>5, <2>6, SumsInOrder
  <2> QED BY <2>3, <2>4, <2>7
<1> QED BY <1>1, <1>3, <1>4, <1>5 DEF Seen, StakesAreBalances, BooksHaveRoom

\* Where no bond and no self bond changes, nor who is a candidate, nothing staked does.
LEMMA SameStakesSeen ==
    ASSUME StakesAreOwn, StakesAreOwn', DOMAIN candidate' = DOMAIN candidate
    PROVE  /\ UNCHANGED collatorLock => UNCHANGED SelfStake
           /\ SameBonds(delegator, delegator') => UNCHANGED ListedStake
<1>1. UNCHANGED collatorLock => UNCHANGED SelfStake
  BY DEF StakesAreOwn
<1>2. ASSUME SameBonds(delegator, delegator') PROVE UNCHANGED ListedStake
  <2>1. ASSUME NEW c PROVE OwnStakes(delegator', c) = OwnStakes(delegator, c)
    BY <1>2, SameStakes DEF SameBonds
  <2>2. StakesOf(delegator', DOMAIN candidate) = StakesOf(delegator, DOMAIN candidate)
    BY <2>1 DEF StakesOf
  <2> QED BY <2>2 DEF StakesAreOwn
<1> QED BY <1>1, <1>2

\* The calls of delegators leave the self bonds, and who offers to collate.
LEMMA CandidatesStaySeen ==
    ASSUME Seen, Seen', CandidatesStay
    PROVE  /\ DOMAIN candidate' = DOMAIN candidate
           /\ UNCHANGED SelfStake /\ DOMAIN pool' = DOMAIN pool
<1>1. DOMAIN candidate' = DOMAIN candidate /\ UNCHANGED collatorLock
  BY DEF CandidatesStay
<1>2. \A c \in DOMAIN candidate : candidate'[c].status = candidate[c].status
  BY DEF CandidatesStay, SameCandidate
<1>3. DOMAIN pool' = DOMAIN pool
  BY <1>1, <1>2 DEF Seen, RanksAreTop
<1> QED BY <1>1, <1>3, SameStakesSeen DEF Seen

\* Bonds on one candidate change: so do the stakes on it.
LEMMA OneStakeSeen ==
    ASSUME Seen, Seen', DOMAIN candidate' = DOMAIN candidate, NEW c \in DOMAIN candidate,
           ChangesOnly(delegator, delegator', c)
    PROVE  /\ c \in DOMAIN ListedStake /\ ListedStake[c] = OwnStakes(delegator, c)
           /\ ListedStake' = [ListedStake EXCEPT ![c] = OwnStakes(delegator', c)]
<1>1. ListedStake = StakesOf(delegator, DOMAIN candidate)
  BY DEF Seen, StakesAreOwn
<1>2. ListedStake' = StakesOf(delegator', DOMAIN candidate)
  BY DEF Seen, StakesAreOwn
<1>3. c \in DOMAIN ListedStake /\ ListedStake[c] = OwnStakes(delegator, c)
  BY <1>1 DEF StakesOf
<1> QED BY <1>1, <1>2, <1>3, OtherStakes

\* A delegation joins.
LEMMA DelegateSeen ==
    ASSUME IInv, Coherent, Seen, Seen', NEW d \in Account, NEW c \in Account,
           NEW amount \in Nat, Delegate(d, c, amount)
    PROVE  LedgerStep
<1> DEFINE K == KickedBy(d, c, amount)
           e == [owner |-> d, amount |-> amount]
           added == AddDelegation(candidate[c], e)
           stakes == OwnStakes(delegator, c)
           then == OwnStakes(delegator', c)
<1>1. LedgerAgrees
  BY DEF Coherent
<1>2. GivesWay(delegator, delegator', K, d, c, amount) /\ ~Backed(delegator, d, c)
  BY <1>1, DelegateAgrees
<1>3. c \in DOMAIN candidate /\ CanAdd(candidate[c], amount)
  BY DEF Delegate, IsCandidate
<1>4. Ordered(candidate[c]) /\ Contents(candidate[c]) = OnRecord(delegator, c)
  BY <1>1, <1>3 DEF LedgerAgrees, BooksAreOrdered, BooksListBonds, Listed
<1>5. e \in Bond /\ e.amount = amount /\ e.owner = d
  BY DEF Bond
<1>6. \A b \in Contents(candidate[c]) : b.owner # d
  BY <1>2, <1>4, OneOnRecord
<1>7. DOMAIN candidate' = DOMAIN candidate /\ UNCHANGED SelfStake /\ DOMAIN pool' = DOMAIN pool
  <2>1. CandidatesStay
    BY <1>1, DelegationCallsKeepCandidates
  <2> QED BY <2>1, CandidatesStaySeen
<1>8. /\ c \in DOMAIN ListedStake /\ ListedStake[c] = stakes
      /\ ListedStake' = [ListedStake EXCEPT ![c] = then]
  <2>1. ChangesOnly(delegator, delegator', c)
    BY <1>2 DEF GivesWay
  <2> QED BY <1>3, <1>7, <2>1, OneStakeSeen
<1>9. InBalance(amount)
  <2>1. Backed(delegator', d, c) /\ delegator'[d].bonds[c] = amount
    BY <1>2 DEF GivesWay
  <2> QED BY <2>1 DEF Seen, StakesAreBalances
<1>10. d \notin DOMAIN stakes
  BY <1>2, OwnStakesAre
<1> HIDE DEF e
<1>11. \/ added.kicked = {}
       \/ \E k \in Contents(candidate[c]) :
            /\ added.kicked = {k} /\ amount > k.amount
            /\ \A b \in Contents(candidate[c]) : b.amount >= k.amount
            /\ Cardinality(Contents(candidate[c])) = MaxTop + MaxBottom
  BY <1>3, <1>4, <1>5, <1>6, AddDelegationContents
<1>12. K = {b.owner : b \in added.kicked}
  BY DEF KickedBy, e
<1>13. RanksAreTop /\ RanksAreTop'
  BY DEF Seen
<1> HIDE DEF K, added, stakes, then
<1>14. CASE added.kicked = {}
  <2>1. K = {}
    BY <1>12, <1>14
  <2>2. then = Put(stakes, d, amount)
    BY <1>2, <2>1, JoinedStakes DEF stakes, then
  <2>3. IsFiniteSet(DOMAIN stakes) /\ Cardinality(DOMAIN stakes) \in Nat
    BY OwnStakesType, FS_CardinalityType DEF stakes
  <2>4. Cardinality(DOMAIN then) = Cardinality(DOMAIN stakes) + 1
    <3>1. DOMAIN then = DOMAIN stakes \cup {d}
      BY <2>2 DEF Put
    <3> QED BY <1>10, <2>3, <3>1, FS_AddElement
  <2>5. Cardinality(DOMAIN then) <= MaxTop + MaxBottom
    BY <1>3, <1>7 DEF Seen, BooksHaveRoom, then
  <2>6. Cardinality(DOMAIN stakes) < MaxTop + MaxBottom
    BY <2>3, <2>4, <2>5, CapacitiesPositive
  <2> QED BY <1>7, <1>8, <1>9, <1>10, <1>13, <2>2, <2>6, StakesSeen
<1>15. CASE added.kicked # {}
  <2>1. PICK k \in Contents(candidate[c]) :
            /\ added.kicked = {k} /\ amount > k.amount
            /\ \A b \in Contents(candidate[c]) : b.amount >= k.amount
            /\ Cardinality(Contents(candidate[c])) = MaxTop + MaxBottom
    BY <1>11, <1>15
  <2> DEFINE x == k.owner
  <2>2. K = {x}
    BY <1>12, <2>1
  <2>3. then = Put(Drop(stakes, x), d, amount)
    <3> HIDE DEF x
    <3> QED BY <1>2, <2>2, ReplacedStakes DEF stakes, then
  <2>4. x \in DOMAIN stakes /\ stakes[x] = k.amount
    BY <1>4, OneOnRecord, OwnStakesAre DEF stakes
  <2>5. \A y \in DOMAIN stakes : stakes[y] >= stakes[x]
    <3>1. ASSUME NEW y \in DOMAIN stakes PROVE stakes[y] >= stakes[x]
      <4>1. BondOf(delegator, y, c) \in Contents(candidate[c])
        BY <1>4, InRecord, OwnStakesAre DEF stakes
      <4>2. BondOf(delegator, y, c).amount = stakes[y]
        BY OwnStakesAre DEF BondOf, stakes
      <4> QED BY <2>1, <2>4, <4>1, <4>2
    <3> QED BY <3>1
  <2>6. Cardinality(DOMAIN stakes) = MaxTop + MaxBottom
    BY <1>4, <2>1, OwnStakesType DEF stakes
  <2>7. \E y \in DOMAIN stakes :
            /\ amount > stakes[y]
            /\ \A z \in DOMAIN stakes : stakes[z] >= stakes[y]
            /\ then = Put(Drop(stakes, y), d, amount)
    BY <2>1, <2>3, <2>4, <2>5
  <2> QED BY <1>7, <1>8, <1>9, <1>10, <1>13, <2>6, <2>7, StakesSeen
<1> QED BY <1>14, <1>15

\* A delegator changes what it has on a candidate.
LEMMA RewriteSeen ==
    ASSUME Coherent, Seen, Seen', NEW d \in Account, NEW c \in DOMAIN candidate, NEW amount,
           Backed(delegator, d, c), Rewrites(delegator, delegator', d, c, amount),
           CandidatesStay
    PROVE  LedgerStep
<1>1. DOMAIN candidate' = DOMAIN candidate /\ UNCHANGED SelfStake /\ DOMAIN pool' = DOMAIN pool
  BY CandidatesStaySeen
<1>2. /\ c \in DOMAIN ListedStake /\ ListedStake[c] = OwnStakes(delegator, c)
      /\ ListedStake' = [ListedStake EXCEPT ![c] = OwnStakes(delegator', c)]
  <2>1. ChangesOnly(delegator, delegator', c)
    BY DEF Rewrites
  <2> QED BY <1>1, <2>1, OneStakeSeen
<1>3. InBalance(amount)
  <2>1. Backed(delegator', d, c) /\ delegator'[d].bonds[c] = amount
    BY DEF Rewrites
  <2> QED BY <2>1 DEF Seen, StakesAreBalances
<1>4. /\ d \in DOMAIN ListedStake[c]
      /\ OwnStakes(delegator', c) = Put(ListedStake[c], d, amount)
  BY <1>2, OwnStakesAre, RewrittenStakes
<1>5. RanksAreTop /\ RanksAreTop'
  BY DEF Seen
<1> QED BY <1>1, <1>2, <1>3, <1>4, <1>5, StakesSeen

\* A due request is executed.
LEMMA ExecuteRequestSeen ==
    ASSUME IInv, Coherent, Seen, Seen', NEW d \in Account, NEW c \in Account,
           ExecuteDelegationRequest(d, c)
    PROVE  LedgerStep
<1>1. LedgerAgrees /\ RequestsStand
  BY DEF Coherent
<1>2. d \in DOMAIN delegator
  BY DEF ExecuteDelegationRequest, IsDelegator
<1>3. PICK r \in RequestsFrom(d, c) : ExecuteRevoke(d, c, r) \/ ExecuteDecrease(d, c, r)
  BY DEF ExecuteDelegationRequest
<1>4. r.amount \in Nat /\ CanBeDone(delegator, r) /\ Backed(delegator, d, c)
  BY <1>1, <1>2, OneRequestGone
<1>5. c \in DOMAIN candidate
  BY <1>1, <1>4, BondIsListed
<1>6. CandidatesStay
  <2>1. 0 \in Nat
    OBVIOUS
  <2> QED BY <1>1, <2>1, DelegationCallsKeepCandidates
<1>7. CASE ExecuteDecrease(d, c, r)
  <2>1. Rewrites(delegator, delegator', d, c, delegator[d].bonds[c] - r.amount)
    BY <1>1, <1>4, <1>7, ExecuteDecreaseAgrees
  <2> QED BY <1>4, <1>5, <1>6, <2>1, RewriteSeen
<1>8. CASE ExecuteRevoke(d, c, r)
  <2>1. Loses(delegator, delegator', {d}, c)
    BY <1>1, <1>4, <1>8, ExecuteRevokeAgrees
  <2>2. DOMAIN candidate' = DOMAIN candidate /\ UNCHANGED SelfStake /\ DOMAIN pool' = DOMAIN pool
    BY <1>6, CandidatesStaySeen
  <2>3. /\ c \in DOMAIN ListedStake /\ ListedStake[c] = OwnStakes(delegator, c)
        /\ ListedStake' = [ListedStake EXCEPT ![c] = OwnStakes(delegator', c)]
    <3>1. ChangesOnly(delegator, delegator', c)
      BY <2>1 DEF Loses
    <3> QED BY <1>5, <2>2, <3>1, OneStakeSeen
  <2>4. OwnStakes(delegator', c) = Drop(ListedStake[c], d) /\ d \in DOMAIN ListedStake[c]
    BY <1>4, <2>1, <2>3, LostStakes, OwnStakesAre
  <2>5. ListedStake' = [x \in DOMAIN ListedStake |->
                            IF x \in {c} THEN Drop(ListedStake[x], d) ELSE ListedStake[x]]
    BY <2>3, <2>4
  <2>6. RanksAreTop'
    BY DEF Seen
  <2> QED BY <2>2, <2>3, <2>4, <2>5, <2>6, UnstakeSeen
<1> QED BY <1>3, <1>7, <1>8

\* A delegator goes, from all candidates it backs at once.
LEMMA LeaveSeen ==
    ASSUME IInv, Coherent, Seen, Seen', NEW d \in Account, ExecuteLeaveDelegators(d)
    PROVE  LedgerStep
<1> DEFINE C == {c \in DOMAIN candidate : Backed(delegator, d, c)}
<1>1. LedgerAgrees
  BY DEF Coherent
<1>2. d \in DOMAIN delegator /\ delegator' = Drop(delegator, d)
  BY <1>1, ExecuteLeaveDelegatorsAgrees
<1>3. DOMAIN candidate' = DOMAIN candidate /\ UNCHANGED SelfStake /\ DOMAIN pool' = DOMAIN pool
  <2>1. CandidatesStay
    <3>1. 0 \in Nat
      OBVIOUS
    <3> QED BY <1>1, <3>1, DelegationCallsKeepCandidates
  <2> QED BY <2>1, CandidatesStaySeen
<1>4. ListedStake = StakesOf(delegator, DOMAIN candidate)
  BY DEF Seen, StakesAreOwn
<1>5. ListedStake' = StakesOf(delegator', DOMAIN candidate)
  BY <1>3 DEF Seen, StakesAreOwn
<1>6. /\ \A x, c : Backed(delegator', x, c) <=> Backed(delegator, x, c) /\ x # d
      /\ \A x, c : Backed(delegator', x, c) => delegator'[x].bonds[c] = delegator[x].bonds[c]
  BY <1>2 DEF Drop, Backed
<1>7. ASSUME NEW c PROVE OwnStakes(delegator', c) = Drop(OwnStakes(delegator, c), d)
  <2> DEFINE old == OwnStakes(delegator, c)
             then == OwnStakes(delegator', c)
  <2>1. DOMAIN then = DOMAIN old \ {d}
    <3>1. \A x : x \in DOMAIN then <=> x \in DOMAIN old /\ x # d
      BY <1>6, OwnStakesAre
    <3> QED BY <3>1
  <2>2. \A x \in DOMAIN then : then[x] = old[x]
    BY <1>6, OwnStakesAre
  <2>3. then = [x \in DOMAIN then |-> then[x]]
    BY DEF OwnStakes
  <2> HIDE DEF old, then
  <2> QED BY <2>1, <2>2, <2>3 DEF Drop, old, then
<1>8. ASSUME NEW c \in DOMAIN candidate, c \notin C
      PROVE  OwnStakes(delegator', c) = OwnStakes(delegator, c)
  BY <1>6, <1>8, SameStakes
<1>9. ListedStake' = [c \in DOMAIN ListedStake |->
                        IF c \in C THEN Drop(ListedStake[c], d) ELSE ListedStake[c]]
  BY <1>4, <1>5, <1>7, <1>8 DEF StakesOf
<1>10. C \subseteq DOMAIN ListedStake /\ \A c \in C : d \in DOMAIN ListedStake[c]
  BY <1>4, OwnStakesAre DEF StakesOf
<1>11. C # {}
  <2>1. Sound(delegator[d])
    BY <1>1, <1>2 DEF LedgerAgrees, DelegatorsAreSound
  <2>2. PICK c : c \in DOMAIN delegator[d].bonds
    BY <2>1 DEF Sound
  <2>3. Backed(delegator, d, c)
    BY <1>2, <2>2 DEF Backed
  <2>4. c \in DOMAIN candidate
    BY <1>1, <2>3, BondIsListed
  <2> QED BY <2>3, <2>4
<1>12. RanksAreTop'
  BY DEF Seen
<1> HIDE DEF C
<1> QED BY <1>3, <1>9, <1>10, <1>11, <1>12, UnstakeSeen

\* A candidate comes: nobody backs it yet.
LEMMA JoinSeen ==
    ASSUME IInv, Coherent, Seen, Seen', NEW c \in Account, NEW amount \in Nat,
           JoinCandidates(c, amount)
    PROVE  LedgerStep
<1>1. /\ c \notin DOMAIN candidate /\ UNCHANGED delegator
      /\ collatorLock' = [collatorLock EXCEPT ![c] = amount]
      /\ candidate' = Put(candidate, c, NewBook(amount))
      /\ pool' = Put(pool, c, amount)
  BY DEF JoinCandidates, IsCandidate
<1>2. DOMAIN candidate' = DOMAIN candidate \cup {c} /\ DOMAIN pool' = DOMAIN pool \cup {c}
  BY <1>1 DEF Put
<1>3. collatorLock \in [Account -> Nat] /\ collatorLock'[c] = amount
  BY <1>1 DEF IInv, BalancesInOrder
<1>4. SelfStake' = Put(SelfStake, c, amount) /\ c \notin DOMAIN SelfStake
  <2>1. /\ SelfStake = SelfLocked(collatorLock, DOMAIN candidate)
        /\ SelfStake' = SelfLocked(collatorLock', DOMAIN candidate \cup {c})
    BY <1>2 DEF Seen, StakesAreOwn
  <2>2. \A x : x # c => collatorLock'[x] = collatorLock[x]
    BY <1>1, <1>3
  <2> QED BY <1>1, <1>3, <2>1, <2>2 DEF SelfLocked, Put
<1>5. OwnStakes(delegator, c) = NoEntries
  <2>1. OnRecord(delegator, c) = {}
    BY <1>1 DEF Coherent, LedgerAgrees, BooksListBonds, Listed
  <2>2. \A d : ~Backed(delegator, d, c)
    BY <2>1, InRecord
  <2> QED BY <2>2 DEF OwnStakes, NoEntries
<1>6. ListedStake' = Put(ListedStake, c, NoEntries)
  <2>1. /\ ListedStake = StakesOf(delegator, DOMAIN candidate)
        /\ ListedStake' = StakesOf(delegator, DOMAIN candidate \cup {c})
    BY <1>1, <1>2 DEF Seen, StakesAreOwn
  <2> QED BY <1>1, <1>5, <2>1 DEF StakesOf, Put
<1>7. InBalance(amount)
  BY <1>3 DEF Seen, StakesAreBalances
<1>8. RanksAreTop'
  BY DEF Seen
<1> QED BY <1>2, <1>4, <1>6, <1>7, <1>8, EnterSeen

\* A candidate goes, which did not offer to collate any more.
LEMMA LeaveCandidatesSeen ==
    ASSUME IInv, Coherent, Seen, Seen', NEW c \in Account, ExecuteLeaveCandidates(c)
    PROVE  LedgerStep
<1>1. /\ c \in DOMAIN candidate /\ candidate[c].status = "Leaving"
      /\ candidate' = Drop(candidate, c) /\ UNCHANGED pool
      /\ collatorLock' = [collatorLock EXCEPT ![c] = 0]
  BY DEF ExecuteLeaveCandidates, IsCandidate
<1>2. Loses(delegator, delegator', BackersOnRecord(c), c)
  BY ExecuteLeaveCandidatesAgrees DEF Coherent
<1>3. DOMAIN candidate' = DOMAIN candidate \ {c}
  BY <1>1 DEF Drop
<1>4. SelfStake' = Drop(SelfStake, c) /\ c \in DOMAIN SelfStake
  <2>1. /\ SelfStake = SelfLocked(collatorLock, DOMAIN candidate)
        /\ SelfStake' = SelfLocked(collatorLock', DOMAIN candidate \ {c})
    BY <1>3 DEF Seen, StakesAreOwn
  <2>2. \A x : x # c => collatorLock'[x] = collatorLock[x]
    BY <1>1 DEF IInv, BalancesInOrder
  <2> QED BY <1>1, <2>1, <2>2 DEF SelfLocked, Drop
<1>5. ListedStake' = Drop(ListedStake, c)
  <2>1. /\ ListedStake = StakesOf(delegator, DOMAIN candidate)
        /\ ListedStake' = StakesOf(delegator', DOMAIN candidate \ {c})
    BY <1>3 DEF Seen, StakesAreOwn
  <2>2. ChangesOnly(delegator, delegator', c)
    BY <1>2 DEF Loses
  <2>3. \A x : x # c => OwnStakes(delegator', x) = OwnStakes(delegator, x)
    BY <2>2, OtherStakes
  <2> QED BY <2>1, <2>3 DEF StakesOf, Drop
<1>6. RanksAreTop /\ c \notin DOMAIN pool
  BY <1>1 DEF Seen, RanksAreTop
<1> QED BY <1>1, <1>4, <1>5, <1>6, ExitSeen

\* A candidate's self bond is written.
LEMMA SelfBondSeen ==
    ASSUME IInv, Coherent, Seen, Seen', NEW c \in Account, NEW more \in Nat,
           CandidateBondMore(c, more) \/ ExecuteCandidateBondLess(c)
    PROVE  LedgerStep
<1>1. /\ c \in DOMAIN candidate /\ UNCHANGED delegator
      /\ \E v : collatorLock' = [collatorLock EXCEPT ![c] = v]
      /\ \E book : SetBond(c, book) /\ book.status = candidate[c].status
  <2>1. CASE CandidateBondMore(c, more)
    <3> DEFINE book == [candidate[c] EXCEPT !.bond = @ + more, !.counted = @ + more]
    <3>1. /\ c \in DOMAIN candidate /\ UNCHANGED delegator /\ SetBond(c, book)
          /\ \E v : collatorLock' = [collatorLock EXCEPT ![c] = v]
      BY <2>1 DEF CandidateBondMore, IsCandidate
    <3>2. candidate[c] \in Book
      BY <3>1, CandidateFields
    <3>3. book.status = candidate[c].status
      BY <3>2 DEF Book
    <3> HIDE DEF book
    <3> QED BY <3>1, <3>3
  <2>2. CASE ExecuteCandidateBondLess(c)
    <3> DEFINE book == WithLessBond(candidate[c])
    <3>1. /\ c \in DOMAIN candidate /\ UNCHANGED delegator /\ SetBond(c, book)
          /\ \E v : collatorLock' = [collatorLock EXCEPT ![c] = v]
      BY <2>2 DEF ExecuteCandidateBondLess, IsCandidate
    <3>2. candidate[c] \in Book
      BY <3>1, CandidateFields
    <3>3. book.status = candidate[c].status
      BY <3>2 DEF Book, WithLessBond
    <3> HIDE DEF book
    <3> QED BY <3>1, <3>3
  <2> QED BY <2>1, <2>2
<1>2. PICK v : collatorLock' = [collatorLock EXCEPT ![c] = v]
  BY <1>1
<1>3. PICK book : SetBond(c, book) /\ book.status = candidate[c].status
  BY <1>1
<1>4. DOMAIN candidate' = DOMAIN candidate
  BY <1>3 DEF SetBond
<1>5. DOMAIN pool' = DOMAIN pool
  <2>1. \A x \in DOMAIN candidate : candidate'[x].status = candidate[x].status
    BY <1>1, <1>3 DEF SetBond
  <2> QED BY <1>4, <2>1 DEF Seen, RanksAreTop
<1>6. UNCHANGED ListedStake
  <2>1. SameBonds(delegator, delegator')
    BY <1>1 DEF SameBonds
  <2> QED BY <1>4, <2>1, SameStakesSeen DEF Seen
<1>7. SelfStake' = [SelfStake EXCEPT ![c] = v] /\ c \in DOMAIN SelfStake
  <2>1. /\ SelfStake = SelfLocked(collatorLock, DOMAIN candidate)
        /\ SelfStake' = SelfLocked(collatorLock', DOMAIN candidate)
    BY <1>4 DEF Seen, StakesAreOwn
  <2>2. collatorLock'[c] = v /\ \A x : x # c => collatorLock'[x] = collatorLock[x]
    BY <1>2 DEF IInv, BalancesInOrder
  <2> QED BY <1>1, <2>1, <2>2 DEF SelfLocked
<1>8. InBalance(v)
  <2>1. collatorLock'[c] = v
    BY <1>2 DEF IInv, BalancesInOrder
  <2> QED BY <2>1 DEF Seen, StakesAreBalances
<1>9. RanksAreTop /\ RanksAreTop'
  BY DEF Seen
<1> QED BY <1>5, <1>6, <1>7, <1>8, <1>9, RebondSeen

\* The calls that touch no bond at all: a candidate may come off the pool or go back.
LEMMA NoBondSeen ==
    ASSUME Seen, Seen', DOMAIN candidate' = DOMAIN candidate, UNCHANGED collatorLock,
           SameBonds(delegator, delegator'),
           \/ DOMAIN pool' = DOMAIN pool
           \/ \E c \in DOMAIN candidate :
                DOMAIN pool' = DOMAIN pool \cup {c} \/ DOMAIN pool' = DOMAIN pool \ {c}
    PROVE  LedgerStep
<1>1. UNCHANGED <<SelfStake, ListedStake>>
  BY SameStakesSeen DEF Seen
<1>2. RanksAreTop /\ RanksAreTop' /\ DOMAIN SelfStake = DOMAIN candidate
  BY DEF Seen, SelfStake
<1>3. CASE DOMAIN pool' = DOMAIN pool
  BY <1>1, <1>2, <1>3, NothingSeen
<1>4. ASSUME NEW c \in DOMAIN candidate,
             DOMAIN pool' = DOMAIN pool \cup {c} \/ DOMAIN pool' = DOMAIN pool \ {c}
      PROVE  LedgerStep
  BY <1>1, <1>2, <1>4, OfferingSeen
<1> QED BY <1>3, <1>4

\* A candidate's status, exit and pending requests.
LEMMA MetadataSeen ==
    ASSUME Seen, Seen', NEW c, NEW less,
           \/ ScheduleLeaveCandidates(c) \/ CancelLeaveCandidates(c)
           \/ GoOffline(c) \/ GoOnline(c)
           \/ ScheduleCandidateBondLess(c, less) \/ CancelCandidateBondLess(c)
    PROVE  LedgerStep
<1>1. UNCHANGED <<delegator, collatorLock>> /\ c \in DOMAIN candidate
  BY DEF ScheduleLeaveCandidates, CancelLeaveCandidates, GoOffline, GoOnline,
     ScheduleCandidateBondLess, CancelCandidateBondLess, IsCandidate
<1>2. DOMAIN candidate' = DOMAIN candidate
  BY DEF ScheduleLeaveCandidates, CancelLeaveCandidates, GoOffline, GoOnline,
     ScheduleCandidateBondLess, CancelCandidateBondLess
<1>3. \/ pool' = pool \/ pool' = Drop(pool, c) \/ pool' = Put(pool, c, candidate[c].counted)
  BY DEF ScheduleLeaveCandidates, CancelLeaveCandidates, GoOffline, GoOnline,
     ScheduleCandidateBondLess, CancelCandidateBondLess
<1>4. \/ DOMAIN pool' = DOMAIN pool
      \/ DOMAIN pool' = DOMAIN pool \cup {c} \/ DOMAIN pool' = DOMAIN pool \ {c}
  BY <1>3 DEF Put, Drop
<1>5. SameBonds(delegator, delegator')
  BY <1>1 DEF SameBonds
<1> QED BY <1>1, <1>2, <1>4, <1>5, NoBondSeen

\* A delegator's pending requests.
LEMMA RequestsSeen ==
    ASSUME Seen, Seen', NEW d \in Account, NEW c \in Account, NEW less \in Nat,
           \/ ScheduleRevokeDelegation(d, c) \/ ScheduleDelegatorBondLess(d, c, less)
           \/ CancelDelegationRequest(d, c)
           \/ ScheduleLeaveDelegators(d) \/ CancelLeaveDelegators(d)
    PROVE  LedgerStep
<1>1. UNCHANGED <<candidate, pool, collatorLock>>
  BY DEF ScheduleRevokeDelegation, ScheduleDelegatorBondLess, ScheduleRequest,
     CancelDelegationRequest, ScheduleLeaveDelegators, CancelLeaveDelegators
<1>2. SameBonds(delegator, delegator')
  BY RequestCallsKeepBonds
<1> QED BY <1>1, <1>2, NoBondSeen

(***************************************************************************)
(* Every step of the pallet's ledger is one of the abstract ledger, or     *)
(* changes nothing the abstract ledger sees.                               *)
(***************************************************************************)
LEMMA StepImplements ==
    ASSUME IInv, Coherent, Seen, Seen', [Next]_vars PROVE LedgerStep
<1>1. /\ Joiners \subseteq Account /\ Backers \subseteq Account /\ Amounts \subseteq Nat
      /\ 0 \in Nat
  BY AccountsAssumption, AmountsAssumption
<1>2. ASSUME NEW c \in Joiners, CandidateCall(c) PROVE LedgerStep
  <2>1. c \in Account
    BY <1>1
  <2>2. CASE \E bond \in Amounts : JoinCandidates(c, bond)
    BY <1>1, <2>1, <2>2, JoinSeen
  <2>3. CASE ExecuteLeaveCandidates(c)
    BY <2>1, <2>3, LeaveCandidatesSeen
  <2>4. CASE (\E more \in Amounts : CandidateBondMore(c, more)) \/ ExecuteCandidateBondLess(c)
    BY <1>1, <2>1, <2>4, SelfBondSeen
  <2>5. CASE \/ ScheduleLeaveCandidates(c) \/ CancelLeaveCandidates(c)
             \/ GoOffline(c) \/ GoOnline(c) \/ CancelCandidateBondLess(c)
             \/ \E less \in Amounts : ScheduleCandidateBondLess(c, less)
    BY <2>5, MetadataSeen
  <2> QED BY <1>2, <2>2, <2>3, <2>4, <2>5 DEF CandidateCall
<1>3. ASSUME NEW d \in Backers, NEW c \in Joiners, DelegationCall(d, c) PROVE LedgerStep
  <2>1. d \in Account /\ c \in Account
    BY <1>1
  <2>2. CASE \E amount \in Amounts : Delegate(d, c, amount)
    BY <1>1, <2>1, <2>2, DelegateSeen
  <2>3. CASE \E more \in Amounts : DelegatorBondMore(d, c, more)
    <3>1. PICK more \in Amounts : DelegatorBondMore(d, c, more)
      BY <2>3
    <3>2. more \in Nat /\ LedgerAgrees
      BY <1>1 DEF Coherent
    <3>3. /\ Backed(delegator, d, c)
          /\ Rewrites(delegator, delegator', d, c, delegator[d].bonds[c] + more)
      BY <2>1, <3>1, <3>2, DelegatorBondMoreAgrees
    <3>4. c \in DOMAIN candidate
      BY <3>2, <3>3, BondIsListed
    <3>5. CandidatesStay
      BY <2>1, <3>1, <3>2, DelegationCallsKeepCandidates
    <3> QED BY <2>1, <3>3, <3>4, <3>5, RewriteSeen
  <2>4. CASE ExecuteDelegationRequest(d, c)
    BY <2>1, <2>4, ExecuteRequestSeen
  <2>5. CASE \/ ScheduleRevokeDelegation(d, c) \/ CancelDelegationRequest(d, c)
             \/ \E less \in Amounts : ScheduleDelegatorBondLess(d, c, less)
    BY <1>1, <2>1, <2>5, RequestsSeen
  <2> QED BY <1>3, <2>2, <2>3, <2>4, <2>5 DEF DelegationCall
<1>4. ASSUME NEW d \in Backers, DelegatorCall(d) PROVE LedgerStep
  <2>1. d \in Account
    BY <1>1
  <2>2. CASE ExecuteLeaveDelegators(d)
    BY <2>1, <2>2, LeaveSeen
  <2>3. CASE ScheduleLeaveDelegators(d) \/ CancelLeaveDelegators(d)
    BY <1>1, <2>1, <2>3, RequestsSeen
  <2> QED BY <1>4, <2>2, <2>3 DEF DelegatorCall
<1>5. CASE NextRound \/ UNCHANGED vars
  <2>1. UNCHANGED <<candidate, delegator, pool, collatorLock>>
    BY <1>5 DEF NextRound, vars
  <2>2. SameBonds(delegator, delegator')
    BY <2>1 DEF SameBonds
  <2> QED BY <2>1, <2>2, NoBondSeen
<1> QED BY <1>2, <1>3, <1>4, <1>5 DEF Next, Call

(***************************************************************************)
(* No sequence of calls locks more of an account, as a candidate or as a   *)
(* delegator, than there is in it.                                         *)
(***************************************************************************)
THEOREM LocksAreAlwaysCovered == Spec => []LocksAreCovered
<1>1. Init => LocksAreCovered
  <2>1. \A a \in Account : 0 <= FreeBalance[a]
    BY AmountsAssumption
  <2> QED BY <2>1 DEF Init, LocksAreCovered, Covered
<1>2. IInv /\ Coherent /\ LocksAreCovered /\ [Next]_vars => LocksAreCovered'
  BY StepKeepsCovered
<1> QED BY <1>1, <1>2, LedgerStaysCoherent, PTL DEF Spec

(***************************************************************************)
(* The ledger kept in candidates' books, records, caches and the pool is   *)
(* the abstract one: whatever moved between the lists, each candidate      *)
(* offering to collate is ranked by its own bond and the greatest stakes   *)
(* on it, and stakes change only as the abstract ledger lets them.         *)
(***************************************************************************)
THEOREM LedgerIsImplemented == Spec => ImplementsLedger
<1>1. Init => Ledger!Init
  <2>1. DOMAIN NoEntries = {}
    BY DEF NoEntries
  <2>2. Init => DOMAIN candidate = {} /\ pool = NoEntries
    BY <2>1 DEF Init
  <2>3. DOMAIN candidate = {} => SelfStake = NoEntries /\ ListedStake = NoEntries
    BY DEF SelfStake, ListedStake, NoEntries
  <2> QED BY <2>2, <2>3, LedgerMaps DEF Ledger!Init
<1>2. IInv /\ Coherent /\ PoolIsCurrent /\ LocksAreCovered => Seen
  BY LedgerIsSeen
<1>3. IInv /\ Coherent /\ Seen /\ Seen' /\ [Next]_vars => [Ledger!Next]_(Ledger!vars)
  BY StepImplements DEF LedgerStep
<1>4. Spec => [](IInv /\ Coherent)
  BY LedgerStaysCoherent
<1>5. Spec => []PoolIsCurrent
  BY PoolStaysCurrent
<1>6. Spec => []LocksAreCovered
  BY LocksAreAlwaysCovered
<1>7. Spec => []Seen
  BY <1>2, <1>4, <1>5, <1>6, PTL
<1>8. Spec => Ledger!Spec
  BY <1>1, <1>3, <1>4, <1>7, PTL DEF Spec, Ledger!Spec
<1> QED BY <1>8 DEF ImplementsLedger
=============================================================================
