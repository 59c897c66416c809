------------------------- MODULE CandidateBookProofs -------------------------
(***************************************************************************)
(* What the operations on a candidate's book preserve, for lists of any    *)
(* capacity: types, list sizes and everything cached from the lists.       *)
(***************************************************************************)
EXTENDS CandidateBook, StorageMapsProofs, FiniteSetTheorems, SequenceTheorems, TLAPS

-----------------------------------------------------------------------------
(* Lists *)

\* The length of two sequences put one after the other.
LEMMA Concat ==
    ASSUME NEW S, NEW s \in Seq(S), NEW t \in Seq(S), NEW m, NEW n, Len(s) = m, Len(t) = n
    PROVE  s \o t \in Seq(S) /\ Len(s \o t) = m + n
BY ConcatProperties, Zenon

\* Vec::insert, within bounds, gives a list one longer.
LEMMA InsertAtSeq ==
    ASSUME NEW S, NEW s \in Seq(S), NEW i \in 1 .. Len(s) + 1, NEW e \in S
    PROVE  /\ InsertAt(s, i, e) \in Seq(S)
           /\ Len(InsertAt(s, i, e)) = Len(s) + 1
<1> DEFINE before == SubSeq(s, 1, i - 1)
           after == SubSeq(s, i, Len(s))
<1>1. \A j \in 1 .. Len(s) : s[j] \in S
  BY ElementOfSeq
<1>2. before \in Seq(S) /\ Len(before) = i - 1
  BY <1>1, SubSeqProperties
<1>3. after \in Seq(S) /\ Len(after) = Len(s) - i + 1
  BY <1>1, SubSeqProperties
<1>4. <<e>> \in Seq(S) /\ Len(<<e>>) = 1
  OBVIOUS
<1> HIDE DEF before, after
<1>5. before \o <<e>> \in Seq(S) /\ Len(before \o <<e>>) = (i - 1) + 1
  BY <1>2, <1>4, Concat
<1>6. /\ (before \o <<e>>) \o after \in Seq(S)
      /\ Len((before \o <<e>>) \o after) = ((i - 1) + 1) + (Len(s) - i + 1)
  BY <1>3, <1>5, Concat
<1>7. ((i - 1) + 1) + (Len(s) - i + 1) = Len(s) + 1
  BY LenProperties
<1> QED BY <1>6, <1>7, Zenon DEF InsertAt, before, after

\* Vec::remove, within bounds, gives a list one shorter.
LEMMA RemoveAtSeq ==
    ASSUME NEW S, NEW s \in Seq(S), NEW i \in 1 .. Len(s)
    PROVE  /\ RemoveAt(s, i) \in Seq(S)
           /\ Len(RemoveAt(s, i)) = Len(s) - 1
<1> DEFINE before == SubSeq(s, 1, i - 1)
           after == SubSeq(s, i + 1, Len(s))
<1>1. \A j \in 1 .. Len(s) : s[j] \in S
  BY ElementOfSeq
<1>2. before \in Seq(S) /\ Len(before) = i - 1
  BY <1>1, SubSeqProperties
<1>3. after \in Seq(S) /\ Len(after) = Len(s) - i
  BY <1>1, SubSeqProperties
<1> HIDE DEF before, after
<1>4. before \o after \in Seq(S) /\ Len(before \o after) = (i - 1) + (Len(s) - i)
  BY <1>2, <1>3, Concat
<1>5. (i - 1) + (Len(s) - i) = Len(s) - 1
  BY LenProperties
<1> QED BY <1>4, <1>5, Zenon DEF RemoveAt, before, after

\* The position of an owner on the list is within the list.
LEMMA PositionInList ==
    ASSUME NEW list \in Seq(Bond), NEW who, Holds(list, who)
    PROVE  /\ Position(list, who) \in 1 .. Len(list)
           /\ AmountOf(list, who) \in Nat
           /\ Len(list) > 0
<1>1. Position(list, who) \in DOMAIN list
  BY Zenon DEF Holds, Position
<1>2. Position(list, who) \in 1 .. Len(list)
  BY <1>1, LenProperties
<1>3. list[Position(list, who)] \in Bond
  BY <1>2, ElementOfSeq, Zenon
<1>4. AmountOf(list, who) \in Nat
  BY <1>3 DEF AmountOf, Bond
<1>5. Len(list) \in Nat
  BY LenProperties
<1> QED BY <1>2, <1>4, <1>5

\* A position found by counting the delegations that stay ahead is in range.
LEMMA CountInRange ==
    ASSUME NEW n \in Nat, NEW T, T \subseteq 1 .. n
    PROVE  Cardinality(T) \in 0 .. n
<1>1. IsFiniteSet(1 .. n) /\ Cardinality(1 .. n) = n
  BY IntervalIsFinite
<1>2. IsFiniteSet(T) /\ Cardinality(T) <= n
  BY <1>1, FS_Subset
<1> QED BY <1>2, FS_CardinalityType

\* The lowest and highest amounts of a list, as cached, are balances.
LEMMA ExtremesInNat ==
    ASSUME NEW list \in Seq(Bond)
    PROVE  /\ LowestAmount(list) \in Nat
           /\ HighestAmount(list) \in Nat
<1>1. CASE list = <<>>
  BY <1>1 DEF LowestAmount, HighestAmount
<1>2. CASE list # <<>>
  <2>1. Len(list) \in 1 .. Len(list)
    BY <1>2, EmptySeq
  <2>2. Last(list) \in Bond
    BY <2>1, ElementOfSeq, Zenon DEF Last
  <2>3. Head(list) \in Bond
    BY <1>2, HeadTailProperties
  <2> QED BY <1>2, <2>2, <2>3 DEF LowestAmount, HighestAmount, Bond
<1> QED BY <1>1, <1>2

\* A list has one of the three capacities.
LEMMA CapacityType ==
    ASSUME NEW list, NEW max PROVE CapacityOf(list, max) \in Capacity
BY DEF CapacityOf, Capacity

-----------------------------------------------------------------------------
(* Delegations *)

\* insert_sorted_greatest_to_least adds one delegation at a position of the list.
LEMMA InsertSortedType ==
    ASSUME NEW dels \in Delegations, NEW bond \in Bond
    PROVE  /\ InsertSorted(dels, bond) \in Delegations
           /\ Len(InsertSorted(dels, bond).list) = Len(dels.list) + 1
<1> DEFINE ahead == {i \in DOMAIN dels.list : dels.list[i].amount >= bond.amount}
           at == Cardinality(ahead) + 1
<1>1. dels.list \in Seq(Bond) /\ dels.total \in Nat /\ bond.amount \in Nat
  BY DEF Delegations, Bond
<1>2. ahead \subseteq 1 .. Len(dels.list) /\ Len(dels.list) \in Nat
  BY <1>1, LenProperties
<1> HIDE DEF ahead
<1>3. at \in 1 .. Len(dels.list) + 1
  <2>1. Cardinality(ahead) \in 0 .. Len(dels.list)
    BY <1>2, CountInRange
  <2> QED BY <1>2, <2>1
<1> HIDE DEF at
<1>4. /\ InsertAt(dels.list, at, bond) \in Seq(Bond)
      /\ Len(InsertAt(dels.list, at, bond)) = Len(dels.list) + 1
  BY <1>1, <1>3, InsertAtSeq
<1>5. InsertSorted(dels, bond) = [list |-> InsertAt(dels.list, at, bond),
                                  total |-> dels.total + bond.amount]
  BY DEF InsertSorted, at, ahead
<1> QED BY <1>1, <1>4, <1>5 DEF Delegations

\* Taking an owner off its list removes one delegation.
LEMMA RemoveOwnerType ==
    ASSUME NEW dels \in Delegations, NEW who, Holds(dels.list, who)
    PROVE  /\ RemoveOwner(dels, who) \in Delegations
           /\ Len(RemoveOwner(dels, who).list) = Len(dels.list) - 1
           /\ Len(dels.list) > 0
<1>1. dels.list \in Seq(Bond) /\ dels.total \in Nat
  BY DEF Delegations
<1>2. Position(dels.list, who) \in 1 .. Len(dels.list) /\ Len(dels.list) > 0
  BY <1>1, PositionInList
<1>3. /\ RemoveAt(dels.list, Position(dels.list, who)) \in Seq(Bond)
      /\ Len(RemoveAt(dels.list, Position(dels.list, who))) = Len(dels.list) - 1
  BY <1>1, <1>2, RemoveAtSeq
<1>4. Sub(dels.total, AmountOf(dels.list, who)) \in Nat
  BY <1>1, SubInNat
<1> QED BY <1>2, <1>3, <1>4 DEF RemoveOwner, Delegations

\* Popping the lowest delegation off a list that is not empty removes one.
LEMMA PopLowestType ==
    ASSUME NEW dels \in Delegations, Len(dels.list) > 0
    PROVE  /\ PopLowest(dels) \in Delegations
           /\ Len(PopLowest(dels).list) = Len(dels.list) - 1
           /\ Last(dels.list) \in Bond
<1>1. dels.list \in Seq(Bond) /\ dels.total \in Nat /\ Len(dels.list) \in Nat
  BY LenProperties DEF Delegations
<1>2. \A i \in 1 .. Len(dels.list) : dels.list[i] \in Bond
  BY <1>1, ElementOfSeq
<1>3. /\ Front(dels.list) \in Seq(Bond)
      /\ Len(Front(dels.list)) = Len(dels.list) - 1
  BY <1>1, <1>2, SubSeqProperties DEF Front
<1>4. Last(dels.list) \in Bond
  BY <1>1, <1>2 DEF Last
<1>5. Sub(dels.total, Last(dels.list).amount) \in Nat
  BY <1>1, SubInNat
<1> QED BY <1>3, <1>4, <1>5 DEF PopLowest, Delegations

\* Popping the highest delegation off a list that is not empty removes one.
LEMMA PopHighestType ==
    ASSUME NEW dels \in Delegations, dels.list # <<>>
    PROVE  /\ PopHighest(dels) \in Delegations
           /\ Len(PopHighest(dels).list) = Len(dels.list) - 1
           /\ Head(dels.list) \in Bond
<1>1. dels.list \in Seq(Bond) /\ dels.total \in Nat
  BY DEF Delegations
<1>2. /\ Head(dels.list) \in Bond
      /\ Tail(dels.list) \in Seq(Bond)
      /\ Len(Tail(dels.list)) = Len(dels.list) - 1
  BY <1>1, HeadTailProperties
<1>3. Sub(dels.total, Head(dels.list).amount) \in Nat
  BY <1>1, SubInNat
<1> QED BY <1>2, <1>3 DEF PopHighest, Delegations

\* Changing an amount and sorting keeps the number of delegations.
LEMMA ResortType ==
    ASSUME NEW list \in Seq(Bond), NEW who \in Account, NEW amount \in Nat,
           Holds(list, who)
    PROVE  /\ Resort(list, who, amount) \in Seq(Bond)
           /\ Len(Resort(list, who, amount)) = Len(list)
<1> DEFINE p == Position(list, who)
           ahead == {i \in DOMAIN list : \/ i < p /\ list[i].amount >= amount
                                         \/ i > p /\ list[i].amount > amount}
           rest == RemoveAt(list, p)
           at == Cardinality(ahead) + 1
           shrunk == [owner |-> who, amount |-> amount]
<1>1. p \in 1 .. Len(list) /\ Len(list) \in Nat
  BY PositionInList, LenProperties
<1>2. rest \in Seq(Bond) /\ Len(rest) = Len(list) - 1
  BY <1>1, RemoveAtSeq
<1>3. ahead \subseteq 1 .. Len(list)
  BY LenProperties
<1>4. p \notin ahead
  BY <1>1
<1>5. shrunk \in Bond
  BY DEF Bond
<1> HIDE DEF ahead, rest, shrunk, p
<1>6. Cardinality(ahead) \in 0 .. Len(list) - 1
  <2>1. /\ IsFiniteSet(1 .. Len(list)) /\ Cardinality(1 .. Len(list)) = Len(list)
        /\ IsFiniteSet(ahead) /\ Cardinality(ahead) <= Cardinality(1 .. Len(list))
        /\ Cardinality(ahead) = Cardinality(1 .. Len(list)) => ahead = 1 .. Len(list)
    BY <1>1, <1>3, IntervalIsFinite, FS_Subset
  <2>2. Cardinality(ahead) # Len(list)
    BY <1>1, <1>4, <2>1
  <2>3. Cardinality(ahead) \in Nat
    BY <2>1, FS_CardinalityType
  <2> QED BY <1>1, <2>1, <2>2, <2>3
<1>7. at \in 1 .. Len(rest) + 1
  BY <1>1, <1>2, <1>6
<1> HIDE DEF at
<1>8. /\ InsertAt(rest, at, shrunk) \in Seq(Bond)
      /\ Len(InsertAt(rest, at, shrunk)) = Len(rest) + 1
  BY <1>2, <1>5, <1>7, InsertAtSeq
<1>9. Resort(list, who, amount) = InsertAt(rest, at, shrunk)
  BY DEF Resort, rest, at, shrunk, ahead, p
<1> QED BY <1>1, <1>2, <1>8, <1>9

-----------------------------------------------------------------------------
(* Books *)

TopCached(book) ==
    /\ book.counted = book.bond + book.top.total
    /\ book.lowTop = LowestAmount(book.top.list)
    /\ book.topCapacity = CapacityOf(book.top.list, MaxTop)

BottomCached(book) ==
    /\ book.lowBottom = LowestAmount(book.bottom.list)
    /\ book.highBottom = HighestAmount(book.bottom.list)
    /\ book.bottomCapacity = CapacityOf(book.bottom.list, MaxBottom)

\* The bottom list is used only once the top list is full.
Sized(top, bottom) ==
    /\ Len(top) <= MaxTop
    /\ Len(bottom) <= MaxBottom
    /\ Len(bottom) > 0 => Len(top) = MaxTop

BookInv(book) ==
    /\ book \in Book
    /\ TopCached(book)
    /\ BottomCached(book)
    /\ Sized(book.top.list, book.bottom.list)
    /\ book.count = Len(book.top.list) + Len(book.bottom.list)

\* What no operation on delegations touches.
SameCandidate(book, new) ==
    /\ new.bond = book.bond
    /\ new.bondLess = book.bondLess
    /\ new.status = book.status
    /\ new.leaveAt = book.leaveAt

\* CandidateMetadata::new starts in order.
LEMMA NewBookInv ==
    ASSUME NEW bond \in Nat PROVE BookInv(NewBook(bond))
<1>1. <<>> \in Seq(Bond) /\ Len(<<>>) = 0
  BY EmptySeq
<1>2. NoDelegations \in Delegations
  BY <1>1 DEF NoDelegations, Delegations
<1>3. NewBook(bond) \in Book
  BY <1>2 DEF NewBook, Book, NoBondLess, BondLess, Capacity
<1>4. \A max \in Nat \ {0} : CapacityOf(<<>>, max) = "Empty"
  BY <1>1 DEF CapacityOf
<1>5. TopCached(NewBook(bond)) /\ BottomCached(NewBook(bond))
  BY <1>1, <1>4, CapacitiesPositive
     DEF TopCached, BottomCached, NewBook, NoDelegations, LowestAmount, HighestAmount
<1>6. /\ Sized(NewBook(bond).top.list, NewBook(bond).bottom.list)
      /\ NewBook(bond).count = Len(NewBook(bond).top.list) + Len(NewBook(bond).bottom.list)
  BY <1>1, CapacitiesPositive DEF Sized, NewBook, NoDelegations
<1> QED BY <1>3, <1>5, <1>6 DEF BookInv

\* Writing the top list back refreshes what is cached of it and nothing else.
LEMMA ResetTopFacts ==
    ASSUME NEW book \in Book, NEW dels \in Delegations
    PROVE  LET new == ResetTop(book, dels) IN
           /\ new \in Book
           /\ TopCached(new)
           /\ new.top = dels /\ new.bottom = book.bottom /\ new.count = book.count
           /\ SameCandidate(book, new)
           /\ BottomCached(book) => BottomCached(new)
<1>1. LowestAmount(dels.list) \in Nat
  BY ExtremesInNat DEF Delegations
<1>2. CapacityOf(dels.list, MaxTop) \in Capacity
  BY CapacityType
<1>3. book.bond + dels.total \in Nat
  BY DEF Book, Delegations
<1>4. ResetTop(book, dels) \in Book
  BY <1>1, <1>2, <1>3 DEF ResetTop, Book
<1>5. LET new == ResetTop(book, dels) IN
      /\ new.top = dels /\ new.bottom = book.bottom /\ new.count = book.count
      /\ new.counted = book.bond + dels.total
      /\ new.lowTop = LowestAmount(dels.list)
      /\ new.topCapacity = CapacityOf(dels.list, MaxTop)
      /\ new.lowBottom = book.lowBottom /\ new.highBottom = book.highBottom
      /\ new.bottomCapacity = book.bottomCapacity
      /\ SameCandidate(book, new)
  BY DEF ResetTop, Book, SameCandidate
<1> QED BY <1>4, <1>5 DEF TopCached, BottomCached, SameCandidate

\* Writing the bottom list back refreshes what is cached of it and nothing else.
LEMMA ResetBottomFacts ==
    ASSUME NEW book \in Book, NEW dels \in Delegations
    PROVE  LET new == ResetBottom(book, dels) IN
           /\ new \in Book
           /\ BottomCached(new)
           /\ new.bottom = dels /\ new.top = book.top /\ new.count = book.count
           /\ SameCandidate(book, new)
           /\ new.bottomCapacity = CapacityOf(dels.list, MaxBottom)
           /\ TopCached(book) => TopCached(new)
<1>1. LowestAmount(dels.list) \in Nat /\ HighestAmount(dels.list) \in Nat
  BY ExtremesInNat DEF Delegations
<1>2. CapacityOf(dels.list, MaxBottom) \in Capacity
  BY CapacityType
<1>3. ResetBottom(book, dels) \in Book
  BY <1>1, <1>2 DEF ResetBottom, Book
<1>4. LET new == ResetBottom(book, dels) IN
      /\ new.bottom = dels /\ new.top = book.top /\ new.count = book.count
      /\ new.lowBottom = LowestAmount(dels.list)
      /\ new.highBottom = HighestAmount(dels.list)
      /\ new.bottomCapacity = CapacityOf(dels.list, MaxBottom)
      /\ new.lowTop = book.lowTop /\ new.counted = book.counted
      /\ new.topCapacity = book.topCapacity
      /\ SameCandidate(book, new)
  BY DEF ResetBottom, Book, SameCandidate
<1> QED BY <1>3, <1>4 DEF TopCached, BottomCached, SameCandidate

\* Only the number of delegations is written.
LEMMA RecountFacts ==
    ASSUME NEW book \in Book, NEW n \in Nat
    PROVE  LET new == [book EXCEPT !.count = n] IN
           /\ new \in Book
           /\ new.top = book.top /\ new.bottom = book.bottom /\ new.count = n
           /\ new.bottomCapacity = book.bottomCapacity
           /\ SameCandidate(book, new)
           /\ TopCached(book) => TopCached(new)
           /\ BottomCached(book) => BottomCached(new)
BY DEF Book, TopCached, BottomCached, SameCandidate

\* What a cached capacity says of the length of its list.
LEMMA CapacityMeaning ==
    ASSUME NEW list \in Seq(Bond), NEW max \in Nat \ {0}
    PROVE  /\ Len(list) \in Nat
           /\ CapacityOf(list, max) = "Full" <=> Len(list) >= max
           /\ CapacityOf(list, max) = "Empty" <=> list = <<>>
           /\ list = <<>> <=> Len(list) = 0
BY EmptySeq, LenProperties DEF CapacityOf

\* The lists of a book and their lengths.
LEMMA BookLists ==
    ASSUME NEW book \in Book
    PROVE  /\ book.top \in Delegations /\ book.bottom \in Delegations
           /\ book.top.list \in Seq(Bond) /\ book.bottom.list \in Seq(Bond)
           /\ Len(book.top.list) \in Nat /\ Len(book.bottom.list) \in Nat
           /\ book.count \in Nat
BY LenProperties DEF Book, Delegations

\* add_bottom_delegation fills the bottom list up to its capacity, and no further.
LEMMA AddBottomFacts ==
    ASSUME NEW book \in Book, BottomCached(book), Len(book.bottom.list) <= MaxBottom,
           NEW bond \in Bond, NEW bumped \in BOOLEAN
    PROVE  LET new == AddBottom(book, bond, bumped).book
               full == Len(book.bottom.list) = MaxBottom
           IN  /\ new \in Book
               /\ BottomCached(new)
               /\ TopCached(book) => TopCached(new)
               /\ SameCandidate(book, new)
               /\ new.top = book.top
               /\ Len(new.bottom.list) = IF full THEN MaxBottom ELSE Len(book.bottom.list) + 1
               /\ new.count = IF full \/ bumped THEN book.count ELSE book.count + 1
<1> USE BookLists
<1>1. CASE Len(book.bottom.list) = MaxBottom
  <2> DEFINE popped == PopLowest(book.bottom)
             added == InsertSorted(popped, bond)
             new == ResetBottom(book, added)
  <2>1. popped \in Delegations /\ Len(popped.list) = MaxBottom - 1
    BY <1>1, PopLowestType, CapacitiesPositive
  <2>2. added \in Delegations /\ Len(added.list) = Len(popped.list) + 1
    BY <2>1, InsertSortedType
  <2>3. Len(added.list) = MaxBottom
    BY <2>1, <2>2, CapacitiesPositive
  <2>4. AddBottom(book, bond, bumped).book = new
    BY <1>1 DEF AddBottom
  <2> HIDE DEF popped, added
  <2> QED BY <1>1, <2>2, <2>3, <2>4, ResetBottomFacts
<1>2. CASE Len(book.bottom.list) # MaxBottom
  <2> DEFINE added == InsertSorted(book.bottom, bond)
             written == ResetBottom(book, added)
             n == IF bumped THEN written.count ELSE written.count + 1
             new == [written EXCEPT !.count = n]
  <2>1. added \in Delegations /\ Len(added.list) = Len(book.bottom.list) + 1
    BY InsertSortedType
  <2>2. /\ written \in Book /\ BottomCached(written)
        /\ TopCached(book) => TopCached(written)
        /\ SameCandidate(book, written)
        /\ written.top = book.top /\ written.bottom = added /\ written.count = book.count
    BY <2>1, ResetBottomFacts
  <2>3. AddBottom(book, bond, bumped).book = new
    BY <1>2 DEF AddBottom
  <2> HIDE DEF added, written
  <2>4. n \in Nat /\ n = IF bumped THEN book.count ELSE book.count + 1
    BY <2>2
  <2> HIDE DEF n
  <2>5. /\ new \in Book /\ BottomCached(new)
        /\ TopCached(written) => TopCached(new)
        /\ SameCandidate(written, new)
        /\ new.top = written.top /\ new.bottom = written.bottom /\ new.count = n
    BY <2>2, <2>4, RecountFacts
  <2> HIDE DEF new
  <2> QED BY <1>2, <2>1, <2>2, <2>3, <2>4, <2>5 DEF SameCandidate
<1> QED BY <1>1, <1>2


\* The delegation count after one more delegation.
LEMMA OneMore ==
    ASSUME NEW m \in Nat, NEW n \in Nat, NEW count, count = m + n,
           NEW more, more = count + 1
    PROVE  more = (m + 1) + n
OBVIOUS

\* A delegation added to the top bumps the lowest down, and that one may kick another.
LEMMA AddTopKeepsInv ==
    ASSUME NEW book, BookInv(book), NEW bond \in Bond
    PROVE  LET new == AddTop(book, bond).book IN BookInv(new) /\ SameCandidate(book, new)
<1>0. /\ book \in Book
      /\ book.top \in Delegations /\ book.bottom \in Delegations
      /\ book.top.list \in Seq(Bond) /\ book.bottom.list \in Seq(Bond)
      /\ Len(book.top.list) \in Nat /\ Len(book.bottom.list) \in Nat
      /\ book.count \in Nat
  BY BookLists DEF BookInv
<1>1. CASE Len(book.top.list) = MaxTop
  <2> DEFINE below == AddBottom(book, Last(book.top.list), TRUE).book
             popped == PopLowest(book.top)
             added == InsertSorted(popped, bond)
             written == ResetTop(below, added)
             full == book.bottomCapacity = "Full"
             n == IF full THEN written.count ELSE written.count + 1
             new == [written EXCEPT !.count = n]
  <2>1. /\ popped \in Delegations /\ Len(popped.list) = MaxTop - 1
        /\ Last(book.top.list) \in Bond
    BY <1>0, <1>1, PopLowestType, CapacitiesPositive
  <2>2. added \in Delegations /\ Len(added.list) = Len(popped.list) + 1
    BY <2>1, InsertSortedType
  <2>3. Len(added.list) = MaxTop
    BY <2>1, <2>2, CapacitiesPositive
  <2>4. Len(book.bottom.list) <= MaxBottom /\ BottomCached(book) /\ TopCached(book)
    BY DEF BookInv, Sized
  <2>5. /\ below \in Book /\ BottomCached(below) /\ SameCandidate(book, below)
        /\ below.top = book.top /\ below.count = book.count
        /\ Len(below.bottom.list) = IF Len(book.bottom.list) = MaxBottom
                                    THEN MaxBottom ELSE Len(book.bottom.list) + 1
    BY <1>0, <2>1, <2>4, AddBottomFacts
  <2>6. full <=> Len(book.bottom.list) = MaxBottom
    BY <1>0, <2>4, CapacityMeaning, CapacitiesPositive DEF BottomCached
  <2>7. AddTop(book, bond).book = new
    BY <1>1 DEF AddTop
  <2> HIDE DEF popped, added, below
  <2>8. /\ written \in Book /\ TopCached(written) /\ BottomCached(written)
        /\ SameCandidate(below, written)
        /\ written.top = added /\ written.bottom = below.bottom
        /\ written.count = book.count
    BY <2>2, <2>5, ResetTopFacts
  <2> HIDE DEF written
  <2>9. n \in Nat /\ n = IF full THEN book.count ELSE book.count + 1
    BY <1>0, <2>8
  <2> HIDE DEF n, full
  <2>10. /\ new \in Book /\ TopCached(new) /\ BottomCached(new)
         /\ SameCandidate(written, new)
         /\ new.top = added /\ new.bottom = below.bottom /\ new.count = n
    BY <2>8, <2>9, RecountFacts
  <2> HIDE DEF new
  <2>11. SameCandidate(book, new)
    BY <2>5, <2>8, <2>10 DEF SameCandidate
  <2>12. Sized(new.top.list, new.bottom.list)
    BY <1>0, <2>3, <2>4, <2>5, <2>10, CapacitiesPositive DEF Sized
  <2>13. book.count = MaxTop + Len(book.bottom.list)
    BY <1>1 DEF BookInv
  <2>14. new.count = Len(new.top.list) + Len(new.bottom.list)
    <3>1. Len(new.top.list) = MaxTop
      BY <2>3, <2>10
    <3>2. Len(new.bottom.list) = IF full THEN MaxBottom ELSE Len(book.bottom.list) + 1
      BY <2>5, <2>6, <2>10
    <3>3. new.count = IF full THEN book.count ELSE book.count + 1
      BY <2>9, <2>10
    <3>4. MaxTop \in Nat /\ MaxBottom \in Nat /\ Len(book.bottom.list) \in Nat
      BY <1>0, CapacitiesPositive
    <3>5. CASE full
      BY <2>6, <2>13, <3>1, <3>2, <3>3, <3>4, <3>5
    <3>6. CASE ~full
      BY <2>6, <2>13, <3>1, <3>2, <3>3, <3>4, <3>6
    <3> QED BY <3>5, <3>6
  <2> QED BY <2>7, <2>10, <2>11, <2>12, <2>14 DEF BookInv
<1>2. CASE Len(book.top.list) # MaxTop
  <2> DEFINE added == InsertSorted(book.top, bond)
             written == ResetTop(book, added)
             new == [written EXCEPT !.count = written.count + 1]
  <2>1. added \in Delegations /\ Len(added.list) = Len(book.top.list) + 1
    BY <1>0, InsertSortedType
  <2>2. /\ written \in Book /\ TopCached(written) /\ BottomCached(written)
        /\ SameCandidate(book, written)
        /\ written.top = added /\ written.bottom = book.bottom
        /\ written.count = book.count
    BY <1>0, <2>1, ResetTopFacts DEF BookInv
  <2>3. AddTop(book, bond).book = new
    BY <1>2 DEF AddTop
  <2> HIDE DEF added, written
  <2>4. written.count + 1 \in Nat
    BY <1>0, <2>2
  <2>5. /\ new \in Book /\ TopCached(new) /\ BottomCached(new)
        /\ SameCandidate(written, new)
        /\ new.top = added /\ new.bottom = book.bottom /\ new.count = book.count + 1
    BY <2>2, <2>4, RecountFacts
  <2> HIDE DEF new
  <2>6. SameCandidate(book, new)
    BY <2>2, <2>5 DEF SameCandidate
  <2>7. Sized(new.top.list, new.bottom.list)
    BY <1>0, <1>2, <2>1, <2>5, CapacitiesPositive DEF Sized, BookInv
  <2>8. new.count = Len(new.top.list) + Len(new.bottom.list)
    <3>1. book.count = Len(book.top.list) + Len(book.bottom.list)
      BY DEF BookInv
    <3>2. Len(new.top.list) = Len(book.top.list) + 1
      BY <2>1, <2>5
    <3>3. Len(new.bottom.list) = Len(book.bottom.list)
      BY <2>5
    <3>4. Len(book.top.list) \in Nat /\ Len(book.bottom.list) \in Nat
      BY <1>0
    <3>5. new.count = book.count + 1
      BY <2>5
    <3>6. new.count = (Len(book.top.list) + 1) + Len(book.bottom.list)
      <4>1. \A m, n \in Nat : \A count, more :
                count = m + n /\ more = count + 1 => more = (m + 1) + n
        BY OneMore
      <4>2. new.count = (Len(book.top.list) + Len(book.bottom.list)) + 1
        BY <3>1, <3>5, Zenon
      <4> QED BY <4>1, <4>2, <3>4, Zenon
    <3> QED BY <3>2, <3>3, <3>6, Zenon
  <2> QED BY <2>3, <2>5, <2>6, <2>7, <2>8 DEF BookInv
<1> QED BY <1>1, <1>2

\* A new delegation leaves the book in order.
LEMMA AddDelegationKeepsInv ==
    ASSUME NEW book, BookInv(book), NEW bond \in Bond
    PROVE  LET new == AddDelegation(book, bond).book
           IN  BookInv(new) /\ SameCandidate(book, new)
<1>1. CASE ~GoesToBottom(book, bond.amount)
  BY <1>1, AddTopKeepsInv DEF AddDelegation
<1>2. CASE GoesToBottom(book, bond.amount)
  <2> DEFINE new == AddBottom(book, bond, FALSE).book
             full == Len(book.bottom.list) = MaxBottom
  <2>1. /\ book \in Book /\ TopCached(book) /\ BottomCached(book)
        /\ Len(book.top.list) \in Nat /\ Len(book.bottom.list) \in Nat
        /\ book.top.list \in Seq(Bond)
        /\ Sized(book.top.list, book.bottom.list)
        /\ book.count = Len(book.top.list) + Len(book.bottom.list)
    BY BookLists DEF BookInv
  <2>2. Len(book.top.list) = MaxTop
    BY <1>2, <2>1, CapacityMeaning, CapacitiesPositive DEF GoesToBottom, TopCached, Sized
  <2>3. /\ new \in Book /\ BottomCached(new) /\ TopCached(new) /\ SameCandidate(book, new)
        /\ new.top = book.top
        /\ Len(new.bottom.list) = IF full THEN MaxBottom ELSE Len(book.bottom.list) + 1
        /\ new.count = IF full THEN book.count ELSE book.count + 1
    BY <2>1, AddBottomFacts DEF Sized
  <2>4. AddDelegation(book, bond).book = new
    BY <1>2 DEF AddDelegation
  <2> HIDE DEF new
  <2>5. Sized(new.top.list, new.bottom.list)
    BY <2>1, <2>2, <2>3, CapacitiesPositive DEF Sized
  <2>6. new.count = Len(new.top.list) + Len(new.bottom.list)
    <3>1. CASE full
      BY <2>1, <2>3, <3>1
    <3>2. CASE ~full
      <4>1. /\ new.count = (Len(book.top.list) + Len(book.bottom.list)) + 1
            /\ Len(new.bottom.list) = Len(book.bottom.list) + 1
            /\ Len(new.top.list) = Len(book.top.list)
        BY <2>1, <2>3, <3>2, Zenon
      <4>2. \A m, n \in Nat : (m + n) + 1 = m + (n + 1)
        OBVIOUS
      <4> QED BY <2>1, <4>1, <4>2, Zenon
    <3> QED BY <3>1, <3>2
  <2> QED BY <2>3, <2>4, <2>5, <2>6 DEF BookInv
<1> QED BY <1>1, <1>2

-----------------------------------------------------------------------------
(* Removing *)

\* The delegation count after one delegation less, in either list.
LEMMA OneLess ==
    /\ \A m, n \in Nat : m > 0 => Sub(m + n, 1) = (m - 1) + n
    /\ \A m, n \in Nat : n > 0 => Sub(m + n, 1) = m + (n - 1)
BY DEF Sub

\* rm_bottom_delegation leaves the book in order.
LEMMA RmBottomKeepsInv ==
    ASSUME NEW book, BookInv(book), NEW who, Holds(book.bottom.list, who)
    PROVE  LET new == RmBottom(book, who) IN BookInv(new) /\ SameCandidate(book, new)
<1> DEFINE rest == RemoveOwner(book.bottom, who)
           written == ResetBottom(book, rest)
           n == Sub(written.count, 1)
           new == [written EXCEPT !.count = n]
<1>1. /\ book \in Book /\ TopCached(book) /\ BottomCached(book)
      /\ book.bottom \in Delegations
      /\ Len(book.top.list) \in Nat /\ Len(book.bottom.list) \in Nat
      /\ Sized(book.top.list, book.bottom.list)
      /\ book.count = Len(book.top.list) + Len(book.bottom.list) /\ book.count \in Nat
  BY BookLists DEF BookInv
<1>2. /\ rest \in Delegations /\ Len(rest.list) = Len(book.bottom.list) - 1
      /\ Len(book.bottom.list) > 0
  BY <1>1, RemoveOwnerType
<1> HIDE DEF rest
<1>3. /\ written \in Book /\ BottomCached(written) /\ TopCached(written)
      /\ SameCandidate(book, written)
      /\ written.bottom = rest /\ written.top = book.top /\ written.count = book.count
  BY <1>1, <1>2, ResetBottomFacts
<1>4. RmBottom(book, who) = new
  BY DEF RmBottom, rest
<1> HIDE DEF written
<1>5. n \in Nat /\ n = Sub(book.count, 1)
  BY <1>1, <1>3, SubInNat
<1> HIDE DEF n
<1>6. /\ new \in Book /\ BottomCached(new) /\ TopCached(new)
      /\ SameCandidate(written, new)
      /\ new.bottom = rest /\ new.top = book.top /\ new.count = n
  BY <1>3, <1>5, RecountFacts
<1> HIDE DEF new
<1>7. SameCandidate(book, new)
  BY <1>3, <1>6 DEF SameCandidate
<1>8. Sized(new.top.list, new.bottom.list)
  <2>1. new.top.list = book.top.list /\ Len(new.bottom.list) = Len(book.bottom.list) - 1
    BY <1>2, <1>6, Zenon
  <2>2. Len(book.bottom.list) > 0
    BY <1>2
  <2> QED BY <1>1, <2>1, <2>2, CapacitiesPositive DEF Sized
<1>9. new.count = Len(new.top.list) + Len(new.bottom.list)
  BY <1>1, <1>2, <1>5, <1>6, OneLess, Zenon
<1> QED BY <1>4, <1>6, <1>7, <1>8, <1>9 DEF BookInv

\* With a bottom list to draw from, the top list stays full.
LEMMA RmTopKeepsInv ==
    ASSUME NEW book, BookInv(book), NEW who, Holds(book.top.list, who)
    PROVE  LET new == RmTop(book, who) IN BookInv(new) /\ SameCandidate(book, new)
<1> DEFINE rest == RemoveOwner(book.top, who)
           bumpUp == book.bottomCapacity # "Empty"
           below == IF bumpUp THEN ResetBottom(book, PopHighest(book.bottom)) ELSE book
           top == IF bumpUp THEN InsertSorted(rest, Head(book.bottom.list)) ELSE rest
           written == ResetTop(below, top)
           n == Sub(written.count, 1)
           new == [written EXCEPT !.count = n]
<1>1. /\ book \in Book /\ TopCached(book) /\ BottomCached(book)
      /\ book.top \in Delegations /\ book.bottom \in Delegations
      /\ book.bottom.list \in Seq(Bond)
      /\ Len(book.top.list) \in Nat /\ Len(book.bottom.list) \in Nat
      /\ Sized(book.top.list, book.bottom.list)
      /\ book.count = Len(book.top.list) + Len(book.bottom.list) /\ book.count \in Nat
  BY BookLists DEF BookInv
<1>2. /\ rest \in Delegations /\ Len(rest.list) = Len(book.top.list) - 1
      /\ Len(book.top.list) > 0
  BY <1>1, RemoveOwnerType
<1>3. (bumpUp <=> book.bottom.list # <<>>) /\ (bumpUp <=> Len(book.bottom.list) > 0)
  BY <1>1, CapacityMeaning, CapacitiesPositive DEF BottomCached
<1>4. RmTop(book, who) = new
  BY DEF RmTop
<1> HIDE DEF rest
<1>5. /\ below \in Book /\ BottomCached(below) /\ SameCandidate(book, below)
      /\ below.count = book.count
      /\ Len(below.bottom.list) =
            IF bumpUp THEN Len(book.bottom.list) - 1 ELSE Len(book.bottom.list)
  <2>1. CASE bumpUp
    <3>1. /\ PopHighest(book.bottom) \in Delegations
          /\ Len(PopHighest(book.bottom).list) = Len(book.bottom.list) - 1
      BY <1>1, <1>3, <2>1, PopHighestType
    <3> QED BY <1>1, <2>1, <3>1, ResetBottomFacts
  <2>2. CASE ~bumpUp
    BY <1>1, <2>2 DEF SameCandidate
  <2> QED BY <2>1, <2>2
<1>6. /\ top \in Delegations
      /\ Len(top.list) = IF bumpUp THEN Len(book.top.list) ELSE Len(book.top.list) - 1
  <2>1. CASE bumpUp
    <3>1. Head(book.bottom.list) \in Bond
      BY <1>1, <1>3, <2>1, PopHighestType
    <3>2. top \in Delegations /\ Len(top.list) = Len(rest.list) + 1
      BY <1>2, <2>1, <3>1, InsertSortedType
    <3> QED BY <1>1, <1>2, <2>1, <3>2
  <2>2. CASE ~bumpUp
    BY <1>2, <2>2
  <2> QED BY <2>1, <2>2
<1> HIDE DEF below, top
<1>7. /\ written \in Book /\ TopCached(written) /\ BottomCached(written)
      /\ SameCandidate(below, written)
      /\ written.top = top /\ written.bottom = below.bottom
      /\ written.count = book.count
  BY <1>5, <1>6, ResetTopFacts
<1> HIDE DEF written
<1>8. n \in Nat /\ n = Sub(book.count, 1)
  BY <1>1, <1>7, SubInNat
<1> HIDE DEF n
<1>9. /\ new \in Book /\ BottomCached(new) /\ TopCached(new)
      /\ SameCandidate(written, new)
      /\ new.bottom = below.bottom /\ new.top = top /\ new.count = n
  BY <1>7, <1>8, RecountFacts
<1> HIDE DEF new
<1>10. SameCandidate(book, new)
  BY <1>5, <1>7, <1>9 DEF SameCandidate
<1>11. Sized(new.top.list, new.bottom.list)
  <2>1. Len(new.top.list) = Len(top.list) /\ Len(new.bottom.list) = Len(below.bottom.list)
    BY <1>9
  <2>2. CASE bumpUp
    <3>1. /\ Len(new.top.list) = Len(book.top.list)
          /\ Len(new.bottom.list) = Len(book.bottom.list) - 1
      BY <1>5, <1>6, <2>1, <2>2
    <3> QED BY <1>1, <1>3, <2>2, <3>1, CapacitiesPositive DEF Sized
  <2>3. CASE ~bumpUp
    <3>1. /\ Len(new.top.list) = Len(book.top.list) - 1
          /\ Len(new.bottom.list) = Len(book.bottom.list)
      BY <1>5, <1>6, <2>1, <2>3
    <3> QED BY <1>1, <1>3, <2>3, <3>1, CapacitiesPositive DEF Sized
  <2> QED BY <2>2, <2>3
<1>12. new.count = Len(new.top.list) + Len(new.bottom.list)
  <2>1. CASE bumpUp
    BY <1>1, <1>3, <1>5, <1>6, <1>8, <1>9, <2>1, OneLess, Zenon
  <2>2. CASE ~bumpUp
    BY <1>1, <1>2, <1>5, <1>6, <1>8, <1>9, <2>2, OneLess, Zenon
  <2> QED BY <2>1, <2>2
<1> QED BY <1>4, <1>9, <1>10, <1>11, <1>12 DEF BookInv

\* A removed delegation leaves the book in order.
LEMMA RmDelegationKeepsInv ==
    ASSUME NEW book, BookInv(book), NEW who, NEW amount,
           RmDelegation(book, who, amount).ok
    PROVE  LET new == RmDelegation(book, who, amount).book
           IN  BookInv(new) /\ SameCandidate(book, new)
BY RmTopKeepsInv, RmBottomKeepsInv DEF RmDelegation, Found

-----------------------------------------------------------------------------
(* Increasing and decreasing: the number of delegations stays *)

\* increase_top_delegation leaves the book in order.
LEMMA IncreaseTopKeepsInv ==
    ASSUME NEW book, BookInv(book), NEW who \in Account, NEW more \in Nat,
           Holds(book.top.list, who)
    PROVE  LET new == IncreaseTop(book, who, more)
           IN  BookInv(new) /\ SameCandidate(book, new)
<1> DEFINE amount == AmountOf(book.top.list, who) + more
           top == [list |-> Resort(book.top.list, who, amount),
                   total |-> book.top.total + more]
           new == ResetTop(book, top)
<1>1. /\ book \in Book /\ BottomCached(book)
      /\ book.top.list \in Seq(Bond) /\ book.top.total \in Nat
      /\ Sized(book.top.list, book.bottom.list)
      /\ book.count = Len(book.top.list) + Len(book.bottom.list)
  BY BookLists DEF BookInv, Delegations
<1>2. amount \in Nat
  BY <1>1, PositionInList
<1>3. IncreaseTop(book, who, more) = new
  BY DEF IncreaseTop
<1> HIDE DEF amount
<1>4. top \in Delegations /\ Len(top.list) = Len(book.top.list)
  BY <1>1, <1>2, ResortType DEF Delegations
<1> HIDE DEF top
<1>5. /\ new \in Book /\ TopCached(new) /\ BottomCached(new) /\ SameCandidate(book, new)
      /\ new.top = top /\ new.bottom = book.bottom /\ new.count = book.count
  BY <1>1, <1>4, ResetTopFacts
<1> QED BY <1>1, <1>3, <1>4, <1>5 DEF BookInv, Sized

\* A bottom delegation implies a full top list, so the two change places.
LEMMA IncreaseBottomKeepsInv ==
    ASSUME NEW book, BookInv(book), NEW who \in Account, NEW bond, NEW more \in Nat,
           Holds(book.bottom.list, who)
    PROVE  LET new == IncreaseBottom(book, who, bond, more)
           IN  BookInv(new) /\ SameCandidate(book, new)
<1> DEFINE amount == AmountOf(book.bottom.list, who) + more
           grown == [owner |-> who, amount |-> amount]
           rest == [list |-> RemoveOwner(book.bottom, who).list,
                    total |-> Sub(book.bottom.total, bond)]
           last == Last(book.top.list)
           popped == PopLowest(book.top)
           top == InsertSorted(popped, grown)
           bottom == InsertSorted(rest, last)
           raised == ResetTop(book, top)
           swapped == ResetBottom(raised, bottom)
           larger == [list |-> Resort(book.bottom.list, who, amount),
                      total |-> book.bottom.total + more]
           stayed == ResetBottom(book, larger)
<1>1. /\ book \in Book /\ TopCached(book) /\ BottomCached(book)
      /\ book.top \in Delegations /\ book.bottom \in Delegations
      /\ book.top.list \in Seq(Bond) /\ book.bottom.list \in Seq(Bond)
      /\ Len(book.top.list) \in Nat /\ Len(book.bottom.list) \in Nat
      /\ book.bottom.total \in Nat
      /\ Sized(book.top.list, book.bottom.list)
      /\ book.count = Len(book.top.list) + Len(book.bottom.list)
  BY BookLists DEF BookInv, Delegations
<1>2. amount \in Nat /\ Len(book.bottom.list) > 0
  BY <1>1, PositionInList
<1>3. Len(book.top.list) = MaxTop
  BY <1>1, <1>2 DEF Sized
<1>4. CapacityOf(book.top.list, MaxTop) = "Full"
  BY <1>1, <1>3, CapacityMeaning, CapacitiesPositive
<1>5. IncreaseBottom(book, who, bond, more) = swapped
      \/ IncreaseBottom(book, who, bond, more) = stayed
  BY <1>4 DEF IncreaseBottom
<1> HIDE DEF amount
<1>6. grown \in Bond
  BY <1>2 DEF Bond
<1>7. rest \in Delegations /\ Len(rest.list) = Len(book.bottom.list) - 1
  BY <1>1, RemoveOwnerType, SubInNat DEF Delegations
<1>8. popped \in Delegations /\ Len(popped.list) = Len(book.top.list) - 1 /\ last \in Bond
  BY <1>1, <1>3, PopLowestType, CapacitiesPositive
<1>9. larger \in Delegations /\ Len(larger.list) = Len(book.bottom.list)
  BY <1>1, <1>2, ResortType DEF Delegations
<1> HIDE DEF grown, rest, popped, last, larger
<1>10. top \in Delegations /\ Len(top.list) = Len(book.top.list)
  <2>1. top \in Delegations /\ Len(top.list) = Len(popped.list) + 1
    BY <1>6, <1>8, InsertSortedType
  <2> QED BY <1>1, <1>8, <2>1
<1>11. bottom \in Delegations /\ Len(bottom.list) = Len(book.bottom.list)
  <2>1. bottom \in Delegations /\ Len(bottom.list) = Len(rest.list) + 1
    BY <1>7, <1>8, InsertSortedType
  <2> QED BY <1>1, <1>7, <2>1
<1> HIDE DEF top, bottom
<1>12. /\ raised \in Book /\ TopCached(raised) /\ BottomCached(raised)
       /\ SameCandidate(book, raised)
       /\ raised.top = top /\ raised.count = book.count
  BY <1>1, <1>10, ResetTopFacts
<1> HIDE DEF raised
<1>13. /\ swapped \in Book /\ TopCached(swapped) /\ BottomCached(swapped)
       /\ SameCandidate(raised, swapped)
       /\ swapped.top = top /\ swapped.bottom = bottom /\ swapped.count = book.count
  BY <1>11, <1>12, ResetBottomFacts
<1>14. /\ stayed \in Book /\ TopCached(stayed) /\ BottomCached(stayed)
       /\ SameCandidate(book, stayed)
       /\ stayed.top = book.top /\ stayed.bottom = larger /\ stayed.count = book.count
  BY <1>1, <1>9, ResetBottomFacts
<1> HIDE DEF swapped, stayed
<1>15. BookInv(swapped) /\ SameCandidate(book, swapped)
  BY <1>1, <1>10, <1>11, <1>12, <1>13 DEF BookInv, Sized, SameCandidate
<1>16. BookInv(stayed) /\ SameCandidate(book, stayed)
  BY <1>1, <1>9, <1>14 DEF BookInv, Sized
<1> QED BY <1>5, <1>15, <1>16

\* An increased delegation leaves the book in order.
LEMMA IncreaseDelegationKeepsInv ==
    ASSUME NEW book, BookInv(book), NEW who \in Account, NEW bond, NEW more \in Nat,
           IncreaseDelegation(book, who, bond, more).ok
    PROVE  LET new == IncreaseDelegation(book, who, bond, more).book
           IN  BookInv(new) /\ SameCandidate(book, new)
BY IncreaseTopKeepsInv, IncreaseBottomKeepsInv DEF IncreaseDelegation, Found

\* decrease_top_delegation leaves the book in order, both when two change lists and when not.
LEMMA DecreaseTopKeepsInv ==
    ASSUME NEW book, BookInv(book), NEW who \in Account, NEW bond, NEW less,
           Holds(book.top.list, who)
    PROVE  LET new == DecreaseTop(book, who, bond, less)
           IN  BookInv(new) /\ SameCandidate(book, new)
<1> DEFINE amount == Sub(AmountOf(book.top.list, who), less)
           shrunk == [owner |-> who, amount |-> amount]
           rest == RemoveOwner(book.top, who)
           head == Head(book.bottom.list)
           popped == PopHighest(book.bottom)
           raised == InsertSorted(rest, head)
           lowered == InsertSorted(popped, shrunk)
           below == ResetBottom(book, lowered)
           swapped == ResetTop(below, raised)
           smaller == [list |-> Resort(book.top.list, who, amount),
                       total |-> Sub(book.top.total, less)]
           stayed == ResetTop(book, smaller)
<1>1. /\ book \in Book /\ TopCached(book) /\ BottomCached(book)
      /\ book.top \in Delegations /\ book.bottom \in Delegations
      /\ book.top.list \in Seq(Bond) /\ book.bottom.list \in Seq(Bond)
      /\ Len(book.top.list) \in Nat /\ Len(book.bottom.list) \in Nat
      /\ book.top.total \in Nat
      /\ Sized(book.top.list, book.bottom.list)
      /\ book.count = Len(book.top.list) + Len(book.bottom.list)
  BY BookLists DEF BookInv, Delegations
<1>2. amount \in Nat
  BY <1>1, PositionInList, SubInNat
<1>3. \/ /\ book.bottom.list # <<>>
         /\ DecreaseTop(book, who, bond, less) = swapped
      \/ DecreaseTop(book, who, bond, less) = stayed
  BY <1>1, CapacityMeaning, CapacitiesPositive DEF DecreaseTop, BottomCached
<1> HIDE DEF amount
<1>4. smaller \in Delegations /\ Len(smaller.list) = Len(book.top.list)
  BY <1>1, <1>2, ResortType, SubInNat DEF Delegations
<1>5. rest \in Delegations /\ Len(rest.list) = Len(book.top.list) - 1
  BY <1>1, RemoveOwnerType
<1>6. shrunk \in Bond
  BY <1>2 DEF Bond
<1> HIDE DEF smaller, rest, shrunk
<1>7. /\ stayed \in Book /\ TopCached(stayed) /\ BottomCached(stayed)
      /\ SameCandidate(book, stayed)
      /\ stayed.top = smaller /\ stayed.bottom = book.bottom /\ stayed.count = book.count
  BY <1>1, <1>4, ResetTopFacts
<1> HIDE DEF stayed
<1>8. BookInv(stayed)
  BY <1>1, <1>4, <1>7 DEF BookInv, Sized
<1>9. ASSUME book.bottom.list # <<>> PROVE BookInv(swapped) /\ SameCandidate(book, swapped)
  <2>1. /\ popped \in Delegations /\ Len(popped.list) = Len(book.bottom.list) - 1
        /\ head \in Bond
    BY <1>1, <1>9, PopHighestType
  <2> HIDE DEF popped, head
  <2>2. raised \in Delegations /\ Len(raised.list) = Len(rest.list) + 1
    BY <1>5, <2>1, InsertSortedType
  <2>3. lowered \in Delegations /\ Len(lowered.list) = Len(popped.list) + 1
    BY <1>6, <2>1, InsertSortedType
  <2>4. Len(raised.list) = Len(book.top.list) /\ Len(lowered.list) = Len(book.bottom.list)
    BY <1>1, <1>5, <2>1, <2>2, <2>3
  <2> HIDE DEF raised, lowered
  <2>5. /\ below \in Book /\ TopCached(below) /\ BottomCached(below)
        /\ SameCandidate(book, below)
        /\ below.bottom = lowered /\ below.count = book.count
    BY <1>1, <2>3, ResetBottomFacts
  <2> HIDE DEF below
  <2>6. /\ swapped \in Book /\ TopCached(swapped) /\ BottomCached(swapped)
        /\ SameCandidate(below, swapped)
        /\ swapped.top = raised /\ swapped.bottom = lowered /\ swapped.count = book.count
    BY <2>2, <2>5, ResetTopFacts
  <2> HIDE DEF swapped
  <2> QED BY <1>1, <2>4, <2>5, <2>6 DEF BookInv, Sized, SameCandidate
<1> QED BY <1>3, <1>7, <1>8, <1>9

\* decrease_bottom_delegation leaves the book in order.
LEMMA DecreaseBottomKeepsInv ==
    ASSUME NEW book, BookInv(book), NEW who \in Account, NEW less,
           Holds(book.bottom.list, who)
    PROVE  LET new == DecreaseBottom(book, who, less)
           IN  BookInv(new) /\ SameCandidate(book, new)
<1> DEFINE amount == Sub(AmountOf(book.bottom.list, who), less)
           bottom == [list |-> Resort(book.bottom.list, who, amount),
                      total |-> book.bottom.total]
           new == ResetBottom(book, bottom)
<1>1. /\ book \in Book /\ TopCached(book)
      /\ book.bottom.list \in Seq(Bond) /\ book.bottom.total \in Nat
      /\ Sized(book.top.list, book.bottom.list)
      /\ book.count = Len(book.top.list) + Len(book.bottom.list)
  BY BookLists DEF BookInv, Delegations
<1>2. amount \in Nat
  BY <1>1, PositionInList, SubInNat
<1>3. DecreaseBottom(book, who, less) = new
  BY DEF DecreaseBottom
<1> HIDE DEF amount
<1>4. bottom \in Delegations /\ Len(bottom.list) = Len(book.bottom.list)
  BY <1>1, <1>2, ResortType DEF Delegations
<1> HIDE DEF bottom
<1>5. /\ new \in Book /\ TopCached(new) /\ BottomCached(new) /\ SameCandidate(book, new)
      /\ new.top = book.top /\ new.bottom = bottom /\ new.count = book.count
  BY <1>1, <1>4, ResetBottomFacts
<1> QED BY <1>1, <1>3, <1>4, <1>5 DEF BookInv, Sized

\* A decreased delegation leaves the book in order.
LEMMA DecreaseDelegationKeepsInv ==
    ASSUME NEW book, BookInv(book), NEW who \in Account, NEW bond, NEW less,
           DecreaseDelegation(book, who, bond, less).ok
    PROVE  LET new == DecreaseDelegation(book, who, bond, less).book
           IN  BookInv(new) /\ SameCandidate(book, new)
BY DecreaseTopKeepsInv, DecreaseBottomKeepsInv DEF DecreaseDelegation, Found
-----------------------------------------------------------------------------
(* What a list holds *)

\* the delegations on a list, whatever their positions
Entries(list) == {list[i] : i \in DOMAIN list}

OneEach(list) == \A i, j \in DOMAIN list : list[i].owner = list[j].owner => i = j
Falling(list) == \A i, j \in DOMAIN list : i < j => list[i].amount >= list[j].amount

\* A list as the code means it: one delegation of each owner, from the greatest to the least.
Orderly(list) == list \in Seq(Bond) /\ OneEach(list) /\ Falling(list)

\* the stake of some delegations
StakeOf(S) == SumOf([b \in S |-> b.amount])

\* The elements of two sequences put one after the other.
LEMMA ConcatElements ==
    ASSUME NEW S, NEW s \in Seq(S), NEW t \in Seq(S)
    PROVE  /\ s \o t \in Seq(S)
           /\ Len(s \o t) = Len(s) + Len(t)
           /\ DOMAIN (s \o t) = 1 .. Len(s) + Len(t)
           /\ \A j \in 1 .. Len(s) : (s \o t)[j] = s[j]
           /\ \A j \in 1 .. Len(t) : (s \o t)[Len(s) + j] = t[j]
<1> DEFINE u == s \o t
<1>1. /\ u \in Seq(S) /\ Len(u) = Len(s) + Len(t)
      /\ \A j \in 1 .. Len(s) + Len(t) : u[j] = IF j <= Len(s) THEN s[j] ELSE t[j - Len(s)]
  BY ConcatProperties
<1>2. Len(s) \in Nat /\ Len(t) \in Nat
  BY LenProperties
<1> HIDE DEF u
<1>3. DOMAIN u = 1 .. Len(s) + Len(t)
  BY <1>1, LenProperties
<1>4. ASSUME NEW j \in 1 .. Len(s) PROVE u[j] = s[j]
  BY <1>1, <1>2
<1>5. ASSUME NEW j \in 1 .. Len(t) PROVE u[Len(s) + j] = t[j]
  <2>1. Len(s) + j \in 1 .. Len(s) + Len(t) /\ ~(Len(s) + j <= Len(s)) /\ (Len(s) + j) - Len(s) = j
    BY <1>2
  <2> QED BY <1>1, <2>1
<1>6. /\ u \in Seq(S) /\ Len(u) = Len(s) + Len(t) /\ DOMAIN u = 1 .. Len(s) + Len(t)
      /\ \A j \in 1 .. Len(s) : u[j] = s[j]
      /\ \A j \in 1 .. Len(t) : u[Len(s) + j] = t[j]
  BY <1>1, <1>3, <1>4, <1>5
<1> QED BY <1>6, Zenon DEF u

\* Vec::insert moves what follows the position back by one.
LEMMA InsertAtElements ==
    ASSUME NEW S, NEW s \in Seq(S), NEW i \in 1 .. Len(s) + 1, NEW e \in S
    PROVE  /\ InsertAt(s, i, e) \in Seq(S)
           /\ DOMAIN InsertAt(s, i, e) = 1 .. Len(s) + 1
           /\ \A j \in 1 .. i - 1 : InsertAt(s, i, e)[j] = s[j]
           /\ InsertAt(s, i, e)[i] = e
           /\ \A j \in i .. Len(s) : InsertAt(s, i, e)[j + 1] = s[j]
<1> DEFINE before == SubSeq(s, 1, i - 1)
           one == <<e>>
           upTo == before \o one
           after == SubSeq(s, i, Len(s))
           new == upTo \o after
<1>1. Len(s) \in Nat /\ \A j \in 1 .. Len(s) : s[j] \in S
  BY ElementOfSeq, LenProperties
<1>2. /\ before \in Seq(S) /\ Len(before) = i - 1 /\ i - 1 \in Nat
      /\ \A j \in 1 .. i - 1 : before[j] = s[j]
  BY <1>1, SubSeqProperties
<1>3. /\ after \in Seq(S) /\ Len(after) = Len(s) - i + 1 /\ Len(s) - i + 1 \in Nat
      /\ \A j \in 1 .. Len(s) - i + 1 : after[j] = s[i + j - 1]
  BY <1>1, SubSeqProperties
<1>4. one \in Seq(S) /\ Len(one) = 1 /\ one[1] = e
  OBVIOUS
<1> HIDE DEF before, one, after
<1>5. /\ upTo \in Seq(S) /\ Len(upTo) = Len(before) + Len(one)
      /\ DOMAIN upTo = 1 .. Len(before) + Len(one)
      /\ \A j \in 1 .. Len(before) : upTo[j] = before[j]
      /\ \A j \in 1 .. Len(one) : upTo[Len(before) + j] = one[j]
  <2>1. before \in Seq(S) /\ one \in Seq(S)
    BY <1>2, <1>4
  <2> QED BY <2>1, ConcatElements, SMT DEF upTo
<1> HIDE DEF upTo
<1>6. /\ new \in Seq(S) /\ Len(new) = Len(upTo) + Len(after)
      /\ DOMAIN new = 1 .. Len(upTo) + Len(after)
      /\ \A j \in 1 .. Len(upTo) : new[j] = upTo[j]
      /\ \A j \in 1 .. Len(after) : new[Len(upTo) + j] = after[j]
  <2>1. upTo \in Seq(S) /\ after \in Seq(S)
    BY <1>3, <1>5
  <2> QED BY <2>1, ConcatElements, SMT DEF new
<1>7. InsertAt(s, i, e) = new
  BY Zenon DEF InsertAt, new, upTo, before, after, one
<1> HIDE DEF new
<1>8. Len(upTo) = i /\ i \in Nat
  BY <1>1, <1>2, <1>4, <1>5
<1>9. Len(upTo) + Len(after) = Len(s) + 1
  BY <1>1, <1>3, <1>8
<1>10. ASSUME NEW j \in 1 .. i - 1 PROVE new[j] = s[j]
  <2>1. j \in 1 .. Len(upTo) /\ j \in 1 .. Len(before)
    BY <1>2, <1>8
  <2> QED BY <1>2, <1>5, <1>6, <2>1
<1>11. new[i] = e
  <2>1. 1 \in 1 .. Len(one) /\ i \in 1 .. Len(upTo) /\ Len(before) + 1 = i
    BY <1>1, <1>2, <1>4, <1>8
  <2>2. upTo[Len(before) + 1] = one[1]
    BY <1>5, <2>1
  <2> QED BY <1>4, <1>6, <2>1, <2>2
<1>12. ASSUME NEW j \in i .. Len(s) PROVE new[j + 1] = s[j]
  <2> DEFINE h == j - i + 1
  <2>1. h \in 1 .. Len(after) /\ h \in 1 .. Len(s) - i + 1 /\ Len(upTo) + h = j + 1 /\ i + h - 1 = j
    BY <1>1, <1>3, <1>8
  <2> HIDE DEF h
  <2>2. new[Len(upTo) + h] = after[h]
    BY <1>6, <2>1
  <2>3. after[h] = s[i + h - 1]
    BY <1>3, <2>1
  <2> QED BY <2>1, <2>2, <2>3
<1>13. DOMAIN new = 1 .. Len(s) + 1 /\ new \in Seq(S)
  BY <1>6, <1>9
<1> QED BY <1>7, <1>10, <1>11, <1>12, <1>13, Zenon

\* Vec::remove moves what follows the position forward by one.
LEMMA RemoveAtElements ==
    ASSUME NEW S, NEW s \in Seq(S), NEW i \in 1 .. Len(s)
    PROVE  /\ RemoveAt(s, i) \in Seq(S)
           /\ DOMAIN RemoveAt(s, i) = 1 .. Len(s) - 1
           /\ \A j \in 1 .. i - 1 : RemoveAt(s, i)[j] = s[j]
           /\ \A j \in i .. Len(s) - 1 : RemoveAt(s, i)[j] = s[j + 1]
<1> DEFINE before == SubSeq(s, 1, i - 1)
           after == SubSeq(s, i + 1, Len(s))
           new == before \o after
<1>1. Len(s) \in Nat /\ \A j \in 1 .. Len(s) : s[j] \in S
  BY ElementOfSeq, LenProperties
<1>2. /\ before \in Seq(S) /\ Len(before) = i - 1 /\ i - 1 \in Nat
      /\ \A j \in 1 .. i - 1 : before[j] = s[j]
  BY <1>1, SubSeqProperties
<1>3. /\ after \in Seq(S) /\ Len(after) = Len(s) - i /\ Len(s) - i \in Nat
      /\ \A j \in 1 .. Len(s) - i : after[j] = s[i + j]
  <2>1. \A j \in i + 1 .. Len(s) : s[j] \in S
    BY <1>1
  <2>2. /\ after \in Seq(S) /\ Len(after) = IF i + 1 <= Len(s) THEN Len(s) - (i + 1) + 1 ELSE 0
        /\ \A j \in 1 .. Len(s) - (i + 1) + 1 : after[j] = s[(i + 1) + j - 1]
    BY <1>1, <2>1, SubSeqProperties
  <2>3. /\ Len(s) - (i + 1) + 1 = Len(s) - i /\ (~(i + 1 <= Len(s)) => Len(s) - i = 0)
        /\ Len(s) - i \in Nat
    BY <1>1
  <2>4. \A j \in 1 .. Len(s) - i : (i + 1) + j - 1 = i + j
    BY <1>1
  <2> HIDE DEF after
  <2> QED BY <2>2, <2>3, <2>4
<1>4. RemoveAt(s, i) = new
  BY Zenon DEF RemoveAt, new, before, after
<1> HIDE DEF before, after
<1>5. /\ new \in Seq(S) /\ Len(new) = Len(before) + Len(after)
      /\ DOMAIN new = 1 .. Len(before) + Len(after)
      /\ \A j \in 1 .. Len(before) : new[j] = before[j]
      /\ \A j \in 1 .. Len(after) : new[Len(before) + j] = after[j]
  <2>1. before \in Seq(S) /\ after \in Seq(S)
    BY <1>2, <1>3
  <2> QED BY <2>1, ConcatElements, SMT DEF new
<1> HIDE DEF new
<1>6. Len(before) + Len(after) = Len(s) - 1
  BY <1>1, <1>2, <1>3
<1>7. ASSUME NEW j \in 1 .. i - 1 PROVE new[j] = s[j]
  BY <1>2, <1>5
<1>8. ASSUME NEW j \in i .. Len(s) - 1 PROVE new[j] = s[j + 1]
  <2> DEFINE h == j - i + 1
  <2>1. /\ h \in 1 .. Len(after) /\ h \in 1 .. Len(s) - i
        /\ Len(before) + h = j /\ i + h = j + 1
    BY <1>1, <1>2, <1>3
  <2> HIDE DEF h
  <2>2. new[Len(before) + h] = after[h]
    BY <1>5, <2>1
  <2>3. after[h] = s[i + h]
    BY <1>3, <2>1
  <2> QED BY <2>1, <2>2, <2>3
<1>9. DOMAIN new = 1 .. Len(s) - 1 /\ new \in Seq(S)
  BY <1>5, <1>6
<1> QED BY <1>4, <1>7, <1>8, <1>9, Zenon

\* A list is a function on 1 .. Len(list), and finitely many delegations are on it.
LEMMA ListDomain ==
    ASSUME NEW list \in Seq(Bond)
    PROVE  /\ Len(list) \in Nat
           /\ DOMAIN list = 1 .. Len(list)
           /\ \A i \in 1 .. Len(list) : list[i] \in Bond
           /\ Entries(list) \subseteq Bond
           /\ IsFiniteSet(Entries(list))
           /\ list = <<>> <=> Entries(list) = {}
           /\ list = <<>> <=> Len(list) = 0
<1>1. /\ Len(list) \in Nat /\ DOMAIN list = 1 .. Len(list)
      /\ \A i \in 1 .. Len(list) : list[i] \in Bond
  BY LenProperties, ElementOfSeq
<1>2. Entries(list) \subseteq Bond
  BY <1>1 DEF Entries
<1>3. IsFiniteSet(Entries(list))
  <2> DEFINE at == [i \in DOMAIN list |-> list[i]]
  <2>1. at \in Surjection(DOMAIN list, Entries(list))
    BY DEF Surjection, Entries
  <2>2. IsFiniteSet(DOMAIN list)
    BY <1>1, IntervalIsFinite
  <2> QED BY <2>1, <2>2, FS_Surjection, Zenon
<1>4. list = <<>> <=> Len(list) = 0
  BY EmptySeq
<1>5. Len(list) = 0 <=> Entries(list) = {}
  <2>1. ASSUME Len(list) = 0 PROVE Entries(list) = {}
    BY <1>1, <2>1 DEF Entries
  <2>2. ASSUME Len(list) # 0 PROVE Entries(list) # {}
    <3>1. 1 \in DOMAIN list
      BY <1>1, <2>2
    <3> QED BY <3>1 DEF Entries
  <2> QED BY <2>1, <2>2
<1> QED BY <1>1, <1>2, <1>3, <1>4, <1>5, Zenon

\* Inserting a delegation adds it and nothing else.
LEMMA InsertEntries ==
    ASSUME NEW list \in Seq(Bond), NEW i \in 1 .. Len(list) + 1, NEW e \in Bond
    PROVE  Entries(InsertAt(list, i, e)) = Entries(list) \cup {e}
<1> DEFINE new == InsertAt(list, i, e)
<1>1. Len(list) \in Nat /\ DOMAIN list = 1 .. Len(list)
  BY ListDomain
<1>2. /\ DOMAIN new = 1 .. Len(list) + 1
      /\ \A j \in 1 .. i - 1 : new[j] = list[j]
      /\ new[i] = e
      /\ \A j \in i .. Len(list) : new[j + 1] = list[j]
  BY InsertAtElements
<1> HIDE DEF new
<1>3. ASSUME NEW j \in 1 .. Len(list) + 1 PROVE new[j] \in Entries(list) \cup {e}
  <2>1. CASE j < i
    BY <1>1, <1>2, <2>1 DEF Entries
  <2>2. CASE j = i
    BY <1>2, <2>2
  <2>3. CASE j > i
    <3>1. PICK k \in i .. Len(list) : j = k + 1
      BY <1>1, <2>3
    <3> QED BY <1>1, <1>2, <3>1 DEF Entries
  <2> QED BY <1>1, <2>1, <2>2, <2>3
<1>4. ASSUME NEW j \in 1 .. Len(list) PROVE list[j] \in Entries(new)
  <2>1. CASE j < i
    BY <1>1, <1>2, <2>1 DEF Entries
  <2>2. CASE j >= i
    <3>1. j + 1 \in DOMAIN new /\ new[j + 1] = list[j]
      BY <1>1, <1>2, <2>2
    <3> QED BY <3>1 DEF Entries
  <2> QED BY <1>1, <2>1, <2>2
<1>5. e \in Entries(new)
  BY <1>1, <1>2 DEF Entries
<1>6. Entries(new) \subseteq Entries(list) \cup {e}
  BY <1>2, <1>3 DEF Entries
<1>7. Entries(list) \subseteq Entries(new)
  BY <1>1, <1>4 DEF Entries
<1> QED BY <1>5, <1>6, <1>7 DEF new

\* Inserting a newcomer between the greater and the lesser delegations keeps the order.
LEMMA InsertOrderly ==
    ASSUME NEW list, Orderly(list), NEW i \in 1 .. Len(list) + 1, NEW e \in Bond,
           \A b \in Entries(list) : b.owner # e.owner,
           \A j \in 1 .. i - 1 : list[j].amount >= e.amount,
           \A j \in i .. Len(list) : e.amount >= list[j].amount
    PROVE  Orderly(InsertAt(list, i, e))
<1> DEFINE new == InsertAt(list, i, e)
           n == Len(list)
<1>1. list \in Seq(Bond) /\ OneEach(list) /\ Falling(list)
  BY DEF Orderly
<1>2. n \in Nat /\ DOMAIN list = 1 .. n /\ \A j \in 1 .. n : list[j] \in Bond
  BY <1>1, ListDomain
<1>3. /\ new \in Seq(Bond)
      /\ DOMAIN new = 1 .. n + 1
      /\ \A j \in 1 .. i - 1 : new[j] = list[j]
      /\ new[i] = e
      /\ \A j \in i .. n : new[j + 1] = list[j]
  BY <1>1, InsertAtElements
<1>4. \A j \in 1 .. n : list[j].owner # e.owner /\ list[j].amount \in Nat
  BY <1>2 DEF Entries, Bond
<1>5. e.amount \in Nat /\ i \in 1 .. n + 1
  BY DEF Bond
<1>6. /\ \A j, k \in 1 .. n : list[j].owner = list[k].owner => j = k
      /\ \A j, k \in 1 .. n : j < k => list[j].amount >= list[k].amount
  BY <1>1, <1>2 DEF OneEach, Falling
<1>7. /\ \A j \in 1 .. i - 1 : list[j].amount >= e.amount
      /\ \A j \in i .. n : e.amount >= list[j].amount
  OBVIOUS
<1> HIDE DEF new, n
\* where each position of the new list comes from
<1>8. ASSUME NEW j \in 1 .. n + 1
      PROVE  \/ j < i /\ j \in 1 .. n /\ new[j] = list[j]
             \/ j = i /\ new[j] = e
             \/ j > i /\ j - 1 \in 1 .. n /\ j - 1 >= i /\ new[j] = list[j - 1]
  <2>1. CASE j < i
    BY <1>2, <1>3, <1>5, <2>1
  <2>2. CASE j = i
    BY <1>3, <2>2
  <2>3. CASE j > i
    <3>1. PICK k \in i .. n : j = k + 1
      BY <1>2, <1>5, <2>3
    <3>2. j - 1 = k /\ k \in 1 .. n
      BY <1>5, <1>2, <3>1
    <3> QED BY <1>3, <2>3, <3>1, <3>2
  <2> QED BY <1>5, <2>1, <2>2, <2>3
<1>9. OneEach(new)
  <2> SUFFICES ASSUME NEW j \in 1 .. n + 1, NEW k \in 1 .. n + 1, new[j].owner = new[k].owner
               PROVE  j = k
    BY <1>3 DEF OneEach
  <2> QED BY <1>2, <1>4, <1>5, <1>6, <1>8
<1>10. Falling(new)
  <2> SUFFICES ASSUME NEW j \in 1 .. n + 1, NEW k \in 1 .. n + 1, j < k
               PROVE  new[j].amount >= new[k].amount
    BY <1>3 DEF Falling
  <2>1. \A h \in 1 .. n : list[h].amount \in Nat
    BY <1>4
  <2>2. CASE j < i
    BY <1>2, <1>4, <1>5, <1>6, <1>7, <1>8, <2>2
  <2>3. CASE j = i
    BY <1>2, <1>4, <1>5, <1>6, <1>7, <1>8, <2>3
  <2>4. CASE j > i
    BY <1>2, <1>4, <1>5, <1>6, <1>7, <1>8, <2>4
  <2> QED BY <1>5, <2>2, <2>3, <2>4
<1> QED BY <1>3, <1>9, <1>10 DEF Orderly, new

\* Removing a position takes its delegation away, no other, and keeps the order.
LEMMA RemoveOrderly ==
    ASSUME NEW list, Orderly(list), NEW i \in DOMAIN list
    PROVE  /\ Orderly(RemoveAt(list, i))
           /\ Entries(RemoveAt(list, i)) = Entries(list) \ {list[i]}
<1> DEFINE new == RemoveAt(list, i)
           n == Len(list)
<1>1. list \in Seq(Bond) /\ OneEach(list) /\ Falling(list)
  BY DEF Orderly
<1>2. /\ n \in Nat /\ DOMAIN list = 1 .. n /\ i \in 1 .. n
      /\ \A j \in 1 .. n : list[j] \in Bond
  BY <1>1, ListDomain
<1>3. /\ new \in Seq(Bond)
      /\ DOMAIN new = 1 .. n - 1
      /\ \A j \in 1 .. i - 1 : new[j] = list[j]
      /\ \A j \in i .. n - 1 : new[j] = list[j + 1]
  BY <1>1, <1>2, RemoveAtElements
<1>4. /\ \A j, k \in 1 .. n : list[j].owner = list[k].owner => j = k
      /\ \A j, k \in 1 .. n : j < k => list[j].amount >= list[k].amount
  BY <1>1, <1>2 DEF OneEach, Falling
<1> HIDE DEF new, n
<1>5. ASSUME NEW j \in 1 .. n - 1
      PROVE  \/ j < i /\ j \in 1 .. n /\ new[j] = list[j]
             \/ j >= i /\ j + 1 \in 1 .. n /\ new[j] = list[j + 1]
  BY <1>2, <1>3
<1>6. OneEach(new)
  <2> SUFFICES ASSUME NEW j \in 1 .. n - 1, NEW k \in 1 .. n - 1, new[j].owner = new[k].owner
               PROVE  j = k
    BY <1>3 DEF OneEach
  <2> QED BY <1>2, <1>4, <1>5
<1>7. Falling(new)
  <2> SUFFICES ASSUME NEW j \in 1 .. n - 1, NEW k \in 1 .. n - 1, j < k
               PROVE  new[j].amount >= new[k].amount
    BY <1>3 DEF Falling
  <2> QED BY <1>2, <1>4, <1>5
<1>8. ASSUME NEW j \in 1 .. n - 1 PROVE new[j] \in Entries(list) \ {list[i]}
  <2>1. PICK k \in 1 .. n : k # i /\ new[j] = list[k]
    BY <1>2, <1>5
  <2>2. list[k] # list[i]
    BY <1>2, <1>4, <2>1
  <2> QED BY <1>2, <2>1, <2>2 DEF Entries
<1>9. ASSUME NEW k \in 1 .. n, list[k] # list[i] PROVE list[k] \in Entries(new)
  <2>1. CASE k < i
    BY <1>2, <1>3, <2>1 DEF Entries
  <2>2. CASE k > i
    <3>1. PICK j \in i .. n - 1 : k = j + 1
      BY <1>2, <2>2
    <3> QED BY <1>2, <1>3, <3>1 DEF Entries
  <2> QED BY <1>2, <1>9, <2>1, <2>2
<1>10. Entries(new) \subseteq Entries(list) \ {list[i]}
  BY <1>3, <1>8 DEF Entries
<1>11. Entries(list) \ {list[i]} \subseteq Entries(new)
  BY <1>2, <1>9 DEF Entries
<1> QED BY <1>3, <1>6, <1>7, <1>10, <1>11 DEF Orderly, new

\* A set of positions that has every position before one it has is an initial stretch.
LEMMA InitialStretch ==
    ASSUME NEW n \in Nat, NEW S, S \subseteq 1 .. n,
           \A i \in S : \A j \in 1 .. i : j \in S
    PROVE  Cardinality(S) \in 0 .. n /\ S = 1 .. Cardinality(S)
<1> DEFINE c == Cardinality(S)
<1>1. c \in 0 .. n
  BY CountInRange
<1>2. IsFiniteSet(S)
  BY IntervalIsFinite, FS_Subset
<1>3. ASSUME NEW i \in S PROVE i <= c
  <2>1. i \in Nat /\ 1 .. i \subseteq S
    BY <1>3
  <2>2. Cardinality(1 .. i) = i
    BY <2>1, IntervalIsFinite
  <2> QED BY <1>2, <2>1, <2>2, FS_Subset
<1>4. S \subseteq 1 .. c
  BY <1>1, <1>3
<1>5. IsFiniteSet(1 .. c) /\ Cardinality(1 .. c) = c
  BY <1>1, IntervalIsFinite
<1>6. S = 1 .. c
  BY <1>4, <1>5, FS_Subset
<1> QED BY <1>1, <1>6

\* insert_sorted_greatest_to_least adds a newcomer's delegation and keeps the order.
LEMMA InsertSortedEntries ==
    ASSUME NEW dels \in Delegations, Orderly(dels.list), NEW e \in Bond,
           \A b \in Entries(dels.list) : b.owner # e.owner
    PROVE  LET new == InsertSorted(dels, e) IN
           /\ Orderly(new.list)
           /\ Entries(new.list) = Entries(dels.list) \cup {e}
           /\ new.total = dels.total + e.amount
<1> DEFINE list == dels.list
           n == Len(list)
           ahead == {i \in DOMAIN list : list[i].amount >= e.amount}
           at == Cardinality(ahead) + 1
<1>1. list \in Seq(Bond) /\ Falling(list) /\ Orderly(list)
  BY DEF Orderly
<1>2. /\ n \in Nat /\ DOMAIN list = 1 .. n /\ e.amount \in Nat
      /\ \A j \in 1 .. n : list[j].amount \in Nat
  BY <1>1, ListDomain DEF Bond
<1>3. \A j, k \in 1 .. n : j < k => list[j].amount >= list[k].amount
  BY <1>1, <1>2 DEF Falling
<1>4. InsertSorted(dels, e) = [list |-> InsertAt(list, at, e), total |-> dels.total + e.amount]
  BY Zenon DEF InsertSorted, at, ahead, list
<1>5. /\ ahead \subseteq 1 .. n
      /\ \A j \in 1 .. n : j \in ahead <=> list[j].amount >= e.amount
  BY <1>2
<1>6. \A b \in Entries(list) : b.owner # e.owner
  OBVIOUS
<1> HIDE DEF list, n, ahead
<1>7. \A i \in ahead : \A j \in 1 .. i : j \in ahead
  BY <1>2, <1>3, <1>5
<1>8. Cardinality(ahead) \in 0 .. n /\ ahead = 1 .. Cardinality(ahead)
  BY <1>2, <1>5, <1>7, InitialStretch
<1>9. at \in 1 .. n + 1 /\ ahead = 1 .. at - 1
  BY <1>2, <1>8
<1> HIDE DEF at
<1>10. /\ \A j \in 1 .. at - 1 : list[j].amount >= e.amount
       /\ \A j \in at .. n : e.amount >= list[j].amount
  BY <1>2, <1>5, <1>9
<1>11. Orderly(InsertAt(list, at, e))
  BY <1>1, <1>6, <1>9, <1>10, InsertOrderly DEF n
<1>12. Entries(InsertAt(list, at, e)) = Entries(list) \cup {e}
  BY <1>1, <1>9, InsertEntries DEF n
<1> QED BY <1>4, <1>11, <1>12 DEF list

\* A delegation is found on its list by its owner, with its amount.
LEMMA OwnerFound ==
    ASSUME NEW list, Orderly(list), NEW b \in Entries(list)
    PROVE  /\ Holds(list, b.owner)
           /\ Position(list, b.owner) \in DOMAIN list
           /\ list[Position(list, b.owner)] = b
           /\ AmountOf(list, b.owner) = b.amount
<1>1. PICK i \in DOMAIN list : list[i] = b
  BY DEF Entries
<1>2. Holds(list, b.owner)
  BY <1>1, Zenon DEF Holds
<1>3. /\ Position(list, b.owner) \in DOMAIN list
      /\ list[Position(list, b.owner)].owner = b.owner
  BY <1>1, Zenon DEF Position
<1>4. Position(list, b.owner) = i
  BY <1>1, <1>3, Zenon DEF Orderly, OneEach
<1> QED BY <1>1, <1>2, <1>3, <1>4, Zenon DEF AmountOf

\* An owner is held by a list when one of its delegations is the owner's.
LEMMA HoldsEntry ==
    ASSUME NEW list, NEW who
    PROVE  Holds(list, who) <=> \E b \in Entries(list) : b.owner = who
BY DEF Holds, Entries

\* An owner has one delegation on a list.
LEMMA OneOfOwner ==
    ASSUME NEW list, Orderly(list), NEW a \in Entries(list), NEW b \in Entries(list),
           a.owner = b.owner
    PROVE  a = b
<1>1. list[Position(list, a.owner)] = a /\ list[Position(list, b.owner)] = b
  BY OwnerFound
<1> QED BY <1>1

\* Taking an owner off its list takes away the owner's delegation.
LEMMA RemoveOwnerEntries ==
    ASSUME NEW dels, Orderly(dels.list), NEW b \in Entries(dels.list)
    PROVE  LET new == RemoveOwner(dels, b.owner) IN
           /\ Orderly(new.list)
           /\ Entries(new.list) = Entries(dels.list) \ {b}
           /\ new.total = Sub(dels.total, b.amount)
<1>1. /\ Position(dels.list, b.owner) \in DOMAIN dels.list
      /\ dels.list[Position(dels.list, b.owner)] = b
      /\ AmountOf(dels.list, b.owner) = b.amount
  BY OwnerFound
<1> DEFINE new == RemoveAt(dels.list, Position(dels.list, b.owner))
<1>2. Orderly(new) /\ Entries(new) = Entries(dels.list) \ {b}
  BY <1>1, RemoveOrderly
<1>3. RemoveOwner(dels, b.owner) = [list |-> new, total |-> Sub(dels.total, b.amount)]
  BY <1>1, Zenon DEF RemoveOwner, new
<1> QED BY <1>2, <1>3

\* The last delegation of a list is its least, the first its greatest.
LEMMA EndsOfList ==
    ASSUME NEW list, Orderly(list), list # <<>>
    PROVE  /\ Len(list) \in DOMAIN list /\ 1 \in DOMAIN list
           /\ Last(list) = list[Len(list)] /\ Last(list) \in Entries(list)
           /\ \A b \in Entries(list) : b.amount >= Last(list).amount
           /\ Head(list) = list[1] /\ Head(list) \in Entries(list)
           /\ \A b \in Entries(list) : Head(list).amount >= b.amount
<1> DEFINE n == Len(list)
<1>1. list \in Seq(Bond) /\ Falling(list)
  BY DEF Orderly
<1>2. /\ n \in Nat /\ n # 0 /\ DOMAIN list = 1 .. n
      /\ \A j \in 1 .. n : list[j] \in Bond
  BY <1>1, ListDomain
<1>3. Last(list) = list[n]
  BY DEF Last
<1>4. Head(list) = list[1]
  BY <1>1
<1>5. \A j, k \in 1 .. n : j < k => list[j].amount >= list[k].amount
  BY <1>1, <1>2 DEF Falling
<1>6. \A j \in 1 .. n : list[j].amount \in Nat
  BY <1>2 DEF Bond
<1> HIDE DEF n
<1>7. 1 \in 1 .. n /\ n \in 1 .. n
  BY <1>2
<1>8. \A j \in 1 .. n : list[1].amount >= list[j].amount /\ list[j].amount >= list[n].amount
  BY <1>2, <1>5, <1>6, <1>7
<1>9. list[1] \in Entries(list) /\ list[n] \in Entries(list)
  BY <1>2, <1>7 DEF Entries
<1>10. \A b \in Entries(list) : list[1].amount >= b.amount /\ b.amount >= list[n].amount
  BY <1>2, <1>8 DEF Entries
<1> QED BY <1>2, <1>3, <1>4, <1>7, <1>9, <1>10 DEF n

\* Popping an end of a list is removing that position.
LEMMA PopIsRemove ==
    ASSUME NEW list \in Seq(Bond), list # <<>>
    PROVE  /\ Front(list) = RemoveAt(list, Len(list))
           /\ Tail(list) = RemoveAt(list, 1)
<1> DEFINE n == Len(list)
           noLast == RemoveAt(list, n)
           noFirst == RemoveAt(list, 1)
<1>1. /\ n \in Nat /\ n # 0 /\ DOMAIN list = 1 .. n
      /\ \A j \in 1 .. n : list[j] \in Bond
  BY ListDomain
<1>2. 1 \in 1 .. n /\ n \in 1 .. n
  BY <1>1
<1>3. /\ noLast \in Seq(Bond) /\ Len(noLast) = n - 1
      /\ \A j \in 1 .. n - 1 : noLast[j] = list[j]
  BY <1>2, RemoveAtSeq, RemoveAtElements
<1>4. /\ noFirst \in Seq(Bond) /\ Len(noFirst) = n - 1
      /\ \A j \in 1 .. n - 1 : noFirst[j] = list[j + 1]
  BY <1>2, RemoveAtSeq, RemoveAtElements
<1>5. /\ Front(list) \in Seq(Bond) /\ Len(Front(list)) = n - 1
      /\ \A j \in 1 .. n - 1 : Front(list)[j] = list[j]
  BY <1>1, SubSeqProperties DEF Front
<1>6. /\ Tail(list) \in Seq(Bond) /\ Len(Tail(list)) = n - 1
      /\ \A j \in 1 .. n - 1 : Tail(list)[j] = list[j + 1]
  BY <1>1, HeadTailProperties
<1> DEFINE front == Front(list)
           tail == Tail(list)
<1> HIDE DEF n, noLast, noFirst, front, tail
<1>7. front = noLast
  BY <1>3, <1>5, SeqEqual DEF front
<1>8. tail = noFirst
  BY <1>4, <1>6, SeqEqual DEF tail
<1> QED BY <1>7, <1>8 DEF n, noLast, noFirst, front, tail

\* Popping the lowest delegation is taking its owner off the list.
LEMMA PopLowestEntries ==
    ASSUME NEW dels, Orderly(dels.list), dels.list # <<>>
    PROVE  LET new == PopLowest(dels) IN
           /\ Orderly(new.list)
           /\ Entries(new.list) = Entries(dels.list) \ {Last(dels.list)}
           /\ new.total = Sub(dels.total, Last(dels.list).amount)
<1>1. /\ Len(dels.list) \in DOMAIN dels.list
      /\ Last(dels.list) = dels.list[Len(dels.list)]
  BY EndsOfList
<1>2. Front(dels.list) = RemoveAt(dels.list, Len(dels.list))
  BY PopIsRemove DEF Orderly
<1>3. /\ Orderly(Front(dels.list))
      /\ Entries(Front(dels.list)) = Entries(dels.list) \ {Last(dels.list)}
  BY <1>1, <1>2, RemoveOrderly
<1>4. PopLowest(dels) = [list |-> Front(dels.list),
                         total |-> Sub(dels.total, Last(dels.list).amount)]
  BY Zenon DEF PopLowest
<1> QED BY <1>3, <1>4

\* Popping the highest delegation is taking its owner off the list.
LEMMA PopHighestEntries ==
    ASSUME NEW dels, Orderly(dels.list), dels.list # <<>>
    PROVE  LET new == PopHighest(dels) IN
           /\ Orderly(new.list)
           /\ Entries(new.list) = Entries(dels.list) \ {Head(dels.list)}
           /\ new.total = Sub(dels.total, Head(dels.list).amount)
<1>1. /\ 1 \in DOMAIN dels.list
      /\ Head(dels.list) = dels.list[1]
  BY EndsOfList
<1>2. Tail(dels.list) = RemoveAt(dels.list, 1)
  BY PopIsRemove DEF Orderly
<1>3. /\ Orderly(Tail(dels.list))
      /\ Entries(Tail(dels.list)) = Entries(dels.list) \ {Head(dels.list)}
  BY <1>1, <1>2, RemoveOrderly
<1>4. PopHighest(dels) = [list |-> Tail(dels.list),
                          total |-> Sub(dels.total, Head(dels.list).amount)]
  BY Zenon DEF PopHighest
<1> QED BY <1>3, <1>4

\* Changing an amount and sorting replaces one delegation and keeps the order.
LEMMA ResortEntries ==
    ASSUME NEW list, Orderly(list), NEW b \in Entries(list), NEW amount \in Nat
    PROVE  LET new == Resort(list, b.owner, amount) IN
           /\ Orderly(new)
           /\ Entries(new) = (Entries(list) \ {b}) \cup {[owner |-> b.owner, amount |-> amount]}
<1> DEFINE p == Position(list, b.owner)
           n == Len(list)
           ahead == {i \in DOMAIN list : \/ i < p /\ list[i].amount >= amount
                                         \/ i > p /\ list[i].amount > amount}
           rest == RemoveAt(list, p)
           c == Cardinality(ahead)
           changed == [owner |-> b.owner, amount |-> amount]
<1>1. list \in Seq(Bond) /\ OneEach(list) /\ Falling(list)
  BY DEF Orderly
<1>2. /\ n \in Nat /\ DOMAIN list = 1 .. n
      /\ \A j \in 1 .. n : list[j] \in Bond /\ list[j].amount \in Nat
  BY <1>1, ListDomain DEF Bond
<1>3. p \in 1 .. n /\ list[p] = b
  BY <1>2, OwnerFound
<1>4. changed \in Bond /\ changed.amount = amount /\ changed.owner = b.owner
  BY <1>2, <1>3 DEF Bond
<1>5. Resort(list, b.owner, amount) = InsertAt(rest, c + 1, changed)
  BY Zenon DEF Resort, rest, c, ahead, p, changed
<1>6. Orderly(rest) /\ Entries(rest) = Entries(list) \ {b}
  BY <1>2, <1>3, RemoveOrderly
<1>7. /\ rest \in Seq(Bond) /\ Len(rest) = n - 1
      /\ \A j \in 1 .. p - 1 : rest[j] = list[j]
      /\ \A j \in p .. n - 1 : rest[j] = list[j + 1]
  BY <1>1, <1>3, RemoveAtSeq, RemoveAtElements
<1>8. /\ ahead \subseteq 1 .. n
      /\ \A j \in 1 .. n : j \in ahead <=> \/ j < p /\ list[j].amount >= amount
                                           \/ j > p /\ list[j].amount > amount
  BY <1>2
<1>9. \A j, k \in 1 .. n : j < k => list[j].amount >= list[k].amount
  BY <1>1, <1>2 DEF Falling
<1> HIDE DEF p, n, ahead, rest, changed
\* the delegations ahead fill the new list up to c, those behind come after
<1>10. /\ c \in 0 .. n - 1
       /\ \A j \in 1 .. c : j < p => j \in ahead
       /\ \A j \in 1 .. c : j >= p => j + 1 \in ahead
       /\ \A j \in c + 1 .. n - 1 : j < p => j \notin ahead
       /\ \A j \in c + 1 .. n - 1 : j >= p => j + 1 \notin ahead
  <2>1. CASE \E i \in ahead : i > p
    <3>1. PICK i \in ahead : i > p
      BY <2>1
    <3> DEFINE all == ahead \cup {p}
    <3>2. i \in 1 .. n /\ list[i].amount > amount
      BY <1>3, <1>8, <3>1
    <3>3. \A k \in all : \A j \in 1 .. k : j \in all
      <4> SUFFICES ASSUME NEW k \in all, NEW j \in 1 .. k, j # p PROVE j \in ahead
        OBVIOUS
      <4>0. k \in 1 .. n
        BY <1>3, <1>8
      <4>1. k \in 1 .. n /\ j \in 1 .. n
        BY <1>2, <4>0
      <4>2. CASE j < p
        <5>1. list[j].amount >= list[i].amount
          BY <1>3, <1>9, <3>1, <3>2, <4>1, <4>2
        <5> QED BY <1>2, <1>8, <3>2, <4>1, <4>2, <5>1
      <4>3. CASE j > p
        <5>1. list[k].amount > amount
          BY <1>3, <1>8, <4>1, <4>3
        <5>2. j = k \/ list[j].amount >= list[k].amount
          BY <1>9, <4>1
        <5> QED BY <1>2, <1>8, <4>1, <4>3, <5>1, <5>2
      <4> QED BY <1>3, <4>1, <4>2, <4>3
    <3>4. all \subseteq 1 .. n
      BY <1>3, <1>8
    <3> HIDE DEF all
    <3>5. Cardinality(all) \in 0 .. n /\ all = 1 .. Cardinality(all)
      BY <1>2, <3>3, <3>4, InitialStretch
    <3>6. IsFiniteSet(ahead) /\ c \in Nat
      BY <1>2, <1>8, IntervalIsFinite, FS_Subset, FS_CardinalityType
    <3>7. p \notin ahead
      BY <1>3, <1>8
    <3>8. Cardinality(all) = c + 1
      BY <3>6, <3>7, FS_AddElement DEF all
    <3>9. ahead = (1 .. c + 1) \ {p} /\ p \in 1 .. c + 1 /\ c + 1 <= n
      BY <3>5, <3>6, <3>7, <3>8 DEF all
    <3> HIDE DEF c
    <3>10. i \in 1 .. c + 1
      BY <3>1, <3>9
    <3> QED BY <1>2, <1>3, <3>1, <3>6, <3>9, <3>10
  <2>2. CASE ~\E i \in ahead : i > p
    <3>1. \A k \in ahead : k < p
      BY <1>3, <1>8, <2>2
    <3>2. \A k \in ahead : \A j \in 1 .. k : j \in ahead
      <4> SUFFICES ASSUME NEW k \in ahead, NEW j \in 1 .. k PROVE j \in ahead
        OBVIOUS
      <4>0. k \in 1 .. n /\ k < p
        BY <1>8, <3>1
      <4>1. k \in 1 .. n /\ j \in 1 .. n /\ k < p /\ j < p
        BY <1>2, <1>3, <4>0
      <4>2. j = k \/ list[j].amount >= list[k].amount
        BY <1>9, <4>1
      <4> QED BY <1>2, <1>8, <4>1, <4>2
    <3>3. c \in 0 .. n /\ ahead = 1 .. c
      BY <1>2, <1>8, <3>2, InitialStretch
    <3> HIDE DEF c
    <3>4. c < p
      <4>1. CASE c = 0
        BY <1>3, <4>1
      <4>2. CASE c # 0
        <5>1. c \in ahead
          BY <3>3, <4>2
        <5> QED BY <3>1, <5>1
      <4> QED BY <4>1, <4>2
    <3> QED BY <1>2, <1>3, <3>1, <3>3, <3>4
  <2> QED BY <2>1, <2>2
<1> HIDE DEF c
<1>11. ASSUME NEW j \in 1 .. c PROVE rest[j].amount >= amount
  <2>1. j \in 1 .. n - 1
    BY <1>2, <1>10
  <2>2. CASE j < p
    <3>1. j \in ahead /\ rest[j] = list[j] /\ j \in 1 .. n
      BY <1>2, <1>3, <1>7, <1>10, <2>1, <2>2
    <3> QED BY <1>2, <1>3, <1>8, <3>1, <2>2
  <2>3. CASE j >= p
    <3>1. j + 1 \in ahead /\ rest[j] = list[j + 1] /\ j + 1 \in 1 .. n /\ j + 1 > p
      BY <1>2, <1>3, <1>7, <1>10, <2>1, <2>3
    <3>2. ~(j + 1 < p)
      BY <1>3, <2>1, <2>3
    <3>3. list[j + 1].amount > amount
      BY <1>8, <3>1, <3>2
    <3> QED BY <1>2, <3>1, <3>3
  <2> QED BY <1>3, <2>1, <2>2, <2>3
<1>12. ASSUME NEW j \in c + 1 .. n - 1 PROVE amount >= rest[j].amount
  <2>1. j \in 1 .. n - 1
    BY <1>2, <1>10
  <2>2. CASE j < p
    <3>1. j \notin ahead /\ rest[j] = list[j] /\ j \in 1 .. n
      BY <1>2, <1>3, <1>7, <1>10, <2>1, <2>2
    <3> QED BY <1>2, <1>3, <1>8, <3>1, <2>2
  <2>3. CASE j >= p
    <3>1. j + 1 \notin ahead /\ rest[j] = list[j + 1] /\ j + 1 \in 1 .. n /\ j + 1 > p
      BY <1>2, <1>3, <1>7, <1>10, <2>1, <2>3
    <3>2. ~(list[j + 1].amount > amount)
      BY <1>8, <3>1
    <3> QED BY <1>2, <3>1, <3>2
  <2> QED BY <1>3, <2>1, <2>2, <2>3
<1>13. \A a \in Entries(rest) : a.owner # changed.owner
  BY <1>4, <1>6, OneOfOwner
<1>14. c + 1 \in 1 .. Len(rest) + 1
  BY <1>2, <1>7, <1>10
<1>15. /\ \A j \in 1 .. (c + 1) - 1 : rest[j].amount >= changed.amount
       /\ \A j \in c + 1 .. Len(rest) : changed.amount >= rest[j].amount
  <2>1. (c + 1) - 1 = c
    BY <1>10
  <2> QED BY <1>4, <1>7, <1>11, <1>12, <2>1
<1>16. Orderly(InsertAt(rest, c + 1, changed))
  BY <1>4, <1>6, <1>13, <1>14, <1>15, InsertOrderly
<1>17. Entries(InsertAt(rest, c + 1, changed)) = Entries(rest) \cup {changed}
  BY <1>4, <1>7, <1>14, InsertEntries
<1> QED BY <1>5, <1>6, <1>16, <1>17 DEF changed

-----------------------------------------------------------------------------
(* The stake of a list *)

\* The stake of finitely many delegations is a balance.
LEMMA StakeInNat ==
    ASSUME NEW S, IsFiniteSet(S), S \subseteq Bond
    PROVE  StakeOf(S) \in Nat
BY SumInNat DEF StakeOf, Bond

\* One delegation more adds its amount to the stake.
LEMMA StakeOfAdded ==
    ASSUME NEW S, IsFiniteSet(S), S \subseteq Bond, NEW e \in Bond, e \notin S
    PROVE  StakeOf(S \cup {e}) = StakeOf(S) + e.amount
<1> DEFINE f == [b \in S |-> b.amount]
           g == [b \in S \cup {e} |-> b.amount]
<1>1. IsFiniteSet(DOMAIN f) /\ f \in [DOMAIN f -> Nat] /\ e \notin DOMAIN f /\ e.amount \in Nat
  BY DEF Bond
<1>2. g = Put(f, e, e.amount)
  BY DEF Put
<1> HIDE DEF f, g
<1>3. SumOf(g) = SumOf(f) + e.amount
  BY <1>1, <1>2, SumOfPutNew
<1> QED BY <1>3 DEF StakeOf, f, g

\* One delegation less takes its amount off the stake.
LEMMA StakeOfRemoved ==
    ASSUME NEW S, IsFiniteSet(S), S \subseteq Bond, NEW b \in S
    PROVE  /\ StakeOf(S \ {b}) \in Nat
           /\ StakeOf(S) = StakeOf(S \ {b}) + b.amount
<1>1. IsFiniteSet(S \ {b}) /\ S \ {b} \subseteq Bond
  BY FS_Subset
<1>2. S = (S \ {b}) \cup {b}
  OBVIOUS
<1> QED BY <1>1, <1>2, StakeInNat, StakeOfAdded, Zenon

\* Nothing on the list, no stake.
LEMMA StakeOfNone == StakeOf({}) = 0
BY SumOfZeros DEF StakeOf

\* The amounts of a list add up to the stake of the delegations on it.
LEMMA StakeOfList ==
    ASSUME NEW list, Orderly(list)
    PROVE  SumOf([i \in DOMAIN list |-> list[i].amount]) = StakeOf(Entries(list))
<1> DEFINE f == [i \in DOMAIN list |-> list[i].amount]
           g == [b \in Entries(list) |-> b.amount]
           h == [i \in DOMAIN list |-> list[i]]
<1>1. /\ DOMAIN list = 1 .. Len(list) /\ Len(list) \in Nat
      /\ \A i \in DOMAIN list : list[i].amount \in Nat
  BY ListDomain DEF Orderly, Bond
<1>2. IsFiniteSet(DOMAIN f) /\ f \in [DOMAIN f -> Nat]
  BY <1>1, IntervalIsFinite
<1>3. h \in Bijection(DOMAIN f, DOMAIN g)
  <2>1. \A i, j \in DOMAIN list : list[i] = list[j] => i = j
    BY DEF Orderly, OneEach
  <2> QED BY <2>1 DEF Bijection, Injection, Surjection, IsInjective, Entries
<1>4. \A i \in DOMAIN f : g[h[i]] = f[i]
  BY DEF Entries
<1> HIDE DEF f, g, h
<1>5. SumOf(g) = SumOf(f)
  BY <1>2, <1>3, <1>4, SumOfRenamed
<1> QED BY <1>5 DEF StakeOf, f, g

\* A list is as long as it has delegations.
LEMMA LengthOfList ==
    ASSUME NEW list, Orderly(list)
    PROVE  Len(list) = Cardinality(Entries(list))
<1> DEFINE h == [i \in DOMAIN list |-> list[i]]
<1>1. DOMAIN list = 1 .. Len(list) /\ Len(list) \in Nat
  BY ListDomain DEF Orderly
<1>2. h \in Bijection(DOMAIN list, Entries(list))
  <2>1. \A i, j \in DOMAIN list : list[i] = list[j] => i = j
    BY DEF Orderly, OneEach
  <2> QED BY <2>1 DEF Bijection, Injection, Surjection, IsInjective, Entries
<1>3. IsFiniteSet(DOMAIN list) /\ Cardinality(DOMAIN list) = Len(list)
  BY <1>1, IntervalIsFinite
<1> QED BY <1>2, <1>3, FS_Bijection, Zenon DEF ExistsBijection

-----------------------------------------------------------------------------
(* Delegations in order: the list is orderly and the total covers it *)

\* The total is the stake of the list and x more: a bottom total may say too much
\* (DecreaseBottom), but no operation makes it say more than it already did.
Kept(dels, x) ==
    /\ dels \in Delegations
    /\ Orderly(dels.list)
    /\ dels.total = StakeOf(Entries(dels.list)) + x

\* No delegation is on two lists, and none on the first is less than one on the second.
Ranked(top, bottom) ==
    \A a \in Entries(top), b \in Entries(bottom) :
        a.owner # b.owner /\ a.amount >= b.amount

\* The list of what is kept, as a set of delegations.
LEMMA KeptParts ==
    ASSUME NEW x \in Nat, NEW dels, Kept(dels, x)
    PROVE  /\ dels \in Delegations /\ dels.list \in Seq(Bond) /\ dels.total \in Nat
           /\ Orderly(dels.list)
           /\ IsFiniteSet(Entries(dels.list)) /\ Entries(dels.list) \subseteq Bond
           /\ StakeOf(Entries(dels.list)) \in Nat
           /\ dels.list = <<>> <=> Entries(dels.list) = {}
           /\ Len(dels.list) = Cardinality(Entries(dels.list))
<1>1. dels \in Delegations /\ Orderly(dels.list)
  BY DEF Kept
<1>2. dels.list \in Seq(Bond) /\ dels.total \in Nat
  BY <1>1 DEF Delegations
<1>3. /\ IsFiniteSet(Entries(dels.list)) /\ Entries(dels.list) \subseteq Bond
      /\ dels.list = <<>> <=> Entries(dels.list) = {}
  BY <1>2, ListDomain
<1>4. StakeOf(Entries(dels.list)) \in Nat
  BY <1>3, StakeInNat
<1> QED BY <1>1, <1>2, <1>3, <1>4, LengthOfList

\* insert_sorted_greatest_to_least keeps the total of the list.
LEMMA KeptInsert ==
    ASSUME NEW x \in Nat, NEW dels, Kept(dels, x), NEW e \in Bond,
           \A b \in Entries(dels.list) : b.owner # e.owner
    PROVE  /\ Kept(InsertSorted(dels, e), x)
           /\ Entries(InsertSorted(dels, e).list) = Entries(dels.list) \cup {e}
<1> DEFINE new == InsertSorted(dels, e)
           S == Entries(dels.list)
<1>1. /\ dels \in Delegations /\ Orderly(dels.list) /\ dels.total = StakeOf(S) + x
      /\ IsFiniteSet(S) /\ S \subseteq Bond /\ StakeOf(S) \in Nat
  BY KeptParts DEF Kept
<1>2. Orderly(new.list) /\ Entries(new.list) = S \cup {e} /\ new.total = dels.total + e.amount
  BY <1>1, InsertSortedEntries
<1>3. new \in Delegations
  BY <1>1, InsertSortedType
<1>4. e \notin S /\ e.amount \in Nat
  BY DEF Bond
<1> HIDE DEF new, S
<1>5. StakeOf(S \cup {e}) = StakeOf(S) + e.amount
  BY <1>1, <1>4, StakeOfAdded
<1>6. new.total = StakeOf(S \cup {e}) + x
  BY <1>1, <1>2, <1>4, <1>5
<1> QED BY <1>2, <1>3, <1>6 DEF Kept, new, S

\* Taking an owner off the list keeps its total.
LEMMA KeptRemove ==
    ASSUME NEW x \in Nat, NEW dels, Kept(dels, x), NEW b \in Entries(dels.list)
    PROVE  /\ Kept(RemoveOwner(dels, b.owner), x)
           /\ Entries(RemoveOwner(dels, b.owner).list) = Entries(dels.list) \ {b}
<1> DEFINE new == RemoveOwner(dels, b.owner)
           S == Entries(dels.list)
<1>1. /\ dels \in Delegations /\ Orderly(dels.list) /\ dels.total = StakeOf(S) + x
      /\ IsFiniteSet(S) /\ S \subseteq Bond /\ StakeOf(S) \in Nat /\ b \in S
  BY KeptParts DEF Kept
<1>2. Orderly(new.list) /\ Entries(new.list) = S \ {b} /\ new.total = Sub(dels.total, b.amount)
  BY <1>1, RemoveOwnerEntries
<1>3. new \in Delegations
  BY <1>1, OwnerFound, RemoveOwnerType
<1>4. b.amount \in Nat
  BY <1>1 DEF Bond
<1> HIDE DEF new, S
<1>5. StakeOf(S) = StakeOf(S \ {b}) + b.amount /\ StakeOf(S \ {b}) \in Nat
  BY <1>1, StakeOfRemoved
<1>6. new.total = StakeOf(S \ {b}) + x
  BY <1>1, <1>2, <1>4, <1>5 DEF Sub
<1> QED BY <1>2, <1>3, <1>6 DEF Kept, new, S

\* Popping the lowest or the highest delegation keeps the total.
LEMMA KeptPop ==
    ASSUME NEW x \in Nat, NEW dels, Kept(dels, x), dels.list # <<>>
    PROVE  /\ Kept(PopLowest(dels), x)
           /\ Entries(PopLowest(dels).list) = Entries(dels.list) \ {Last(dels.list)}
           /\ Kept(PopHighest(dels), x)
           /\ Entries(PopHighest(dels).list) = Entries(dels.list) \ {Head(dels.list)}
<1> DEFINE S == Entries(dels.list)
           last == Last(dels.list)
           head == Head(dels.list)
           low == PopLowest(dels)
           high == PopHighest(dels)
<1>1. /\ dels \in Delegations /\ Orderly(dels.list) /\ dels.total = StakeOf(S) + x
      /\ IsFiniteSet(S) /\ S \subseteq Bond /\ StakeOf(S) \in Nat
      /\ dels.list \in Seq(Bond)
  BY KeptParts DEF Kept
<1>2. last \in S /\ head \in S
  BY <1>1, EndsOfList
<1>3. Orderly(low.list) /\ Entries(low.list) = S \ {last} /\ low.total = Sub(dels.total, last.amount)
  BY <1>1, PopLowestEntries
<1>4. Orderly(high.list) /\ Entries(high.list) = S \ {head} /\ high.total = Sub(dels.total, head.amount)
  BY <1>1, PopHighestEntries
<1>5. low \in Delegations /\ high \in Delegations
  <2>1. Len(dels.list) > 0
    BY <1>1, ListDomain
  <2> QED BY <1>1, <2>1, PopLowestType, PopHighestType
<1>6. last.amount \in Nat /\ head.amount \in Nat
  BY <1>1, <1>2 DEF Bond
<1> HIDE DEF S, last, head, low, high
<1>7. /\ StakeOf(S) = StakeOf(S \ {last}) + last.amount /\ StakeOf(S \ {last}) \in Nat
      /\ StakeOf(S) = StakeOf(S \ {head}) + head.amount /\ StakeOf(S \ {head}) \in Nat
  BY <1>1, <1>2, StakeOfRemoved
<1>8. low.total = StakeOf(S \ {last}) + x
  BY <1>1, <1>3, <1>6, <1>7 DEF Sub
<1>9. high.total = StakeOf(S \ {head}) + x
  BY <1>1, <1>4, <1>6, <1>7 DEF Sub
<1>10. Kept(low, x) /\ Kept(high, x)
  BY <1>3, <1>4, <1>5, <1>8, <1>9 DEF Kept
<1> QED BY <1>3, <1>4, <1>10 DEF S, last, head, low, high

\* Changing an amount on a list changes its stake by as much.
LEMMA ResortStake ==
    ASSUME NEW x \in Nat, NEW dels, Kept(dels, x), NEW b \in Entries(dels.list),
           NEW amount \in Nat
    PROVE  LET list == Resort(dels.list, b.owner, amount) IN
           /\ list \in Seq(Bond) /\ Orderly(list)
           /\ Entries(list) = (Entries(dels.list) \ {b})
                                  \cup {[owner |-> b.owner, amount |-> amount]}
           /\ StakeOf(Entries(list)) \in Nat /\ b.amount \in Nat
           /\ StakeOf(Entries(list)) + b.amount = StakeOf(Entries(dels.list)) + amount
<1> DEFINE S == Entries(dels.list)
           list == Resort(dels.list, b.owner, amount)
           changed == [owner |-> b.owner, amount |-> amount]
           rest == S \ {b}
<1>1. /\ dels \in Delegations /\ Orderly(dels.list)
      /\ IsFiniteSet(S) /\ S \subseteq Bond /\ StakeOf(S) \in Nat /\ b \in S
  BY KeptParts
<1>2. Orderly(list) /\ Entries(list) = rest \cup {changed}
  BY <1>1, ResortEntries
<1>3. b.amount \in Nat /\ b.owner \in Account /\ changed \in Bond /\ changed.amount = amount
  BY <1>1 DEF Bond
<1>4. changed \notin rest
  <2>1. changed.owner = b.owner
    OBVIOUS
  <2> QED BY <1>1, <2>1, OneOfOwner
<1>5. list \in Seq(Bond)
  BY <1>2 DEF Orderly
<1>6. IsFiniteSet(rest) /\ rest \subseteq Bond
  BY <1>1, FS_RemoveElement
<1> HIDE DEF list, changed, rest, S
<1>7. StakeOf(S) = StakeOf(rest) + b.amount /\ StakeOf(rest) \in Nat
  BY <1>1, StakeOfRemoved DEF rest
<1>8. StakeOf(rest \cup {changed}) = StakeOf(rest) + amount
  BY <1>3, <1>4, <1>6, StakeOfAdded
<1> DEFINE was == StakeOf(rest)
           is == StakeOf(rest \cup {changed})
           all == StakeOf(S)
<1>9. was \in Nat /\ b.amount \in Nat /\ is = was + amount /\ all = was + b.amount
  BY <1>3, <1>7, <1>8
<1> HIDE DEF was, is, all
<1>10. is \in Nat /\ is + b.amount = all + amount
  BY <1>9
<1> QED BY <1>2, <1>3, <1>5, <1>10 DEF list, changed, rest, S, was, is, all

\* A delegation that grows by `more` on its list.
LEMMA KeptGrow ==
    ASSUME NEW x \in Nat, NEW dels, Kept(dels, x), NEW b \in Entries(dels.list),
           NEW more \in Nat, NEW amount \in Nat
    PROVE  LET list == Resort(dels.list, b.owner, amount) IN
           /\ b.amount + more = amount => Kept([list |-> list, total |-> dels.total + more], x)
           /\ Entries(list) = (Entries(dels.list) \ {b})
                                  \cup {[owner |-> b.owner, amount |-> amount]}
<1> DEFINE list == Resort(dels.list, b.owner, amount)
           was == StakeOf(Entries(dels.list))
           is == StakeOf(Entries(list))
           had == b.amount
<1>1. /\ list \in Seq(Bond) /\ Orderly(list)
      /\ Entries(list) = (Entries(dels.list) \ {b}) \cup {[owner |-> b.owner, amount |-> amount]}
      /\ is \in Nat /\ had \in Nat /\ is + had = was + amount
  BY ResortStake
<1>2. dels.total = was + x /\ was \in Nat
  BY KeptParts DEF Kept
<1> HIDE DEF list, was, is, had
<1>3. had + more = amount => dels.total + more \in Nat /\ dels.total + more = is + x
  BY <1>1, <1>2
<1> QED BY <1>1, <1>3 DEF Kept, Delegations, list, is, had

\* A delegation that shrinks by `less` on its list, with the total or without.
LEMMA KeptShrink ==
    ASSUME NEW x \in Nat, NEW dels, Kept(dels, x), NEW b \in Entries(dels.list),
           NEW less \in Nat, NEW amount \in Nat
    PROVE  LET list == Resort(dels.list, b.owner, amount) IN
           /\ b.amount - less = amount =>
                /\ Kept([list |-> list, total |-> Sub(dels.total, less)], x)
                /\ Kept([list |-> list, total |-> dels.total], x + less)
           /\ Entries(list) = (Entries(dels.list) \ {b})
                                  \cup {[owner |-> b.owner, amount |-> amount]}
<1> DEFINE list == Resort(dels.list, b.owner, amount)
           was == StakeOf(Entries(dels.list))
           is == StakeOf(Entries(list))
           had == b.amount
<1>1. /\ list \in Seq(Bond) /\ Orderly(list)
      /\ Entries(list) = (Entries(dels.list) \ {b}) \cup {[owner |-> b.owner, amount |-> amount]}
      /\ is \in Nat /\ had \in Nat /\ is + had = was + amount
  BY ResortStake
<1>2. dels.total = was + x /\ was \in Nat
  BY KeptParts DEF Kept
<1> HIDE DEF list, was, is, had
<1>3. ASSUME had - less = amount
      PROVE  /\ Kept([list |-> list, total |-> Sub(dels.total, less)], x)
             /\ Kept([list |-> list, total |-> dels.total], x + less)
  <2>1. is + less = was
    BY <1>1, <1>2, <1>3
  <2>2. Sub(dels.total, less) \in Nat /\ Sub(dels.total, less) = is + x
    BY <1>1, <1>2, <2>1 DEF Sub
  <2>3. dels.total \in Nat /\ dels.total = is + (x + less)
    BY <1>1, <1>2, <2>1
  <2> QED BY <1>1, <2>2, <2>3 DEF Kept, Delegations, list, is
<1> QED BY <1>1, <1>3 DEF list, had

-----------------------------------------------------------------------------
(* The delegations a book holds *)

\* all delegations to the candidate, whichever list they are on
Contents(book) == Entries(book.top.list) \cup Entries(book.bottom.list)

\* A book whose two lists are one ranking of its delegations.
Ordered(book) ==
    /\ BookInv(book)
    /\ Kept(book.top, 0)
    /\ \E x \in Nat : Kept(book.bottom, x)
    /\ Ranked(book.top.list, book.bottom.list)

\* What an ordered book says of its lists and caches.
LEMMA OrderedParts ==
    ASSUME NEW book, Ordered(book)
    PROVE  LET T == Entries(book.top.list)
               B == Entries(book.bottom.list)
           IN  /\ book \in Book
               /\ Orderly(book.top.list) /\ Orderly(book.bottom.list)
               /\ IsFiniteSet(T) /\ T \subseteq Bond /\ IsFiniteSet(B) /\ B \subseteq Bond
               /\ book.top.list = <<>> <=> T = {}
               /\ book.bottom.list = <<>> <=> B = {}
               /\ Cardinality(T) <= MaxTop /\ Cardinality(B) <= MaxBottom
               /\ Cardinality(T) \in Nat /\ Cardinality(B) \in Nat
               /\ Len(book.top.list) = Cardinality(T)
               /\ Len(book.bottom.list) = Cardinality(B)
               /\ B # {} => Len(book.top.list) = MaxTop
               /\ book.topCapacity = "Full" <=> Len(book.top.list) = MaxTop
               /\ book.bottomCapacity = "Full" <=> Len(book.bottom.list) = MaxBottom
               /\ book.bottomCapacity = "Empty" <=> B = {}
               /\ \A a \in T, b \in B : a.owner # b.owner /\ a.amount >= b.amount
<1> DEFINE top == book.top.list
           bottom == book.bottom.list
           T == Entries(top)
           B == Entries(bottom)
<1>1. PICK x \in Nat : Kept(book.bottom, x)
  BY DEF Ordered
<1>2. Kept(book.top, 0) /\ BookInv(book) /\ 0 \in Nat
  BY DEF Ordered
<1>3. /\ top \in Seq(Bond) /\ Orderly(top) /\ IsFiniteSet(T) /\ T \subseteq Bond
      /\ top = <<>> <=> T = {}
      /\ Len(top) = Cardinality(T)
  BY <1>2, KeptParts, Zenon
<1>4. /\ bottom \in Seq(Bond) /\ Orderly(bottom) /\ IsFiniteSet(B) /\ B \subseteq Bond
      /\ bottom = <<>> <=> B = {}
      /\ Len(bottom) = Cardinality(B)
  BY <1>1, KeptParts, Zenon
<1>5. /\ book \in Book /\ Len(top) <= MaxTop /\ Len(bottom) <= MaxBottom
      /\ Len(bottom) > 0 => Len(top) = MaxTop
      /\ book.topCapacity = CapacityOf(top, MaxTop)
      /\ book.bottomCapacity = CapacityOf(bottom, MaxBottom)
  BY <1>2 DEF BookInv, Sized, TopCached, BottomCached
<1>6. \A a \in T, b \in B : a.owner # b.owner /\ a.amount >= b.amount
  BY DEF Ordered, Ranked
<1> HIDE DEF top, bottom, T, B
<1>7. /\ Len(top) \in Nat
      /\ book.topCapacity = "Full" <=> Len(top) = MaxTop
  BY <1>3, <1>5, CapacityMeaning, CapacitiesPositive
<1>8. /\ Len(bottom) \in Nat /\ bottom = <<>> <=> Len(bottom) = 0
      /\ book.bottomCapacity = "Full" <=> Len(bottom) = MaxBottom
      /\ book.bottomCapacity = "Empty" <=> bottom = <<>>
  BY <1>4, <1>5, CapacityMeaning, CapacitiesPositive
<1>9. B # {} => Len(top) = MaxTop
  BY <1>4, <1>5, <1>8
<1> QED BY <1>3, <1>4, <1>5, <1>6, <1>7, <1>8, <1>9 DEF top, bottom, T, B

\* The cached extremes are those of the delegations themselves.
LEMMA CachedExtremes ==
    ASSUME NEW book, Ordered(book)
    PROVE  LET T == Entries(book.top.list)
               B == Entries(book.bottom.list)
           IN  /\ T # {} => /\ Last(book.top.list) \in T
                            /\ book.lowTop = Last(book.top.list).amount
                            /\ \A a \in T : a.amount >= book.lowTop
               /\ B # {} => /\ Last(book.bottom.list) \in B
                            /\ book.lowBottom = Last(book.bottom.list).amount
                            /\ \A b \in B : b.amount >= book.lowBottom
                            /\ Head(book.bottom.list) \in B
                            /\ book.highBottom = Head(book.bottom.list).amount
                            /\ \A b \in B : book.highBottom >= b.amount
<1>1. /\ Orderly(book.top.list) /\ Orderly(book.bottom.list)
      /\ book.top.list = <<>> <=> Entries(book.top.list) = {}
      /\ book.bottom.list = <<>> <=> Entries(book.bottom.list) = {}
  BY OrderedParts
<1>2. /\ book.lowTop = LowestAmount(book.top.list)
      /\ book.lowBottom = LowestAmount(book.bottom.list)
      /\ book.highBottom = HighestAmount(book.bottom.list)
  BY DEF Ordered, BookInv, TopCached, BottomCached
<1>3. ASSUME Entries(book.top.list) # {}
      PROVE  /\ Last(book.top.list) \in Entries(book.top.list)
             /\ book.lowTop = Last(book.top.list).amount
             /\ \A a \in Entries(book.top.list) : a.amount >= book.lowTop
  <2>1. book.top.list # <<>>
    BY <1>1, <1>3
  <2>2. book.lowTop = Last(book.top.list).amount
    BY <1>2, <2>1 DEF LowestAmount
  <2> QED BY <1>1, <2>1, <2>2, EndsOfList
<1>4. ASSUME Entries(book.bottom.list) # {}
      PROVE  /\ Last(book.bottom.list) \in Entries(book.bottom.list)
             /\ book.lowBottom = Last(book.bottom.list).amount
             /\ \A b \in Entries(book.bottom.list) : b.amount >= book.lowBottom
             /\ Head(book.bottom.list) \in Entries(book.bottom.list)
             /\ book.highBottom = Head(book.bottom.list).amount
             /\ \A b \in Entries(book.bottom.list) : book.highBottom >= b.amount
  <2>1. book.bottom.list # <<>>
    BY <1>1, <1>4
  <2>2. /\ book.lowBottom = Last(book.bottom.list).amount
        /\ book.highBottom = Head(book.bottom.list).amount
    BY <1>2, <2>1 DEF LowestAmount, HighestAmount
  <2> QED BY <1>1, <2>1, <2>2, EndsOfList
<1> QED BY <1>3, <1>4

\* An owner has one delegation in a book.
LEMMA OneInBook ==
    ASSUME NEW book, Ordered(book),
           NEW a \in Contents(book), NEW b \in Contents(book), a.owner = b.owner
    PROVE  a = b
<1>1. /\ Orderly(book.top.list) /\ Orderly(book.bottom.list)
      /\ \A x \in Entries(book.top.list), y \in Entries(book.bottom.list) : x.owner # y.owner
  BY OrderedParts
<1> QED BY <1>1, OneOfOwner DEF Contents

\* The lookup by cached amounts finds the list a delegation is on, though the lowest top
\* and the highest bottom delegation may be of the same amount.
LEMMA LookupFindsList ==
    ASSUME NEW book, Ordered(book), NEW b \in Contents(book)
    PROVE  LET list == LookupList(book, b.owner, b.amount) IN
           /\ RemovalList(book, b.owner, b.amount) = list
           /\ list = "top" => b \in Entries(book.top.list)
           /\ list # "top" => list = "bottom" /\ b \in Entries(book.bottom.list)
           /\ Found(book, list, b.owner)
<1> DEFINE T == Entries(book.top.list)
           B == Entries(book.bottom.list)
           list == LookupList(book, b.owner, b.amount)
<1>1. /\ T \subseteq Bond /\ B \subseteq Bond
      /\ B # {} => book.topCapacity = "Full"
      /\ B # {} => T # {}
      /\ \A x \in T, y \in B : x.owner # y.owner /\ x.amount >= y.amount
  <2>1. B # {} => Cardinality(T) = MaxTop
    BY OrderedParts
  <2>2. B # {} => T # {}
    BY <2>1, CapacitiesPositive, FS_EmptySet
  <2> QED BY <2>2, OrderedParts
<1>2. /\ T # {} => Last(book.top.list) \in T /\ book.lowTop = Last(book.top.list).amount
      /\ \A a \in T : a.amount >= book.lowTop
      /\ B # {} => Head(book.bottom.list) \in B /\ book.highBottom = Head(book.bottom.list).amount
      /\ \A y \in B : book.highBottom >= y.amount
  BY CachedExtremes
<1>3. /\ Holds(book.top.list, b.owner) <=> \E a \in T : a.owner = b.owner
      /\ Holds(book.bottom.list, b.owner) <=> \E a \in B : a.owner = b.owner
  BY HoldsEntry
<1>4. b \in T \/ b \in B
  BY DEF Contents
<1>5. ASSUME b \in T PROVE list = "top"
  <2>1. b.amount >= book.lowTop /\ Holds(book.top.list, b.owner)
    BY <1>2, <1>3, <1>5
  <2> QED BY <2>1 DEF LookupList
<1>6. ASSUME b \in B PROVE list = "bottom" /\ book.topCapacity = "Full"
  <2>1. B # {} /\ T # {}
    BY <1>1, <1>6
  <2>2. ~Holds(book.top.list, b.owner)
    BY <1>1, <1>3, <1>6
  <2>3. book.highBottom >= b.amount /\ book.lowTop >= book.highBottom
    BY <1>1, <1>2, <1>6, <2>1
  <2>4. book.highBottom \in Nat /\ book.lowTop \in Nat /\ b.amount \in Nat
    BY <1>1, <1>2, <1>6, <2>1 DEF Bond
  <2>5. ~(b.amount >= book.lowTop /\ (Ambiguous(book) => Holds(book.top.list, b.owner)))
    BY <2>2, <2>3, <2>4 DEF Ambiguous
  <2> QED BY <1>1, <2>1, <2>5 DEF LookupList
<1>7. /\ list = "top" => b \in T
      /\ list # "top" => list = "bottom" /\ b \in B
  BY <1>4, <1>5, <1>6
<1>8. Found(book, list, b.owner)
  BY <1>3, <1>7 DEF Found
<1>9. RemovalList(book, b.owner, b.amount) = list
  BY <1>4, <1>5, <1>6 DEF RemovalList
<1> QED BY <1>7, <1>8, <1>9

\* Writing the two lists of a book, in either order, and its count.
LEMMA WrittenOrdered ==
    ASSUME NEW new, BookInv(new), NEW top, NEW bottom, new.top = top, new.bottom = bottom,
           Kept(top, 0), NEW x \in Nat, Kept(bottom, x), Ranked(top.list, bottom.list)
    PROVE  /\ Ordered(new)
           /\ Contents(new) = Entries(top.list) \cup Entries(bottom.list)
BY DEF Ordered, Contents

\* CandidateMetadata::new holds no delegation.
LEMMA NewBookOrdered ==
    ASSUME NEW bond \in Nat
    PROVE  Ordered(NewBook(bond)) /\ Contents(NewBook(bond)) = {}
<1>1. <<>> \in Seq(Bond) /\ DOMAIN <<>> = {}
  OBVIOUS
<1>2. Entries(<<>>) = {} /\ Orderly(<<>>)
  BY <1>1 DEF Entries, Orderly, OneEach, Falling
<1>3. Kept(NoDelegations, 0)
  <2>1. NoDelegations.list = <<>> /\ NoDelegations.total = 0
    BY DEF NoDelegations
  <2>2. NoDelegations \in Delegations
    BY <1>1 DEF NoDelegations, Delegations
  <2>3. StakeOf(Entries(NoDelegations.list)) = 0
    BY <1>2, <2>1, StakeOfNone
  <2> QED BY <1>2, <2>1, <2>2, <2>3 DEF Kept
<1>4. NewBook(bond).top = NoDelegations /\ NewBook(bond).bottom = NoDelegations
  BY DEF NewBook
<1>5. Ranked(NoDelegations.list, NoDelegations.list) /\ Entries(NoDelegations.list) = {}
  BY <1>2 DEF Ranked, NoDelegations
<1> QED BY <1>3, <1>4, <1>5, NewBookInv, WrittenOrdered

\* add_bottom_delegation: the newcomer takes the place of the least when the list is full.
LEMMA AddBottomContents ==
    ASSUME NEW book, Ordered(book), NEW e \in Bond, NEW bumped \in BOOLEAN,
           \A b \in Entries(book.bottom.list) : b.owner # e.owner
    PROVE  LET added == AddBottom(book, e, bumped) IN
           /\ added.kicked = IF Len(book.bottom.list) = MaxBottom
                             THEN {Last(book.bottom.list)} ELSE {}
           /\ added.book.top = book.top
           /\ \E x \in Nat : Kept(added.book.bottom, x)
           /\ Entries(added.book.bottom.list) =
                (Entries(book.bottom.list) \ added.kicked) \cup {e}
<1> DEFINE added == AddBottom(book, e, bumped)
           B == Entries(book.bottom.list)
           last == Last(book.bottom.list)
           popped == PopLowest(book.bottom)
<1>1. PICK x \in Nat : Kept(book.bottom, x)
  BY DEF Ordered
<1>2. book \in Book /\ book.top \in Delegations
  BY BookLists DEF Ordered, BookInv
<1>3. CASE Len(book.bottom.list) = MaxBottom
  <2>1. book.bottom.list # <<>>
    BY <1>3, EmptySeq, CapacitiesPositive
  <2>2. Kept(popped, x) /\ Entries(popped.list) = B \ {last}
    BY <1>1, <2>1, KeptPop
  <2> DEFINE bottom == InsertSorted(popped, e)
             new == ResetBottom(book, bottom)
  <2>3. Kept(bottom, x) /\ Entries(bottom.list) = (B \ {last}) \cup {e}
    <3>1. \A b \in Entries(popped.list) : b.owner # e.owner
      BY <2>2
    <3> HIDE DEF popped
    <3> QED BY <2>2, <3>1, KeptInsert
  <2>4. added = [book |-> new, kicked |-> {last}]
    BY <1>3 DEF AddBottom
  <2>5. bottom \in Delegations
    BY <2>3 DEF Kept
  <2> HIDE DEF bottom
  <2>6. new.bottom = bottom /\ new.top = book.top
    BY <1>2, <2>5, ResetBottomFacts
  <2> HIDE DEF new, added
  <2> QED BY <1>3, <2>3, <2>4, <2>6 DEF added
<1>4. CASE Len(book.bottom.list) # MaxBottom
  <2> DEFINE bottom == InsertSorted(book.bottom, e)
             written == ResetBottom(book, bottom)
             n == IF bumped THEN written.count ELSE written.count + 1
             new == [written EXCEPT !.count = n]
  <2>1. Kept(bottom, x) /\ Entries(bottom.list) = B \cup {e}
    BY <1>1, KeptInsert
  <2>2. added = [book |-> new, kicked |-> {}]
    BY <1>4 DEF AddBottom
  <2>3. bottom \in Delegations
    BY <2>1 DEF Kept
  <2> HIDE DEF bottom
  <2>4. /\ written \in Book /\ written.bottom = bottom /\ written.top = book.top
        /\ written.count = book.count
    BY <1>2, <2>3, ResetBottomFacts
  <2> HIDE DEF written
  <2>5. n \in Nat
    BY <1>2, <2>4, BookLists
  <2> HIDE DEF n
  <2>6. new.bottom = bottom /\ new.top = book.top
    BY <2>4, <2>5, RecountFacts
  <2> HIDE DEF new, added
  <2> QED BY <1>4, <2>1, <2>2, <2>6 DEF added
<1> QED BY <1>3, <1>4

\* A book is full when both its lists are.
LEMMA ContentsCount ==
    ASSUME NEW book, Ordered(book)
    PROVE  /\ IsFiniteSet(Contents(book)) /\ Contents(book) \subseteq Bond
           /\ Cardinality(Contents(book)) = Len(book.top.list) + Len(book.bottom.list)
<1> DEFINE T == Entries(book.top.list)
           B == Entries(book.bottom.list)
<1>1. /\ IsFiniteSet(T) /\ IsFiniteSet(B) /\ T \subseteq Bond /\ B \subseteq Bond
      /\ Len(book.top.list) = Cardinality(T) /\ Cardinality(T) \in Nat
      /\ Len(book.bottom.list) = Cardinality(B) /\ Cardinality(B) \in Nat
      /\ \A a \in T, b \in B : a.owner # b.owner
  BY OrderedParts
<1>2. T \cap B = {}
  BY <1>1
<1>3. Cardinality(T \cap B) = 0
  BY <1>2, FS_EmptySet
<1>4. Contents(book) = T \cup B
  BY DEF Contents
<1> HIDE DEF T, B
<1>5. /\ IsFiniteSet(T \cup B)
      /\ Cardinality(T \cup B) = Cardinality(T) + Cardinality(B) - Cardinality(T \cap B)
  BY <1>1, FS_Union
<1>6. Cardinality(T \cup B) = Cardinality(T) + Cardinality(B)
  BY <1>1, <1>3, <1>5
<1> QED BY <1>1, <1>4, <1>5, <1>6

\* A newcomer joins the book at its rank: the book stays in order, and only the least
\* delegation of a full book gives way, to a strictly greater one.
LEMMA AddDelegationContents ==
    ASSUME NEW book, Ordered(book), NEW e \in Bond, CanAdd(book, e.amount),
           \A b \in Contents(book) : b.owner # e.owner
    PROVE  LET added == AddDelegation(book, e) IN
           /\ Ordered(added.book)
           /\ Contents(added.book) = (Contents(book) \ added.kicked) \cup {e}
           /\ \/ added.kicked = {} /\ added.less = 0
              \/ \E k \in Contents(book) :
                    /\ added.kicked = {k} /\ added.less = k.amount
                    /\ e.amount > k.amount
                    /\ \A b \in Contents(book) : b.amount >= k.amount
                    /\ Cardinality(Contents(book)) = MaxTop + MaxBottom
<1> DEFINE added == AddDelegation(book, e)
           T == Entries(book.top.list)
           B == Entries(book.bottom.list)
           full == Len(book.bottom.list) = MaxBottom
           least == Last(book.bottom.list)
           lowest == Last(book.top.list)
<1>1. /\ book \in Book /\ Kept(book.top, 0) /\ BookInv(book)
      /\ Orderly(book.top.list) /\ Orderly(book.bottom.list)
      /\ T \subseteq Bond /\ B \subseteq Bond
      /\ book.top.list = <<>> <=> T = {}
      /\ book.bottom.list = <<>> <=> B = {}
      /\ B # {} => Len(book.top.list) = MaxTop
      /\ book.topCapacity = "Full" <=> Len(book.top.list) = MaxTop
      /\ book.bottomCapacity = "Full" <=> full
      /\ \A a \in T, b \in B : a.owner # b.owner /\ a.amount >= b.amount
  <2>1. Kept(book.top, 0) /\ BookInv(book)
    BY DEF Ordered
  <2> QED BY <2>1, OrderedParts
<1>2. BookInv(added.book)
  BY <1>1, AddDelegationKeepsInv
<1>3. /\ T # {} => lowest \in T /\ book.lowTop = lowest.amount
                   /\ \A a \in T : a.amount >= book.lowTop
      /\ B # {} => least \in B /\ book.lowBottom = least.amount
                   /\ \A b \in B : b.amount >= book.lowBottom
  BY CachedExtremes
<1>4. Contents(book) = T \cup B
  BY DEF Contents
<1>5. e.amount \in Nat /\ \A b \in T \cup B : b.amount \in Nat /\ b.owner # e.owner
  BY <1>1, <1>4 DEF Bond
<1>6. full => B # {}
  BY <1>1, EmptySeq, CapacitiesPositive
<1>7. Len(book.top.list) = MaxTop => T # {}
  BY <1>1, EmptySeq, CapacitiesPositive
<1>8. Len(book.top.list) = MaxTop /\ full => Cardinality(T \cup B) = MaxTop + MaxBottom
  BY <1>4, ContentsCount
<1>9. CASE GoesToBottom(book, e.amount)
  <2> DEFINE below == AddBottom(book, e, FALSE)
  <2>1. /\ below.kicked = IF full THEN {least} ELSE {}
        /\ below.book.top = book.top
        /\ \E x \in Nat : Kept(below.book.bottom, x)
        /\ Entries(below.book.bottom.list) = (B \ below.kicked) \cup {e}
    BY <1>5, AddBottomContents
  <2>2. added = [book |-> below.book, kicked |-> below.kicked,
                 less |-> IF book.bottomCapacity = "Full" THEN book.lowBottom ELSE 0]
    BY <1>9 DEF AddDelegation
  <2>3. Len(book.top.list) = MaxTop /\ T # {} /\ book.lowTop >= e.amount
    BY <1>1, <1>7, <1>9 DEF GoesToBottom
  <2>4. full => e.amount > least.amount
    BY <1>1, <1>3, <1>6, <1>9 DEF CanAdd
  <2> HIDE DEF T, B, least, lowest, full, below, added
  <2>5. /\ added.book = below.book /\ added.kicked = below.kicked
        /\ added.less = IF full THEN book.lowBottom ELSE 0
    BY <1>1, <2>2
  <2>6. PICK x \in Nat : Kept(below.book.bottom, x)
    BY <2>1
  <2>7. \A a \in T, b \in (B \ below.kicked) \cup {e} : a.owner # b.owner /\ a.amount >= b.amount
    <3>1. lowest.amount \in Nat /\ \A a \in T : a.amount >= lowest.amount /\ lowest.amount >= e.amount
      BY <1>3, <1>5, <2>3
    <3> QED BY <1>1, <1>5, <3>1
  <2>8. Ranked(below.book.top.list, below.book.bottom.list)
    BY <2>1, <2>7 DEF Ranked, T
  <2>9. /\ Ordered(below.book)
        /\ Contents(below.book) = T \cup ((B \ below.kicked) \cup {e})
    BY <1>1, <1>2, <2>1, <2>5, <2>6, <2>8, WrittenOrdered DEF T
  <2>10. \A b \in T : full => b # least
    BY <1>1, <1>3, <1>6
  <2>11. Contents(below.book) = ((T \cup B) \ below.kicked) \cup {e}
    BY <2>1, <2>9, <2>10
  <2>12. CASE full
    <3>1. below.kicked = {least} /\ added.less = least.amount /\ least \in T \cup B
      BY <1>3, <1>6, <2>1, <2>5, <2>12
    <3>2. \A b \in T \cup B : b.amount >= least.amount
      BY <1>1, <1>3, <1>5, <1>6, <2>12
    <3> QED BY <1>4, <1>8, <2>3, <2>4, <2>5, <2>9, <2>11, <2>12, <3>1, <3>2 DEF added
  <2>13. CASE ~full
    BY <1>4, <2>1, <2>5, <2>9, <2>11, <2>13 DEF added
  <2> QED BY <2>12, <2>13
<1>10. CASE ~GoesToBottom(book, e.amount) /\ Len(book.top.list) = MaxTop
  <2> DEFINE below == AddBottom(book, lowest, TRUE)
             popped == PopLowest(book.top)
             top == InsertSorted(popped, e)
             written == ResetTop(below.book, top)
             n == IF book.bottomCapacity = "Full" THEN written.count ELSE written.count + 1
             new == [written EXCEPT !.count = n]
  <2>1. T # {} /\ lowest \in T /\ lowest \in Bond /\ e.amount > lowest.amount
    BY <1>1, <1>3, <1>5, <1>7, <1>10 DEF GoesToBottom
  <2>2. /\ below.kicked = IF full THEN {least} ELSE {}
        /\ below.book.top = book.top
        /\ \E x \in Nat : Kept(below.book.bottom, x)
        /\ Entries(below.book.bottom.list) = (B \ below.kicked) \cup {lowest}
    <3>1. \A b \in B : b.owner # lowest.owner
      BY <1>1, <2>1
    <3> HIDE DEF lowest
    <3> QED BY <2>1, <3>1, AddBottomContents
  <2>3. added = [book |-> new, kicked |-> below.kicked,
                 less |-> IF book.bottomCapacity = "Full" THEN book.lowBottom ELSE 0]
    BY <1>10 DEF AddDelegation, AddTop
  <2>4. Kept(popped, 0) /\ Entries(popped.list) = T \ {lowest}
    BY <1>1, <2>1, KeptPop
  <2>5. Kept(top, 0) /\ Entries(top.list) = (T \ {lowest}) \cup {e}
    <3>1. \A b \in Entries(popped.list) : b.owner # e.owner
      BY <1>5, <2>4
    <3> HIDE DEF popped
    <3> QED BY <2>4, <3>1, KeptInsert
  <2>6. below.book \in Book
    <3>1. Len(book.bottom.list) <= MaxBottom /\ BottomCached(book)
      BY <1>1 DEF BookInv, Sized
    <3> QED BY <1>1, <2>1, <3>1, AddBottomFacts
  <2>7. top \in Delegations
    BY <2>5 DEF Kept
  <2> HIDE DEF T, B, least, lowest, full, below, added, popped, top
  <2>8. written \in Book /\ written.top = top /\ written.bottom = below.book.bottom
    BY <2>6, <2>7, ResetTopFacts
  <2>9. n \in Nat
    BY <2>8, BookLists
  <2> HIDE DEF n, written
  <2>10. new.top = top /\ new.bottom = below.book.bottom
    BY <2>8, <2>9, RecountFacts
  <2> HIDE DEF new
  <2>11. /\ added.book = new /\ added.kicked = below.kicked
         /\ added.less = IF full THEN book.lowBottom ELSE 0
    BY <1>1, <2>3
  <2>12. PICK x \in Nat : Kept(below.book.bottom, x)
    BY <2>2
  <2>13. \A a \in T : a.owner = lowest.owner => a = lowest
    BY <1>1, <2>1, OneOfOwner DEF T
  <2>14. \A a \in (T \ {lowest}) \cup {e}, b \in (B \ below.kicked) \cup {lowest} :
            a.owner # b.owner /\ a.amount >= b.amount
    <3>1. lowest.amount \in Nat /\ \A a \in T : a.amount >= lowest.amount
      BY <1>3, <1>5, <2>1
    <3>2. ASSUME NEW a \in T \ {lowest}, NEW b \in B PROVE a.owner # b.owner /\ a.amount >= b.amount
      BY <1>1
    <3>3. ASSUME NEW a \in T \ {lowest} PROVE a.owner # lowest.owner /\ a.amount >= lowest.amount
      BY <2>13, <3>1
    <3>4. ASSUME NEW b \in B PROVE e.owner # b.owner /\ e.amount >= b.amount
      BY <1>1, <1>5, <2>1, <3>1
    <3>5. e.owner # lowest.owner /\ e.amount >= lowest.amount
      BY <1>5, <2>1, <3>1
    <3> QED BY <3>2, <3>3, <3>4, <3>5
  <2>15. Ranked(top.list, below.book.bottom.list)
    BY <2>2, <2>5, <2>14 DEF Ranked
  <2>16. /\ Ordered(new)
         /\ Contents(new) = ((T \ {lowest}) \cup {e}) \cup ((B \ below.kicked) \cup {lowest})
    BY <1>2, <2>2, <2>5, <2>10, <2>11, <2>12, <2>15, WrittenOrdered
  <2>17. \A b \in T : full => b # least
    BY <1>1, <1>3, <1>6
  <2>18. Contents(new) = ((T \cup B) \ below.kicked) \cup {e}
    BY <2>1, <2>2, <2>16, <2>17
  <2>19. CASE full
    <3>1. below.kicked = {least} /\ added.less = least.amount /\ least \in T \cup B
      BY <1>3, <1>6, <2>2, <2>11, <2>19
    <3>2. \A b \in T \cup B : b.amount >= least.amount
      BY <1>1, <1>3, <1>5, <1>6, <2>19
    <3>3. e.amount > least.amount
      BY <1>5, <2>1, <3>1, <3>2
    <3> QED BY <1>4, <1>8, <1>10, <2>11, <2>16, <2>18, <2>19, <3>1, <3>2, <3>3 DEF added
  <2>20. CASE ~full
    BY <1>4, <2>2, <2>11, <2>16, <2>18, <2>20 DEF added
  <2> QED BY <2>19, <2>20
<1>11. CASE Len(book.top.list) # MaxTop
  <2> DEFINE top == InsertSorted(book.top, e)
             written == ResetTop(book, top)
             n == written.count + 1
             new == [written EXCEPT !.count = n]
  <2>1. ~GoesToBottom(book, e.amount) /\ B = {}
    BY <1>1, <1>11 DEF GoesToBottom
  <2>2. added = [book |-> new, kicked |-> {}, less |-> 0]
    BY <1>11, <2>1 DEF AddDelegation, AddTop
  <2>3. Kept(top, 0) /\ Entries(top.list) = T \cup {e}
    <3>1. \A b \in T : b.owner # e.owner
      BY <1>5
    <3>2. Kept(book.top, 0) /\ 0 \in Nat
      BY <1>1
    <3> QED BY <3>1, <3>2, KeptInsert
  <2>4. top \in Delegations
    BY <2>3 DEF Kept
  <2> HIDE DEF T, B, least, lowest, full, added, top
  <2>5. written \in Book /\ written.top = top /\ written.bottom = book.bottom
    BY <1>1, <2>4, ResetTopFacts
  <2>6. n \in Nat
    BY <2>5, BookLists
  <2> HIDE DEF n, written
  <2>7. new.top = top /\ new.bottom = book.bottom
    BY <2>5, <2>6, RecountFacts
  <2> HIDE DEF new
  <2>8. added.book = new /\ added.kicked = {} /\ added.less = 0
    BY <2>2
  <2>9. PICK x \in Nat : Kept(book.bottom, x)
    BY DEF Ordered
  <2>10. Ranked(top.list, book.bottom.list)
    BY <2>1 DEF Ranked, B
  <2>11. Ordered(new) /\ Contents(new) = (T \cup {e}) \cup B
    BY <1>2, <2>3, <2>7, <2>8, <2>9, <2>10, WrittenOrdered DEF B
  <2> QED BY <1>4, <2>8, <2>11 DEF added
<1> QED BY <1>9, <1>10, <1>11

\* What the operations on a delegation the book holds start from: the two lists as sets,
\* with the facts that place a delegation on one of them.
LEMMA BookSets ==
    ASSUME NEW book, Ordered(book)
    PROVE  LET T == Entries(book.top.list)
               B == Entries(book.bottom.list)
           IN  /\ book \in Book /\ BookInv(book)
               /\ Kept(book.top, 0)
               /\ \E x \in Nat : Kept(book.bottom, x)
               /\ T \subseteq Bond /\ B \subseteq Bond
               /\ book.top.list = <<>> <=> T = {}
               /\ book.bottom.list = <<>> <=> B = {}
               /\ B # {} => book.topCapacity = "Full" /\ T # {}
               /\ book.bottomCapacity = "Empty" <=> B = {}
               /\ CapacityOf(book.top.list, MaxTop) = book.topCapacity
               /\ Contents(book) = T \cup B
               /\ \A a, b \in T : a.owner = b.owner => a = b
               /\ \A a, b \in B : a.owner = b.owner => a = b
               /\ \A a \in T, b \in B : a.owner # b.owner /\ a.amount >= b.amount
<1> DEFINE T == Entries(book.top.list)
           B == Entries(book.bottom.list)
<1>1. /\ BookInv(book) /\ Kept(book.top, 0)
      /\ \E x \in Nat : Kept(book.bottom, x)
      /\ Contents(book) = T \cup B
  BY DEF Ordered, Contents
<1>2. CapacityOf(book.top.list, MaxTop) = book.topCapacity
  BY <1>1 DEF BookInv, TopCached
<1>3. /\ book \in Book
      /\ Orderly(book.top.list) /\ Orderly(book.bottom.list)
      /\ T \subseteq Bond /\ B \subseteq Bond
      /\ book.top.list = <<>> <=> T = {}
      /\ book.bottom.list = <<>> <=> B = {}
      /\ B # {} => Len(book.top.list) = MaxTop
      /\ book.topCapacity = "Full" <=> Len(book.top.list) = MaxTop
      /\ book.bottomCapacity = "Empty" <=> B = {}
      /\ \A a \in T, b \in B : a.owner # b.owner /\ a.amount >= b.amount
  BY OrderedParts
<1>4. Len(book.top.list) = MaxTop => T # {}
  BY <1>3, EmptySeq, CapacitiesPositive
<1>5. /\ \A a, b \in T : a.owner = b.owner => a = b
      /\ \A a, b \in B : a.owner = b.owner => a = b
  BY <1>3, OneOfOwner
<1> QED BY <1>1, <1>2, <1>3, <1>4, <1>5

\* rm_delegation_if_exists: a delegation the book holds is found and taken off, it alone,
\* and the book stays in order.
LEMMA RmDelegationContents ==
    ASSUME NEW book, Ordered(book), NEW b \in Contents(book)
    PROVE  LET removed == RmDelegation(book, b.owner, b.amount) IN
           /\ removed.ok
           /\ Ordered(removed.book)
           /\ SameCandidate(book, removed.book)
           /\ Contents(removed.book) = Contents(book) \ {b}
<1> DEFINE removed == RmDelegation(book, b.owner, b.amount)
           T == Entries(book.top.list)
           B == Entries(book.bottom.list)
           found == LookupList(book, b.owner, b.amount)
<1>1. /\ book \in Book /\ BookInv(book) /\ Kept(book.top, 0)
      /\ \E x \in Nat : Kept(book.bottom, x)
      /\ T \subseteq Bond /\ B \subseteq Bond
      /\ book.top.list = <<>> <=> T = {}
      /\ book.bottom.list = <<>> <=> B = {}
      /\ book.bottomCapacity = "Empty" <=> B = {}
      /\ Contents(book) = T \cup B
      /\ \A a, c \in T : a.owner = c.owner => a = c
      /\ \A a, c \in B : a.owner = c.owner => a = c
      /\ \A a \in T, c \in B : a.owner # c.owner /\ a.amount >= c.amount
  BY BookSets
<1>2. /\ RemovalList(book, b.owner, b.amount) = found
      /\ found = "top" => b \in T
      /\ found # "top" => found = "bottom" /\ b \in B
      /\ Found(book, found, b.owner)
  BY LookupFindsList
<1>3. /\ removed.ok
      /\ removed.book = IF found = "top" THEN RmTop(book, b.owner) ELSE RmBottom(book, b.owner)
  BY <1>2 DEF RmDelegation
<1>4. BookInv(removed.book) /\ SameCandidate(book, removed.book)
  BY <1>1, <1>3, RmDelegationKeepsInv
<1>5. PICK x \in Nat : Kept(book.bottom, x)
  BY <1>1
<1>6. CASE found = "top" /\ B = {}
  <2> DEFINE rest == RemoveOwner(book.top, b.owner)
             written == ResetTop(book, rest)
             n == Sub(written.count, 1)
             new == [written EXCEPT !.count = n]
  <2>1. Kept(rest, 0) /\ Entries(rest.list) = T \ {b}
    <3>1. Kept(book.top, 0) /\ 0 \in Nat /\ b \in T
      BY <1>1, <1>2, <1>6
    <3> QED BY <3>1, KeptRemove, Zenon
  <2>2. removed.book = new
    BY <1>1, <1>3, <1>6 DEF RmTop
  <2>3. rest \in Delegations
    BY <2>1 DEF Kept
  <2> HIDE DEF removed, rest
  <2>4. written \in Book /\ written.top = rest /\ written.bottom = book.bottom
    BY <1>1, <2>3, ResetTopFacts
  <2>5. n \in Nat
    BY <2>4, BookLists, SubInNat
  <2> HIDE DEF n, written
  <2>6. new.top = rest /\ new.bottom = book.bottom
    BY <2>4, <2>5, RecountFacts
  <2> HIDE DEF new
  <2>7. Ranked(rest.list, book.bottom.list)
    BY <1>6 DEF Ranked
  <2>8. Ordered(new) /\ Contents(new) = (T \ {b}) \cup B
    BY <1>4, <1>5, <2>1, <2>2, <2>6, <2>7, WrittenOrdered
  <2>9. Contents(new) = (T \cup B) \ {b}
    BY <1>6, <2>8
  <2> QED BY <1>1, <1>3, <1>4, <2>2, <2>8, <2>9 DEF removed
<1>7. CASE found = "top" /\ B # {}
  <2> DEFINE rest == RemoveOwner(book.top, b.owner)
             head == Head(book.bottom.list)
             popped == PopHighest(book.bottom)
             below == ResetBottom(book, popped)
             top == InsertSorted(rest, head)
             written == ResetTop(below, top)
             n == Sub(written.count, 1)
             new == [written EXCEPT !.count = n]
  <2>1. Kept(rest, 0) /\ Entries(rest.list) = T \ {b}
    <3>1. Kept(book.top, 0) /\ 0 \in Nat /\ b \in T
      BY <1>1, <1>2, <1>7
    <3> QED BY <3>1, KeptRemove, Zenon
  <2>2. head \in B /\ \A c \in B : head.amount >= c.amount
    BY <1>7, CachedExtremes
  <2>3. Kept(popped, x) /\ Entries(popped.list) = B \ {head}
    BY <1>1, <1>5, <1>7, KeptPop
  <2>4. head \in Bond
    BY <1>1, <2>2
  <2>5. removed.book = new
    BY <1>1, <1>3, <1>7 DEF RmTop
  <2> HIDE DEF rest, head, popped, removed
  <2>6. Kept(top, 0) /\ Entries(top.list) = (T \ {b}) \cup {head}
    <3>1. \A a \in Entries(rest.list) : a.owner # head.owner
      BY <1>1, <2>1, <2>2
    <3>2. Kept(rest, 0) /\ 0 \in Nat
      BY <2>1
    <3>3. /\ Kept(InsertSorted(rest, head), 0)
          /\ Entries(InsertSorted(rest, head).list) = Entries(rest.list) \cup {head}
      BY <2>4, <3>1, <3>2, KeptInsert, Zenon
    <3> QED BY <2>1, <3>3
  <2>7. top \in Delegations /\ popped \in Delegations
    BY <2>3, <2>6 DEF Kept
  <2> HIDE DEF top
  <2>8. below \in Book /\ below.bottom = popped
    BY <1>1, <2>7, ResetBottomFacts
  <2> HIDE DEF below
  <2>9. written \in Book /\ written.top = top /\ written.bottom = popped
    BY <2>7, <2>8, ResetTopFacts
  <2>10. n \in Nat
    BY <2>9, BookLists, SubInNat
  <2> HIDE DEF n, written
  <2>11. new.top = top /\ new.bottom = popped
    BY <2>9, <2>10, RecountFacts
  <2> HIDE DEF new
  <2>12. Ranked(top.list, popped.list)
    <3>1. \A a \in (T \ {b}) \cup {head}, c \in B \ {head} :
            a.owner # c.owner /\ a.amount >= c.amount
      BY <1>1, <2>2
    <3> QED BY <2>3, <2>6, <3>1 DEF Ranked
  <2>13. Ordered(new) /\ Contents(new) = ((T \ {b}) \cup {head}) \cup (B \ {head})
    BY <1>4, <2>3, <2>5, <2>6, <2>11, <2>12, WrittenOrdered
  <2>14. b \notin B
    BY <1>1, <1>2, <1>7
  <2>15. Contents(new) = (T \cup B) \ {b}
    BY <2>2, <2>13, <2>14
  <2> QED BY <1>1, <1>3, <1>4, <2>5, <2>13, <2>15 DEF removed
<1>8. CASE found # "top"
  <2> DEFINE rest == RemoveOwner(book.bottom, b.owner)
             written == ResetBottom(book, rest)
             n == Sub(written.count, 1)
             new == [written EXCEPT !.count = n]
  <2>1. Kept(rest, x) /\ Entries(rest.list) = B \ {b}
    BY <1>2, <1>5, <1>8, KeptRemove
  <2>2. removed.book = new
    BY <1>3, <1>8 DEF RmBottom
  <2>3. rest \in Delegations
    BY <2>1 DEF Kept
  <2> HIDE DEF removed, rest
  <2>4. written \in Book /\ written.top = book.top /\ written.bottom = rest
    BY <1>1, <2>3, ResetBottomFacts
  <2>5. n \in Nat
    BY <2>4, BookLists, SubInNat
  <2> HIDE DEF n, written
  <2>6. new.top = book.top /\ new.bottom = rest
    BY <2>4, <2>5, RecountFacts
  <2> HIDE DEF new
  <2>7. Ranked(book.top.list, rest.list)
    BY <1>1, <2>1 DEF Ranked
  <2>8. Ordered(new) /\ Contents(new) = T \cup (B \ {b})
    BY <1>1, <1>4, <2>1, <2>2, <2>6, <2>7, WrittenOrdered
  <2>9. b \notin T
    BY <1>1, <1>2, <1>8
  <2>10. Contents(new) = (T \cup B) \ {b}
    BY <2>8, <2>9
  <2> QED BY <1>1, <1>3, <1>4, <2>2, <2>8, <2>10 DEF removed
<1> QED BY <1>6, <1>7, <1>8

\* An increased delegation is found and grows; one that outgrows the lowest top
\* delegation changes places with it.
LEMMA IncreaseContents ==
    ASSUME NEW book, Ordered(book), NEW b \in Contents(book), NEW more \in Nat
    PROVE  LET grown == [owner |-> b.owner, amount |-> b.amount + more]
               increased == IncreaseDelegation(book, b.owner, b.amount, more)
           IN  /\ increased.ok
               /\ Ordered(increased.book)
               /\ SameCandidate(book, increased.book)
               /\ Contents(increased.book) = (Contents(book) \ {b}) \cup {grown}
<1> DEFINE grown == [owner |-> b.owner, amount |-> b.amount + more]
           increased == IncreaseDelegation(book, b.owner, b.amount, more)
           T == Entries(book.top.list)
           B == Entries(book.bottom.list)
           found == LookupList(book, b.owner, b.amount)
<1>1. /\ book \in Book /\ BookInv(book) /\ Kept(book.top, 0)
      /\ \E x \in Nat : Kept(book.bottom, x)
      /\ T \subseteq Bond /\ B \subseteq Bond
      /\ book.top.list = <<>> <=> T = {}
      /\ B # {} => book.topCapacity = "Full" /\ T # {}
      /\ CapacityOf(book.top.list, MaxTop) = book.topCapacity
      /\ Contents(book) = T \cup B
      /\ \A a, c \in T : a.owner = c.owner => a = c
      /\ \A a, c \in B : a.owner = c.owner => a = c
      /\ \A a \in T, c \in B : a.owner # c.owner /\ a.amount >= c.amount
  BY BookSets
<1>2. /\ found = "top" => b \in T
      /\ found # "top" => found = "bottom" /\ b \in B
      /\ Found(book, found, b.owner)
  BY LookupFindsList
<1>3. /\ increased.ok
      /\ increased.book = IF found = "top" THEN IncreaseTop(book, b.owner, more)
                          ELSE IncreaseBottom(book, b.owner, b.amount, more)
  BY <1>2 DEF IncreaseDelegation
<1>4. b \in Bond /\ b.amount \in Nat /\ b.owner \in Account
  BY <1>1 DEF Bond
<1>5. /\ grown \in Bond /\ grown.owner = b.owner /\ grown.amount = b.amount + more
      /\ b.amount + more \in Nat
  BY <1>4 DEF Bond
<1>6. BookInv(increased.book) /\ SameCandidate(book, increased.book)
  BY <1>1, <1>3, <1>4, IncreaseDelegationKeepsInv
<1>7. PICK x \in Nat : Kept(book.bottom, x)
  BY <1>1
<1>8. \A a \in T \cup B : a.amount \in Nat
  BY <1>1 DEF Bond
<1>9. CASE found = "top"
  <2> DEFINE top == [list |-> Resort(book.top.list, b.owner, b.amount + more),
                     total |-> book.top.total + more]
             new == ResetTop(book, top)
  <2>1. Kept(top, 0) /\ Entries(top.list) = (T \ {b}) \cup {grown}
    <3>1. Kept(book.top, 0) /\ 0 \in Nat /\ b \in T
      BY <1>1, <1>2, <1>9
    <3> DEFINE amount == b.amount + more
    <3>2. amount \in Nat /\ b.amount + more = amount
      BY <1>5
    <3> HIDE DEF amount
    <3>3. /\ Kept([list |-> Resort(book.top.list, b.owner, amount),
                   total |-> book.top.total + more], 0)
          /\ Entries(Resort(book.top.list, b.owner, amount)) =
                (T \ {b}) \cup {[owner |-> b.owner, amount |-> amount]}
      BY <3>1, <3>2, KeptGrow
    <3> QED BY <3>2, <3>3
  <2>2. AmountOf(book.top.list, b.owner) = b.amount
    BY <1>1, <1>2, <1>9, OwnerFound DEF Kept
  <2>3. increased.book = new
    BY <1>3, <1>9, <2>2 DEF IncreaseTop
  <2>4. top \in Delegations
    BY <2>1 DEF Kept
  <2> HIDE DEF top, increased
  <2>5. new.top = top /\ new.bottom = book.bottom
    BY <1>1, <2>4, ResetTopFacts
  <2> HIDE DEF new, grown
  <2>6. Ranked(top.list, book.bottom.list)
    <3>1. \A a \in (T \ {b}) \cup {grown}, c \in B : a.owner # c.owner /\ a.amount >= c.amount
      BY <1>1, <1>2, <1>4, <1>5, <1>8, <1>9
    <3> QED BY <2>1, <3>1 DEF Ranked
  <2>7. Ordered(new) /\ Contents(new) = ((T \ {b}) \cup {grown}) \cup B
    BY <1>6, <1>7, <2>1, <2>3, <2>5, <2>6, WrittenOrdered
  <2>8. b \notin B
    BY <1>1, <1>2, <1>9
  <2>9. Contents(new) = ((T \cup B) \ {b}) \cup {grown}
    BY <2>7, <2>8
  <2> QED BY <1>1, <1>3, <1>6, <2>3, <2>7, <2>9 DEF increased, grown
<1>10. CASE found # "top"
  <2> DEFINE rest == RemoveOwner(book.bottom, b.owner)
             kept == [list |-> rest.list, total |-> Sub(book.bottom.total, b.amount)]
             lowest == Last(book.top.list)
  <2>1. b \in B /\ T # {} /\ book.topCapacity = "Full" /\ book.top.list # <<>>
    BY <1>1, <1>2, <1>10
  <2>2. AmountOf(book.bottom.list, b.owner) = b.amount
    BY <1>7, <2>1, OwnerFound DEF Kept
  <2>3. lowest \in T /\ book.lowTop = lowest.amount /\ \A a \in T : a.amount >= lowest.amount
    BY <2>1, CachedExtremes
  <2>4. lowest \in Bond /\ lowest.amount \in Nat
    BY <1>1, <1>8, <2>3
  <2>5. CASE b.amount + more > book.lowTop
    <3> DEFINE popped == PopLowest(book.top)
               top == InsertSorted(popped, grown)
               bottom == InsertSorted(kept, lowest)
               raised == ResetTop(book, top)
               new == ResetBottom(raised, bottom)
    <3>1. Kept(rest, x) /\ Entries(rest.list) = B \ {b}
      BY <1>7, <2>1, KeptRemove
    <3>2. kept = rest
      BY <2>2 DEF RemoveOwner
    <3>3. increased.book = new
      BY <1>1, <1>3, <1>10, <2>1, <2>2, <2>5 DEF IncreaseBottom
    <3> HIDE DEF kept, rest, lowest, grown, increased
    <3>4. Kept(popped, 0) /\ Entries(popped.list) = T \ {lowest}
      BY <1>1, <2>1, KeptPop DEF lowest
    <3> HIDE DEF popped
    <3>5. Kept(top, 0) /\ Entries(top.list) = (T \ {lowest}) \cup {grown}
      <4>1. \A a \in Entries(popped.list) : a.owner # grown.owner
        BY <1>1, <1>5, <2>1, <3>4
      <4>2. Kept(popped, 0) /\ 0 \in Nat /\ grown \in Bond
        BY <1>5, <3>4
      <4>3. /\ Kept(InsertSorted(popped, grown), 0)
            /\ Entries(InsertSorted(popped, grown).list) = Entries(popped.list) \cup {grown}
        BY <4>1, <4>2, KeptInsert, Zenon
      <4> QED BY <3>4, <4>3
    <3>6. Kept(bottom, x) /\ Entries(bottom.list) = (B \ {b}) \cup {lowest}
      <4>1. \A a \in Entries(kept.list) : a.owner # lowest.owner
        BY <1>1, <2>3, <3>1, <3>2
      <4>2. Kept(kept, x) /\ lowest \in Bond
        BY <2>4, <3>1, <3>2
      <4>3. /\ Kept(InsertSorted(kept, lowest), x)
            /\ Entries(InsertSorted(kept, lowest).list) = Entries(kept.list) \cup {lowest}
        BY <4>1, <4>2, KeptInsert, Zenon
      <4> QED BY <3>1, <3>2, <4>3
    <3>7. top \in Delegations /\ bottom \in Delegations
      BY <3>5, <3>6 DEF Kept
    <3> HIDE DEF top, bottom
    <3>8. raised \in Book /\ raised.top = top
      BY <1>1, <3>7, ResetTopFacts
    <3> HIDE DEF raised
    <3>9. new.top = top /\ new.bottom = bottom
      BY <3>7, <3>8, ResetBottomFacts
    <3> HIDE DEF new
    <3>10. \A a \in (T \ {lowest}) \cup {grown}, c \in (B \ {b}) \cup {lowest} :
              a.owner # c.owner /\ a.amount >= c.amount
      <4>1. ASSUME NEW a \in T \ {lowest}, NEW c \in B \ {b}
            PROVE  a.owner # c.owner /\ a.amount >= c.amount
        BY <1>1
      <4>2. ASSUME NEW a \in T \ {lowest} PROVE a.owner # lowest.owner /\ a.amount >= lowest.amount
        BY <1>1, <2>3
      <4>3. ASSUME NEW c \in B \ {b} PROVE grown.owner # c.owner /\ grown.amount >= c.amount
        <5>1. grown.owner # c.owner
          BY <1>1, <1>5, <2>1
        <5>2. lowest.amount >= c.amount /\ grown.amount > lowest.amount /\ c.amount \in Nat
          BY <1>1, <1>5, <1>8, <2>3, <2>5
        <5> QED BY <1>5, <2>4, <5>1, <5>2
      <4>4. grown.owner # lowest.owner /\ grown.amount >= lowest.amount
        BY <1>1, <1>5, <2>1, <2>3, <2>4, <2>5
      <4> QED BY <4>1, <4>2, <4>3, <4>4
    <3>11. Ranked(top.list, bottom.list)
      BY <3>5, <3>6, <3>10 DEF Ranked
    <3>12. /\ Ordered(new)
           /\ Contents(new) = ((T \ {lowest}) \cup {grown}) \cup ((B \ {b}) \cup {lowest})
      BY <1>6, <3>3, <3>5, <3>6, <3>9, <3>11, WrittenOrdered
    <3>13. b \notin T
      BY <1>1, <2>1
    <3>14. Contents(new) = ((T \cup B) \ {b}) \cup {grown}
      BY <2>3, <3>12, <3>13
    <3> QED BY <1>1, <1>3, <1>6, <3>3, <3>12, <3>14 DEF increased, grown
  <2>6. CASE ~(b.amount + more > book.lowTop)
    <3> DEFINE bottom == [list |-> Resort(book.bottom.list, b.owner, b.amount + more),
                          total |-> book.bottom.total + more]
               new == ResetBottom(book, bottom)
    <3>1. Kept(bottom, x) /\ Entries(bottom.list) = (B \ {b}) \cup {grown}
      <4> DEFINE amount == b.amount + more
      <4>1. amount \in Nat /\ b.amount + more = amount
        BY <1>5
      <4> HIDE DEF amount
      <4>2. /\ Kept([list |-> Resort(book.bottom.list, b.owner, amount),
                     total |-> book.bottom.total + more], x)
            /\ Entries(Resort(book.bottom.list, b.owner, amount)) =
                  (B \ {b}) \cup {[owner |-> b.owner, amount |-> amount]}
        BY <1>7, <2>1, <4>1, KeptGrow
      <4> QED BY <4>1, <4>2
    <3>2. increased.book = new
      BY <1>3, <1>10, <2>2, <2>6 DEF IncreaseBottom
    <3>3. bottom \in Delegations
      BY <3>1 DEF Kept
    <3> HIDE DEF bottom, increased, lowest, rest, kept
    <3>4. new.top = book.top /\ new.bottom = bottom
      BY <1>1, <3>3, ResetBottomFacts
    <3> HIDE DEF new, grown
    <3>5. Ranked(book.top.list, bottom.list)
      <4>1. ASSUME NEW a \in T PROVE a.owner # grown.owner /\ a.amount >= grown.amount
        <5>1. a.amount >= lowest.amount /\ ~(grown.amount > lowest.amount) /\ a.amount \in Nat
          BY <1>5, <1>8, <2>3, <2>6
        <5> QED BY <1>1, <1>5, <2>1, <2>4, <5>1
      <4>2. \A a \in T, c \in (B \ {b}) \cup {grown} : a.owner # c.owner /\ a.amount >= c.amount
        BY <1>1, <4>1
      <4> QED BY <3>1, <4>2 DEF Ranked
    <3>6. Ordered(new) /\ Contents(new) = T \cup ((B \ {b}) \cup {grown})
      BY <1>1, <1>6, <3>1, <3>2, <3>4, <3>5, WrittenOrdered
    <3>7. b \notin T
      BY <1>1, <2>1
    <3>8. Contents(new) = ((T \cup B) \ {b}) \cup {grown}
      BY <3>6, <3>7
    <3> QED BY <1>1, <1>3, <1>6, <3>2, <3>6, <3>8 DEF increased, grown
  <2> QED BY <2>5, <2>6
<1> QED BY <1>9, <1>10

\* A decreased delegation is found and shrinks; one that falls below the highest bottom
\* delegation changes places with it.
LEMMA DecreaseContents ==
    ASSUME NEW book, Ordered(book), NEW b \in Contents(book), NEW less \in Nat,
           less <= b.amount
    PROVE  LET shrunk == [owner |-> b.owner, amount |-> b.amount - less]
               decreased == DecreaseDelegation(book, b.owner, b.amount, less)
           IN  /\ decreased.ok
               /\ Ordered(decreased.book)
               /\ SameCandidate(book, decreased.book)
               /\ Contents(decreased.book) = (Contents(book) \ {b}) \cup {shrunk}
<1> DEFINE left == Sub(b.amount, less)
           shrunk == [owner |-> b.owner, amount |-> left]
           decreased == DecreaseDelegation(book, b.owner, b.amount, less)
           T == Entries(book.top.list)
           B == Entries(book.bottom.list)
           found == LookupList(book, b.owner, b.amount)
<1>1. /\ book \in Book /\ BookInv(book) /\ Kept(book.top, 0)
      /\ \E x \in Nat : Kept(book.bottom, x)
      /\ T \subseteq Bond /\ B \subseteq Bond
      /\ book.bottom.list = <<>> <=> B = {}
      /\ B # {} => book.topCapacity = "Full" /\ T # {}
      /\ book.bottomCapacity = "Empty" <=> B = {}
      /\ Contents(book) = T \cup B
      /\ \A a, c \in T : a.owner = c.owner => a = c
      /\ \A a, c \in B : a.owner = c.owner => a = c
      /\ \A a \in T, c \in B : a.owner # c.owner /\ a.amount >= c.amount
  BY BookSets
<1>2. /\ found = "top" => b \in T
      /\ found # "top" => found = "bottom" /\ b \in B
      /\ Found(book, found, b.owner)
  BY LookupFindsList
<1>3. /\ decreased.ok
      /\ decreased.book = IF found = "top" THEN DecreaseTop(book, b.owner, b.amount, less)
                          ELSE DecreaseBottom(book, b.owner, less)
  BY <1>2 DEF DecreaseDelegation
<1>4. b \in Bond /\ b.amount \in Nat /\ b.owner \in Account
  BY <1>1 DEF Bond
<1>5. left \in Nat /\ left + less = b.amount /\ left <= b.amount /\ left = b.amount - less
  BY <1>4 DEF Sub
<1> HIDE DEF left
<1>6. shrunk \in Bond /\ shrunk.owner = b.owner /\ shrunk.amount = left
  BY <1>4, <1>5 DEF Bond
<1>7. BookInv(decreased.book) /\ SameCandidate(book, decreased.book)
  BY <1>1, <1>3, <1>4, DecreaseDelegationKeepsInv
<1>8. PICK x \in Nat : Kept(book.bottom, x)
  BY <1>1
<1>9. \A a \in T \cup B : a.amount \in Nat
  BY <1>1 DEF Bond
<1>10. SUFFICES Ordered(decreased.book) /\ Contents(decreased.book) = (Contents(book) \ {b}) \cup {shrunk}
  BY <1>3, <1>5, <1>7
<1>11. CASE found = "top"
  <2>1. b \in T /\ AmountOf(book.top.list, b.owner) = b.amount
    BY <1>1, <1>2, <1>11, OwnerFound DEF Kept
  <2> DEFINE swaps == /\ left < book.highBottom
                      /\ book.topCapacity = "Full" /\ book.bottomCapacity # "Empty"
  <2>2. CASE swaps
    <3> DEFINE rest == RemoveOwner(book.top, b.owner)
               head == Head(book.bottom.list)
               popped == PopHighest(book.bottom)
               raised == InsertSorted(rest, head)
               lowered == InsertSorted(popped, shrunk)
               below == ResetBottom(book, lowered)
               new == ResetTop(below, raised)
    <3>1. B # {}
      BY <1>1, <2>2
    <3>2. /\ head \in B /\ book.highBottom = head.amount
          /\ \A c \in B : head.amount >= c.amount
      BY <3>1, CachedExtremes
    <3>3. head \in Bond /\ head.amount \in Nat
      BY <1>1, <1>9, <3>2
    <3>4. decreased.book = new
      BY <1>3, <1>11, <2>1, <2>2 DEF DecreaseTop, left
    <3>5. Kept(rest, 0) /\ Entries(rest.list) = T \ {b}
      <4>1. Kept(book.top, 0) /\ 0 \in Nat /\ b \in T
        BY <1>1, <2>1
      <4> QED BY <4>1, KeptRemove, Zenon
    <3>6. Kept(popped, x) /\ Entries(popped.list) = B \ {head}
      BY <1>1, <1>8, <3>1, KeptPop
    <3>7. left < head.amount
      BY <2>2, <3>2
    <3> HIDE DEF rest, popped, head, decreased, shrunk
    <3>8. Kept(raised, 0) /\ Entries(raised.list) = (T \ {b}) \cup {head}
      <4>1. \A a \in Entries(rest.list) : a.owner # head.owner
        BY <1>1, <3>2, <3>5
      <4>2. Kept(rest, 0) /\ 0 \in Nat
        BY <3>5
      <4>3. /\ Kept(InsertSorted(rest, head), 0)
            /\ Entries(InsertSorted(rest, head).list) = Entries(rest.list) \cup {head}
        BY <3>3, <4>1, <4>2, KeptInsert, Zenon
      <4> QED BY <3>5, <4>3
    <3>9. Kept(lowered, x) /\ Entries(lowered.list) = (B \ {head}) \cup {shrunk}
      <4>1. \A a \in Entries(popped.list) : a.owner # shrunk.owner
        BY <1>1, <1>6, <2>1, <3>6
      <4>2. /\ Kept(InsertSorted(popped, shrunk), x)
            /\ Entries(InsertSorted(popped, shrunk).list) = Entries(popped.list) \cup {shrunk}
        BY <1>6, <3>6, <4>1, KeptInsert, Zenon
      <4> QED BY <3>6, <4>2
    <3>10. raised \in Delegations /\ lowered \in Delegations
      BY <3>8, <3>9 DEF Kept
    <3> HIDE DEF raised, lowered
    <3>11. below \in Book /\ below.bottom = lowered
      BY <1>1, <3>10, ResetBottomFacts
    <3> HIDE DEF below
    <3>12. new.top = raised /\ new.bottom = lowered
      BY <3>10, <3>11, ResetTopFacts
    <3> HIDE DEF new
    <3>13. \A a \in (T \ {b}) \cup {head}, c \in (B \ {head}) \cup {shrunk} :
              a.owner # c.owner /\ a.amount >= c.amount
      <4>1. ASSUME NEW a \in T \ {b}, NEW c \in B \ {head}
            PROVE  a.owner # c.owner /\ a.amount >= c.amount
        BY <1>1
      <4>2. ASSUME NEW a \in T \ {b} PROVE a.owner # shrunk.owner /\ a.amount >= shrunk.amount
        <5>1. a.amount >= head.amount /\ a.amount \in Nat /\ a.owner # b.owner
          BY <1>1, <1>9, <2>1, <3>2
        <5> QED BY <1>5, <1>6, <3>3, <3>7, <5>1
      <4>3. ASSUME NEW c \in B \ {head} PROVE head.owner # c.owner /\ head.amount >= c.amount
        BY <1>1, <3>2
      <4>4. head.owner # shrunk.owner /\ head.amount >= shrunk.amount
        BY <1>1, <1>5, <1>6, <2>1, <3>2, <3>3, <3>7
      <4> QED BY <4>1, <4>2, <4>3, <4>4
    <3>14. Ranked(raised.list, lowered.list)
      BY <3>8, <3>9, <3>13 DEF Ranked
    <3>15. /\ Ordered(new)
           /\ Contents(new) = ((T \ {b}) \cup {head}) \cup ((B \ {head}) \cup {shrunk})
      BY <1>7, <3>4, <3>8, <3>9, <3>12, <3>14, WrittenOrdered
    <3>16. b \notin B
      BY <1>1, <2>1
    <3>17. Contents(new) = ((T \cup B) \ {b}) \cup {shrunk}
      BY <3>2, <3>15, <3>16
    <3> QED BY <1>1, <3>4, <3>15, <3>17
  <2>3. CASE ~swaps
    <3> DEFINE list == Resort(book.top.list, b.owner, left)
               top == [list |-> list, total |-> Sub(book.top.total, less)]
               new == ResetTop(book, top)
    <3>1. Kept(top, 0) /\ Entries(list) = (T \ {b}) \cup {shrunk}
      <4>1. Kept(book.top, 0) /\ 0 \in Nat /\ b \in T
        BY <1>1, <2>1
      <4>2. left \in Nat /\ b.amount - less = left
        BY <1>5
      <4>3. Kept([list |-> Resort(book.top.list, b.owner, left),
                  total |-> Sub(book.top.total, less)], 0)
        BY <4>1, <4>2, KeptShrink
      <4>4. Entries(Resort(book.top.list, b.owner, left)) =
                (T \ {b}) \cup {[owner |-> b.owner, amount |-> left]}
        <5>1. Orderly(book.top.list) /\ left \in Nat
          BY <1>1, <1>5 DEF Kept
        <5>2. ASSUME NEW amount \in Nat
              PROVE  Entries(Resort(book.top.list, b.owner, amount)) =
                        (T \ {b}) \cup {[owner |-> b.owner, amount |-> amount]}
          BY <4>1, <5>1, ResortEntries
        <5> QED BY <5>1, <5>2
      <4> QED BY <4>3, <4>4
    <3>2. decreased.book = new
      BY <1>3, <1>11, <2>1, <2>3 DEF DecreaseTop, left
    <3>3. top \in Delegations /\ top.list = list
      BY <3>1 DEF Kept
    <3> HIDE DEF top, list, decreased
    <3>4. new.top = top /\ new.bottom = book.bottom
      BY <1>1, <3>3, ResetTopFacts
    <3> HIDE DEF new, shrunk
    <3>5. ASSUME NEW c \in B PROVE shrunk.owner # c.owner /\ shrunk.amount >= c.amount
      <4>1. ~(left < book.highBottom)
        BY <1>1, <2>3
      <4>2. book.highBottom \in Nat /\ book.highBottom >= c.amount
        BY <1>9, CachedExtremes
      <4> QED BY <1>1, <1>5, <1>6, <1>9, <2>1, <4>1, <4>2
    <3>6. \A a \in (T \ {b}) \cup {shrunk}, c \in B : a.owner # c.owner /\ a.amount >= c.amount
      BY <1>1, <3>5
    <3>7. Ranked(top.list, book.bottom.list)
      BY <3>1, <3>3, <3>6 DEF Ranked
    <3>8. Ordered(new) /\ Contents(new) = ((T \ {b}) \cup {shrunk}) \cup B
      BY <1>7, <1>8, <3>1, <3>2, <3>3, <3>4, <3>7, WrittenOrdered
    <3>9. b \notin B
      BY <1>1, <2>1
    <3>10. Contents(new) = ((T \cup B) \ {b}) \cup {shrunk}
      BY <3>8, <3>9
    <3> QED BY <1>1, <3>2, <3>8, <3>10
  <2> QED BY <2>2, <2>3
<1>12. CASE found # "top"
  <2> DEFINE list == Resort(book.bottom.list, b.owner, left)
             bottom == [list |-> list, total |-> book.bottom.total]
             new == ResetBottom(book, bottom)
  <2>1. b \in B /\ AmountOf(book.bottom.list, b.owner) = b.amount
    BY <1>2, <1>8, <1>12, OwnerFound DEF Kept
  <2>2. Kept(bottom, x + less) /\ Entries(list) = (B \ {b}) \cup {shrunk}
    <3>1. b \in B /\ left \in Nat /\ b.amount - less = left
      BY <1>5, <2>1
    <3>2. Kept([list |-> Resort(book.bottom.list, b.owner, left),
                total |-> book.bottom.total], x + less)
      BY <1>8, <3>1, KeptShrink
    <3>3. Entries(Resort(book.bottom.list, b.owner, left)) =
              (B \ {b}) \cup {[owner |-> b.owner, amount |-> left]}
      <4>1. Orderly(book.bottom.list) /\ left \in Nat
        BY <1>5, <1>8 DEF Kept
      <4>2. ASSUME NEW amount \in Nat
            PROVE  Entries(Resort(book.bottom.list, b.owner, amount)) =
                      (B \ {b}) \cup {[owner |-> b.owner, amount |-> amount]}
        BY <3>1, <4>1, ResortEntries
      <4> QED BY <4>1, <4>2
    <3> QED BY <3>2, <3>3
  <2>3. decreased.book = new
    BY <1>3, <1>12, <2>1 DEF DecreaseBottom, left
  <2>4. bottom \in Delegations /\ bottom.list = list
    BY <2>2 DEF Kept
  <2> HIDE DEF bottom, list, decreased
  <2>5. new.top = book.top /\ new.bottom = bottom
    BY <1>1, <2>4, ResetBottomFacts
  <2> HIDE DEF new, shrunk
  <2>6. ASSUME NEW a \in T PROVE a.owner # shrunk.owner /\ a.amount >= shrunk.amount
    <3>1. a.owner # b.owner /\ a.amount >= b.amount /\ a.amount \in Nat
      BY <1>1, <1>9, <2>1
    <3> QED BY <1>4, <1>5, <1>6, <3>1
  <2>7. \A a \in T, c \in (B \ {b}) \cup {shrunk} : a.owner # c.owner /\ a.amount >= c.amount
    BY <1>1, <2>6
  <2>8. Ranked(book.top.list, bottom.list)
    BY <2>2, <2>4, <2>7 DEF Ranked
  <2>9. x + less \in Nat
    OBVIOUS
  <2>10. Ordered(new) /\ Contents(new) = T \cup ((B \ {b}) \cup {shrunk})
    BY <1>1, <1>7, <2>2, <2>3, <2>4, <2>5, <2>8, <2>9, WrittenOrdered
  <2>11. b \notin T
    BY <1>1, <2>1
  <2>12. Contents(new) = ((T \cup B) \ {b}) \cup {shrunk}
    BY <2>10, <2>11
  <2> QED BY <1>1, <2>3, <2>10, <2>12
<1> QED BY <1>11, <1>12
=============================================================================
