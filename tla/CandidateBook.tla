---------------------------- MODULE CandidateBook ----------------------------
(***************************************************************************)
(* The book one collator candidate keeps of its backers: CandidateMetadata *)
(* together with its TopDelegations and BottomDelegations, which the       *)
(* pallet inserts and removes with it (types.rs).                          *)
(*                                                                         *)
(* Only the top delegations count towards the candidate's stake.  The      *)
(* metadata caches what the code asks of the two lists most often (the     *)
(* lowest top amount, the highest and lowest bottom amounts, how full each *)
(* list is) and every operation decides on the caches which list to touch. *)
(*                                                                         *)
(* The operators are pure: each takes a book and returns the new one, with *)
(* ok = FALSE where the code returns DelegationDNE.  What the code writes  *)
(* outside the book (the kicked delegator's state, the pool) is returned   *)
(* to the caller.                                                          *)
(***************************************************************************)
EXTENDS Naturals, Sequences, FiniteSets, SequencesExt, StorageMaps

CONSTANTS
    Account,    \* all accounts
    MaxTop,     \* MaxTopDelegationsPerCandidate
    MaxBottom   \* MaxBottomDelegationsPerCandidate

ASSUME CapacitiesPositive == MaxTop \in Nat \ {0} /\ MaxBottom \in Nat \ {0}

Bond == [owner : Account, amount : Nat]
Delegations == [list : Seq(Bond), total : Nat]
Capacity == {"Full", "Empty", "Partial"}

NoDelegations == [list |-> <<>>, total |-> 0]

\* CandidateBondLessRequest; rounds start at 1, so when = 0 is no request
BondLess == [amount : Nat, when : Nat]
NoBondLess == [amount |-> 0, when |-> 0]

Book == [bond : Nat, counted : Nat, count : Nat,
         lowTop : Nat, highBottom : Nat, lowBottom : Nat,
         topCapacity : Capacity, bottomCapacity : Capacity,
         bondLess : BondLess,
         status : {"Active", "Idle", "Leaving"}, leaveAt : Nat,
         top : Delegations, bottom : Delegations]

NewBook(bond) ==
    [bond |-> bond, counted |-> bond, count |-> 0,
     lowTop |-> 0, highBottom |-> 0, lowBottom |-> 0,
     topCapacity |-> "Empty", bottomCapacity |-> "Empty",
     bondLess |-> NoBondLess, status |-> "Active", leaveAt |-> 0,
     top |-> NoDelegations, bottom |-> NoDelegations]

-----------------------------------------------------------------------------
(* Lists of delegations, kept from the greatest to the least *)

Holds(list, who) == \E i \in DOMAIN list : list[i].owner = who
Position(list, who) == CHOOSE i \in DOMAIN list : list[i].owner = who
AmountOf(list, who) == list[Position(list, who)].amount

LowestAmount(list) == IF list = <<>> THEN 0 ELSE Last(list).amount
HighestAmount(list) == IF list = <<>> THEN 0 ELSE Head(list).amount

CapacityOf(list, max) ==
    IF Len(list) >= max THEN "Full" ELSE IF list = <<>> THEN "Empty" ELSE "Partial"

\* insert_sorted_greatest_to_least: after every delegation of the same amount
InsertSorted(dels, bond) ==
    LET ahead == {i \in DOMAIN dels.list : dels.list[i].amount >= bond.amount}
    IN  [list |-> InsertAt(dels.list, Cardinality(ahead) + 1, bond),
         total |-> dels.total + bond.amount]

RemoveOwner(dels, who) ==
    [list |-> RemoveAt(dels.list, Position(dels.list, who)),
     total |-> Sub(dels.total, AmountOf(dels.list, who))]

PopLowest(dels) ==
    [list |-> Front(dels.list), total |-> Sub(dels.total, Last(dels.list).amount)]
PopHighest(dels) ==
    [list |-> Tail(dels.list), total |-> Sub(dels.total, Head(dels.list).amount)]

\* the list after `who`'s amount becomes `amount` and a stable sort
Resort(list, who, amount) ==
    LET p == Position(list, who)
        ahead == {i \in DOMAIN list : \/ i < p /\ list[i].amount >= amount
                                      \/ i > p /\ list[i].amount > amount}
    IN  InsertAt(RemoveAt(list, p), Cardinality(ahead) + 1,
                 [owner |-> who, amount |-> amount])

-----------------------------------------------------------------------------
(* Writing a list back refreshes the metadata cached from it *)

ResetTop(book, dels) ==
    [book EXCEPT !.top = dels,
                 !.lowTop = LowestAmount(dels.list),
                 !.topCapacity = CapacityOf(dels.list, MaxTop),
                 !.counted = book.bond + dels.total]

ResetBottom(book, dels) ==
    [book EXCEPT !.bottom = dels,
                 !.lowBottom = LowestAmount(dels.list),
                 !.highBottom = HighestAmount(dels.list),
                 !.bottomCapacity = CapacityOf(dels.list, MaxBottom)]

-----------------------------------------------------------------------------
(* Adding a delegation *)

\* add_bottom_delegation: a full bottom list kicks its lowest delegation
AddBottom(book, bond, bumpedFromTop) ==
    IF Len(book.bottom.list) = MaxBottom
    THEN [book |-> ResetBottom(book, InsertSorted(PopLowest(book.bottom), bond)),
          kicked |-> {Last(book.bottom.list)}]
    ELSE [book |-> [ResetBottom(book, InsertSorted(book.bottom, bond)) EXCEPT
                        !.count = IF bumpedFromTop THEN @ ELSE @ + 1],
          kicked |-> {}]

\* add_top_delegation: a full top list bumps its lowest delegation down
AddTop(book, bond) ==
    IF Len(book.top.list) = MaxTop
    THEN LET below == AddBottom(book, Last(book.top.list), TRUE)
             full == book.bottomCapacity = "Full"
             added == ResetTop(below.book, InsertSorted(PopLowest(book.top), bond))
         IN  [book |-> [added EXCEPT !.count = IF full THEN @ ELSE @ + 1],
              kicked |-> below.kicked,
              less |-> IF full THEN book.lowBottom ELSE 0]
    ELSE [book |-> [ResetTop(book, InsertSorted(book.top, bond)) EXCEPT !.count = @ + 1],
          kicked |-> {}, less |-> 0]

GoesToBottom(book, amount) == book.topCapacity = "Full" /\ book.lowTop >= amount

\* Mistake (StakeIsTakenWithCause must notice): an equal amount is enough
CanAddEqual(book, amount) ==
    GoesToBottom(book, amount) /\ book.bottomCapacity = "Full" => amount >= book.lowBottom

\* a delegation that would enter a full bottom list must beat its lowest one
CanAdd(book, amount) ==
    GoesToBottom(book, amount) /\ book.bottomCapacity = "Full" => amount > book.lowBottom

\* Mistake (TotalIsNeverOverstated must notice): the kicked stake is not reported
AddDelegationKeepsKicked(book, bond) ==
    LET added == IF GoesToBottom(book, bond.amount) THEN AddBottom(book, bond, FALSE)
                                                    ELSE AddTop(book, bond)
    IN  [book |-> added.book, kicked |-> added.kicked, less |-> 0]

\* add_delegation: the new book, who was kicked, and the stake that left with them
AddDelegation(book, bond) ==
    IF GoesToBottom(book, bond.amount)
    THEN LET below == AddBottom(book, bond, FALSE)
         IN  [book |-> below.book, kicked |-> below.kicked,
              less |-> IF book.bottomCapacity = "Full" THEN book.lowBottom ELSE 0]
    ELSE AddTop(book, bond)

-----------------------------------------------------------------------------
(* Removing one *)

\* Mistake (TopIsGreatest must notice): nothing moves up from the bottom
RmTopOnly(book, who) ==
    [ResetTop(book, RemoveOwner(book.top, who)) EXCEPT !.count = Sub(@, 1)]

\* rm_top_delegation: the highest bottom delegation moves up
RmTop(book, who) ==
    LET rest == RemoveOwner(book.top, who)
        bumpUp == book.bottomCapacity # "Empty"
        below == IF bumpUp THEN ResetBottom(book, PopHighest(book.bottom)) ELSE book
        top == IF bumpUp THEN InsertSorted(rest, Head(book.bottom.list)) ELSE rest
    IN  [ResetTop(below, top) EXCEPT !.count = Sub(@, 1)]

RmBottom(book, who) ==
    [ResetBottom(book, RemoveOwner(book.bottom, who)) EXCEPT !.count = Sub(@, 1)]

(***************************************************************************)
(* Which list the code looks in for a delegation of the given amount: the  *)
(* cached lowest top amount tells the lists apart, unless it equals the    *)
(* highest bottom amount; then the top list is tried before the bottom.    *)
(***************************************************************************)
Ambiguous(book) == book.lowTop = book.highBottom

\* Mistake (EveryBondIsFound must notice): the cached amount alone decides
LookupListByAmount(book, who, amount) ==
    IF amount >= book.lowTop THEN "top" ELSE "bottom"

LookupList(book, who, amount) ==
    IF amount >= book.lowTop /\ (Ambiguous(book) => Holds(book.top.list, who))
    THEN "top" ELSE "bottom"

\* rm_delegation_if_exists also looks only in the top list while it is not full
RemovalList(book, who, amount) ==
    IF book.topCapacity # "Full" THEN "top" ELSE LookupList(book, who, amount)

Found(book, list, who) ==
    Holds(IF list = "top" THEN book.top.list ELSE book.bottom.list, who)

RmDelegation(book, who, amount) ==
    LET list == RemovalList(book, who, amount) IN
    IF ~Found(book, list, who)
    THEN [ok |-> FALSE, book |-> book]
    ELSE [ok |-> TRUE,
          book |-> IF list = "top" THEN RmTop(book, who) ELSE RmBottom(book, who)]

-----------------------------------------------------------------------------
(* Increasing and decreasing one *)

IncreaseTop(book, who, more) ==
    LET amount == AmountOf(book.top.list, who) + more
    IN  ResetTop(book, [list |-> Resort(book.top.list, who, amount),
                        total |-> book.top.total + more])

\* Mistake (BooksAgree must notice): the lowest top delegation is popped and lost
IncreaseBottomLosesBumped(book, who, bond, more) ==
    LET grown == [owner |-> who, amount |-> AmountOf(book.bottom.list, who) + more]
    IN  ResetBottom(ResetTop(book, InsertSorted(PopLowest(book.top), grown)),
                    RemoveOwner(book.bottom, who))

\* a bottom delegation that outgrows the lowest top one changes places with it
IncreaseBottom(book, who, bond, more) ==
    LET amount == AmountOf(book.bottom.list, who) + more
        grown == [owner |-> who, amount |-> amount]
        rest == [list |-> RemoveOwner(book.bottom, who).list,
                 total |-> Sub(book.bottom.total, bond)]
        topFull == CapacityOf(book.top.list, MaxTop) = "Full"
        top == IF topFull THEN PopLowest(book.top) ELSE book.top
        bottom == IF topFull THEN InsertSorted(rest, Last(book.top.list)) ELSE rest
    IN  IF bond + more > book.lowTop
        THEN ResetBottom(ResetTop(book, InsertSorted(top, grown)), bottom)
        ELSE ResetBottom(book, [list |-> Resort(book.bottom.list, who, amount),
                                total |-> book.bottom.total + more])

IncreaseDelegation(book, who, bond, more) ==
    LET list == LookupList(book, who, bond) IN
    IF ~Found(book, list, who)
    THEN [ok |-> FALSE, book |-> book]
    ELSE [ok |-> TRUE,
          book |-> IF list = "top" THEN IncreaseTop(book, who, more)
                                   ELSE IncreaseBottom(book, who, bond, more)]

\* Mistake (ImplementsLedger must notice): a decreased delegation always stays in the top
DecreaseTopInPlace(book, who, bond, less) ==
    ResetTop(book, [list |-> Resort(book.top.list, who, Sub(bond, less)),
                    total |-> Sub(book.top.total, less)])

\* a top delegation that falls below the highest bottom one changes places with it
DecreaseTop(book, who, bond, less) ==
    LET amount == Sub(AmountOf(book.top.list, who), less)
        shrunk == [owner |-> who, amount |-> amount]
        raised == InsertSorted(RemoveOwner(book.top, who), Head(book.bottom.list))
        lowered == InsertSorted(PopHighest(book.bottom), shrunk)
    IN  IF /\ Sub(bond, less) < book.highBottom
           /\ book.topCapacity = "Full" /\ book.bottomCapacity # "Empty"
        THEN ResetTop(ResetBottom(book, lowered), raised)
        ELSE ResetTop(book, [list |-> Resort(book.top.list, who, amount),
                             total |-> Sub(book.top.total, less)])

\* decrease_bottom_delegation writes the list back with its old total
DecreaseBottom(book, who, less) ==
    LET amount == Sub(AmountOf(book.bottom.list, who), less)
    IN  ResetBottom(book, [list |-> Resort(book.bottom.list, who, amount),
                           total |-> book.bottom.total])

DecreaseDelegation(book, who, bond, less) ==
    LET list == LookupList(book, who, bond) IN
    IF ~Found(book, list, who)
    THEN [ok |-> FALSE, book |-> book]
    ELSE [ok |-> TRUE,
          book |-> IF list = "top" THEN DecreaseTop(book, who, bond, less)
                                   ELSE DecreaseBottom(book, who, less)]
=============================================================================
