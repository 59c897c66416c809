---------------------------- MODULE PrivatePool ----------------------------
(***************************************************************************)
(* What the ledger of private notes promises to those who hold them,       *)
(* without shards, trees, roots or orders of insertion: a note of some     *)
(* worth is made once and spent at most once, only notes that are there    *)
(* are spent, and value of an asset passes between accounts and notes      *)
(* without any being made or lost.                                         *)
(***************************************************************************)
EXTENDS StorageMaps

CONSTANTS Account, Pool, Asset, Note, AssetOf, ValueOf

VARIABLES
    unspent, spentNotes,   \* notes worth something
    public                 \* balances of the accounts, Pool's holds what the notes are worth

vars == <<unspent, spentNotes, public>>

Worth(S) == SumOf([n \in S |-> ValueOf[n]])

\* notes worth something, of one asset
NotesIn(a) == {n \in Note : AssetOf[n] = a /\ ValueOf[n] > 0}

Moved(a, from, to, v) ==
    public' = IF from = to THEN public
              ELSE [public EXCEPT ![a][from] = @ - v, ![a][to] = @ + v]

\* notes of the asset that may be spent, and that may be made
Spendable(a) == unspent \cap NotesIn(a)
Fresh(a) == NotesIn(a) \ (unspent \cup spentNotes)

\* the notes in S are spent and those in R are made
Exchange(S, R) ==
    /\ unspent' = (unspent \ S) \cup R
    /\ spentNotes' = spentNotes \cup S

Init == unspent = {} /\ spentNotes = {}

Deposit(a, who, n) ==
    /\ public[a][who] >= ValueOf[n]
    /\ Exchange({}, {n})
    /\ Moved(a, who, Pool, ValueOf[n])

Withdraw(a, who, S, R) ==
    /\ Worth(S) > Worth(R)
    /\ public[a][Pool] >= Worth(S) - Worth(R)
    /\ Exchange(S, R)
    /\ Moved(a, Pool, who, Worth(S) - Worth(R))

Move(S, R) ==
    /\ Worth(S) = Worth(R)
    /\ Exchange(S, R)
    /\ UNCHANGED public

Transfer(a, who, to, v) ==
    /\ Moved(a, who, to, v)
    /\ UNCHANGED <<unspent, spentNotes>>

Holder == Account \ {Pool}

Next ==
    \E a \in Asset :
        \/ \E who \in Holder, n \in Fresh(a) : Deposit(a, who, n)
        \/ \E S \in SUBSET Spendable(a), R \in SUBSET Fresh(a) :
            Move(S, R) \/ \E who \in Holder : Withdraw(a, who, S, R)
        \/ \E who \in Holder, to \in Account :
            \E v \in 0 .. public[a][who] : Transfer(a, who, to, v)

Spec == Init /\ [][Next]_vars
=============================================================================
