--------------------------- MODULE MantaPayProofs ---------------------------
(***************************************************************************)
(* Proofs about the ledger of private notes, for any notes, shards,        *)
(* capacity, assets and accounts; and about the wallet that pulls it page  *)
(* by page, for any limits of a page: what it has is a beginning of what   *)
(* the ledger has, and a page says truly whether something is left.        *)
(***************************************************************************)
EXTENDS MantaPayProperties, LedgerSyncProperties, StorageMapsProofs

-----------------------------------------------------------------------------
(* What sets of notes are worth *)

LEMMA WorthType == ASSUME NEW S \in SUBSET Note PROVE Worth(S) \in Nat
<1>1. IsFiniteSet(S)
  BY FS_Subset, PayConstants
<1> DEFINE f == [n \in S |-> ValueOf[n]]
<1>2. DOMAIN f = S /\ f \in [DOMAIN f -> Nat]
  BY PayConstants
<1> QED BY <1>1, <1>2, SumInNat DEF Worth

LEMMA WorthOfParts ==
    ASSUME NEW S \in SUBSET Note, NEW T \in SUBSET Note, S \cap T = {}
    PROVE  Worth(S \cup T) = Worth(S) + Worth(T)
<1> DEFINE f == [n \in S \cup T |-> ValueOf[n]]
<1>1. IsFiniteSet(S \cup T)
  BY FS_Subset, PayConstants
<1>2. DOMAIN f = S \cup T /\ f \in [DOMAIN f -> Nat]
  BY PayConstants
<1>3. SumOf(f) = SumOf([n \in S |-> f[n]]) + SumOf([n \in T |-> f[n]])
  BY <1>1, <1>2, SumOfParts
<1>4. [n \in S |-> f[n]] = [n \in S |-> ValueOf[n]] /\ [n \in T |-> f[n]] = [n \in T |-> ValueOf[n]]
  OBVIOUS
<1> QED BY <1>3, <1>4 DEF Worth

LEMMA WorthOfZeros ==
    ASSUME NEW S, \A n \in S : ValueOf[n] = 0 PROVE Worth(S) = 0
BY SumOfZeros DEF Worth

LEMMA WorthOfOne == ASSUME NEW n \in Note PROVE Worth({n}) = ValueOf[n]
<1> DEFINE f == [m \in {n} |-> ValueOf[m]]
<1>1. DOMAIN f = {n} /\ f[n] = ValueOf[n] /\ f[n] \in Nat
  BY PayConstants
<1> QED BY <1>1, SumOfOne DEF Worth

(***************************************************************************)
(* Spending the notes S and making the notes R of one asset changes what   *)
(* is unspent by the difference, if all of S worth something was unspent   *)
(* and nothing of R was ever there.                                        *)
(***************************************************************************)
LEMMA WorthOfExchange ==
    ASSUME NEW U \in SUBSET Note, NEW S \in SUBSET Note, NEW R \in SUBSET Note,
           \A n \in S : ValueOf[n] > 0 => n \in U,
           U \cap R = {},
           NEW V, V = (U \ S) \cup {n \in R : ValueOf[n] > 0}
    PROVE  Worth(V) + Worth(S) = Worth(U) + Worth(R)
<1> DEFINE P == {n \in R : ValueOf[n] > 0}
<1>1. Worth(V) = Worth(U \ S) + Worth(P)
  <2>1. (U \ S) \cap P = {}
    OBVIOUS
  <2> QED BY <2>1, WorthOfParts
<1>2. Worth(U) = Worth(U \ S) + Worth(U \cap S)
  <2>1. U = (U \ S) \cup (U \cap S)
    OBVIOUS
  <2> QED BY <2>1, WorthOfParts
<1>3. Worth(S) = Worth(U \cap S) + Worth(S \ U)
  <2>1. S = (U \cap S) \cup (S \ U)
    OBVIOUS
  <2> QED BY <2>1, WorthOfParts
<1>4. Worth(R) = Worth(P) + Worth(R \ P)
  <2>1. R = P \cup (R \ P)
    OBVIOUS
  <2> QED BY <2>1, WorthOfParts
<1>5. Worth(S \ U) = 0 /\ Worth(R \ P) = 0
  <2>1. \A n \in Note : ValueOf[n] \in Nat
    BY PayConstants
  <2>2. \A n \in S \ U : ValueOf[n] = 0
    BY <2>1
  <2>3. \A n \in R \ P : ValueOf[n] = 0
    BY <2>1
  <2> QED BY <2>2, <2>3, WorthOfZeros
<1>6. /\ Worth(U \ S) \in Nat /\ Worth(P) \in Nat /\ Worth(U \cap S) \in Nat
      /\ Worth(S) \in Nat /\ Worth(R) \in Nat /\ Worth(U) \in Nat
  BY WorthType
<1> HIDE DEF P
<1> QED BY <1>1, <1>2, <1>3, <1>4, <1>5, <1>6

-----------------------------------------------------------------------------
(* Trees and shards *)

\* Trees and shards that are consistent, of any capacity.
ForestOK(f) ==
    /\ f.trees \in [Shard -> [leaf : BOOLEAN, index : Nat]]
    /\ f.shards \in [DOMAIN f.shards -> Note]
    /\ DOMAIN f.shards = {k \in Shard \X Nat : k[2] < Leaves(f.trees[k[1]])}
    /\ f.utxos = {f.shards[k] : k \in DOMAIN f.shards}
    /\ \A k, l \in DOMAIN f.shards : f.shards[k] = f.shards[l] => k = l
    /\ \A k \in DOMAIN f.shards : ShardOf[f.shards[k]] = k[1]

\* g has all leaves of f at their places
Extends(g, f) ==
    DOMAIN f.shards \subseteq DOMAIN g.shards
    /\ \A k \in DOMAIN f.shards : g.shards[k] = f.shards[k]

LEMMA InsertKeeps ==
    ASSUME NEW f, ForestOK(f), NEW n \in Note, n \notin f.utxos
    PROVE  /\ ForestOK(Insert(f, n))
           /\ Insert(f, n).utxos = f.utxos \cup {n}
           /\ Extends(Insert(f, n), f)
           /\ \A s \in Shard : Leaves(Insert(f, n).trees[s]) =
                Leaves(f.trees[s]) + IF s = ShardOf[n] THEN 1 ELSE 0
           /\ \A s \in Shard \ {ShardOf[n]} : Insert(f, n).trees[s] = f.trees[s]
<1> DEFINE g == Insert(f, n)
           s0 == ShardOf[n]
           next == Leaves(f.trees[s0])
<1>1. s0 \in Shard
  BY PayConstants
<1>2. \A s \in Shard : Leaves(f.trees[s]) \in Nat
  BY DEF ForestOK, Leaves
<1>3. /\ g.trees = [f.trees EXCEPT ![s0] = [leaf |-> TRUE, index |-> next]]
      /\ g.shards = Put(f.shards, <<s0, next>>, n)
      /\ g.utxos = f.utxos \cup {n}
  BY DEF Insert
<1> HIDE DEF g
<1>4. /\ g.trees \in [Shard -> [leaf : BOOLEAN, index : Nat]]
      /\ g.trees[s0] = [leaf |-> TRUE, index |-> next]
      /\ \A s \in Shard \ {s0} : g.trees[s] = f.trees[s]
  BY <1>1, <1>2, <1>3 DEF ForestOK
<1>5. \A s \in Shard : Leaves(g.trees[s]) = Leaves(f.trees[s]) + IF s = s0 THEN 1 ELSE 0
  <2>1. Leaves(g.trees[s0]) = next + 1
    BY <1>4 DEF Leaves
  <2> QED BY <1>2, <1>4, <2>1
<1>6. /\ DOMAIN g.shards = DOMAIN f.shards \cup {<<s0, next>>}
      /\ g.shards[<<s0, next>>] = n
      /\ <<s0, next>> \notin DOMAIN f.shards
      /\ \A k \in DOMAIN f.shards : g.shards[k] = f.shards[k]
  <2>1. <<s0, next>> \notin DOMAIN f.shards
    BY <1>2 DEF ForestOK
  <2> QED BY <1>3, <2>1 DEF Put
<1>7. DOMAIN g.shards = {k \in Shard \X Nat : k[2] < Leaves(g.trees[k[1]])}
  <2> DEFINE D == {k \in Shard \X Nat : k[2] < Leaves(g.trees[k[1]])}
  <2>1. ASSUME NEW k \in D PROVE k \in DOMAIN g.shards
    <3>1. CASE k[1] = s0 /\ k[2] = next
      BY <1>6, <3>1
    <3>2. CASE ~(k[1] = s0 /\ k[2] = next)
      <4>1. k[2] < Leaves(f.trees[k[1]])
        BY <1>1, <1>2, <1>5, <3>2
      <4> QED BY <1>6, <4>1 DEF ForestOK
    <3> QED BY <3>1, <3>2
  <2>2. ASSUME NEW k \in DOMAIN f.shards PROVE k \in D
    BY <1>2, <1>5 DEF ForestOK
  <2>3. <<s0, next>> \in D
    BY <1>1, <1>2, <1>5
  <2> QED BY <1>6, <2>1, <2>2, <2>3
<1>8. g.utxos = {g.shards[k] : k \in DOMAIN g.shards}
  <2>1. f.utxos = {f.shards[k] : k \in DOMAIN f.shards}
    BY DEF ForestOK
  <2>2. \A x : x \in f.utxos => \E k \in DOMAIN g.shards : g.shards[k] = x
    BY <1>6, <2>1
  <2>3. \A k \in DOMAIN g.shards : g.shards[k] \in f.utxos \cup {n}
    BY <1>6, <2>1
  <2>4. \E k \in DOMAIN g.shards : g.shards[k] = n
    BY <1>6
  <2> QED BY <1>3, <2>2, <2>3, <2>4
<1>9. \A k, l \in DOMAIN g.shards : g.shards[k] = g.shards[l] => k = l
  <2>1. \A k \in DOMAIN f.shards : f.shards[k] # n
    BY DEF ForestOK
  <2>2. \A k, l \in DOMAIN f.shards : f.shards[k] = f.shards[l] => k = l
    BY DEF ForestOK
  <2> QED BY <1>6, <2>1, <2>2
<1>10. \A k \in DOMAIN g.shards : ShardOf[g.shards[k]] = k[1]
  BY <1>6 DEF ForestOK
<1>11. g.shards \in [DOMAIN g.shards -> Note]
  BY <1>3, <1>6 DEF ForestOK, Put
<1>12. ForestOK(g)
  BY <1>4, <1>7, <1>8, <1>9, <1>10, <1>11 DEF ForestOK
<1>13. Extends(g, f)
  BY <1>6 DEF Extends
<1> QED BY <1>3, <1>4, <1>5, <1>12, <1>13 DEF g

Now == [trees |-> trees, shards |-> shards, utxos |-> utxoSet]

LEMMA ForestNow == ASSUME TypeOK, ShardsHoldUtxos PROVE ForestOK(Now)
<1>1. Now.trees \in [Shard -> [leaf : BOOLEAN, index : Nat]]
  BY PayConstants DEF TypeOK, Tree, Now
<1>2. \A s \in Shard : Leaves(trees[s]) \in 0 .. Capacity
  BY PayConstants DEF TypeOK, Tree, Leaves
<1>3. Slot \subseteq Shard \X Nat /\ \A k \in Shard \X Nat : k[2] < Capacity => k \in Slot
  BY PayConstants DEF Slot
<1>4. DOMAIN shards = {k \in Shard \X Nat : k[2] < Leaves(trees[k[1]])}
  <2>1. ASSUME NEW k \in Shard \X Nat, k[2] < Leaves(trees[k[1]]) PROVE k \in Slot
    <3>1. k[1] \in Shard /\ k[2] \in Nat
      OBVIOUS
    <3>2. k[2] < Capacity
      BY <1>2, <2>1, <3>1, PayConstants
    <3> QED BY <1>3, <3>2
  <2> QED BY <1>3, <2>1 DEF ShardsHoldUtxos
<1>5. Now.trees = trees /\ Now.shards = shards /\ Now.utxos = utxoSet
  BY DEF Now
<1>6. shards \in [DOMAIN shards -> Note]
  BY DEF TypeOK, IsStorageMap
<1>7. /\ utxoSet = {shards[k] : k \in DOMAIN shards}
      /\ \A k, l \in DOMAIN shards : shards[k] = shards[l] => k = l
      /\ \A k \in DOMAIN shards : ShardOf[shards[k]] = k[1]
  BY DEF ShardsHoldUtxos
<1>8. DOMAIN Now.shards = {k \in Shard \X Nat : k[2] < Leaves(Now.trees[k[1]])}
  BY <1>4, <1>5
<1>9. Now.utxos = {Now.shards[k] : k \in DOMAIN Now.shards}
  BY <1>5, <1>7
<1>10. Now.shards \in [DOMAIN Now.shards -> Note]
  BY <1>5, <1>6
<1>11. /\ \A k, l \in DOMAIN Now.shards : Now.shards[k] = Now.shards[l] => k = l
       /\ \A k \in DOMAIN Now.shards : ShardOf[Now.shards[k]] = k[1]
  BY <1>5, <1>7
<1> QED BY <1>1, <1>8, <1>9, <1>10, <1>11, Zenon DEF ForestOK

\* One receiver, or two different ones.
OneOrTwo(ns) ==
    \/ \E n \in Note : ns = <<n>>
    \/ \E m, n \in Note : m # n /\ ns = <<m, n>>

\* how many of the receivers fall into a shard
Count(ns, s) == Cardinality({i \in DOMAIN ns : ShardOf[ns[i]] = s})

LEMMA CountOfOne ==
    ASSUME NEW n, NEW s PROVE Count(<<n>>, s) = IF s = ShardOf[n] THEN 1 ELSE 0
<1> DEFINE I == {i \in DOMAIN <<n>> : ShardOf[<<n>>[i]] = s}
<1>1. I = IF s = ShardOf[n] THEN {1} ELSE {}
  <2>1. DOMAIN <<n>> = {1} /\ <<n>>[1] = n
    OBVIOUS
  <2>2. I = {i \in {1} : ShardOf[n] = s}
    BY <2>1
  <2> QED BY <2>2
<1> QED BY <1>1, FS_Singleton, FS_EmptySet DEF Count

LEMMA CountOfTwo ==
    ASSUME NEW m, NEW n, NEW s
    PROVE  Count(<<m, n>>, s) =
             (IF s = ShardOf[m] THEN 1 ELSE 0) + (IF s = ShardOf[n] THEN 1 ELSE 0)
<1> DEFINE I == {i \in DOMAIN <<m, n>> : ShardOf[<<m, n>>[i]] = s}
<1>1. /\ s = ShardOf[m] /\ s = ShardOf[n] => I = {1} \cup {2}
      /\ s = ShardOf[m] /\ s # ShardOf[n] => I = {1}
      /\ s # ShardOf[m] /\ s = ShardOf[n] => I = {2}
      /\ s # ShardOf[m] /\ s # ShardOf[n] => I = {}
  <2>1. DOMAIN <<m, n>> = {1, 2} /\ <<m, n>>[1] = m /\ <<m, n>>[2] = n
    OBVIOUS
  <2>2. \A i : i \in I <=> (i = 1 /\ ShardOf[m] = s) \/ (i = 2 /\ ShardOf[n] = s)
    BY <2>1
  <2> HIDE DEF I
  <2> QED BY <2>2
<1>2. IsFiniteSet({1}) /\ Cardinality({1}) = 1 /\ Cardinality({2}) = 1 /\ Cardinality({}) = 0
  BY FS_Singleton, FS_EmptySet
<1>3. Cardinality({1} \cup {2}) = 2
  <2>1. Cardinality({1} \cup {2}) = IF 2 \in {1} THEN Cardinality({1}) ELSE Cardinality({1}) + 1
    BY <1>2, FS_AddElement, Zenon
  <2> QED BY <1>2, <2>1
<1> HIDE DEF I
<1>4. Cardinality(I) = (IF s = ShardOf[m] THEN 1 ELSE 0) + (IF s = ShardOf[n] THEN 1 ELSE 0)
  <2>1. CASE s = ShardOf[m] /\ s = ShardOf[n] BY <1>1, <1>3, <2>1
  <2>2. CASE s = ShardOf[m] /\ s # ShardOf[n] BY <1>1, <1>2, <2>2
  <2>3. CASE s # ShardOf[m] /\ s = ShardOf[n] BY <1>1, <1>2, <2>3
  <2>4. CASE s # ShardOf[m] /\ s # ShardOf[n] BY <1>1, <1>2, <2>4
  <2> QED BY <2>1, <2>2, <2>3, <2>4
<1> QED BY <1>4 DEF I, Count

\* Registering adds the receivers at the ends of their shards and moves nothing.
LEMMA WrittenFacts ==
    ASSUME TypeOK, ShardsHoldUtxos, NEW ns, OneOrTwo(ns),
           \A n \in NotesOf(ns) : IsNotRegistered(n)
    PROVE  /\ NotesOf(ns) \subseteq Note
           /\ ForestOK(Written(ns))
           /\ Written(ns).utxos = utxoSet \cup NotesOf(ns)
           /\ Extends(Written(ns), Now)
           /\ \A s \in Shard : Leaves(Written(ns).trees[s]) = Leaves(trees[s]) + Count(ns, s)
           /\ \A s \in Shard : (\A n \in NotesOf(ns) : ShardOf[n] # s) =>
                    Written(ns).trees[s] = trees[s]
           /\ \A n \in NotesOf(ns) : Leaves(Written(ns).trees[ShardOf[n]]) > 0
<1>1. ForestOK(Now) /\ Now.utxos = utxoSet /\ Now.trees = trees
  BY ForestNow DEF Now
<1>2. \A s \in Shard : Leaves(trees[s]) \in Nat
  BY <1>1 DEF ForestOK, Leaves
<1>3. \A n \in Note : ShardOf[n] \in Shard
  BY PayConstants
<1>4. CASE \E n \in Note : ns = <<n>>
  <2>1. PICK n \in Note : ns = <<n>>
    BY <1>4
  <2>2. NotesOf(ns) = {n} /\ Len(ns) = 1 /\ ns[1] = n
    BY <2>1 DEF NotesOf
  <2>3. Written(ns) = Insert(Now, n)
    BY <2>2 DEF Written, InsertAll, Now
  <2>4. n \notin Now.utxos
    BY <1>1, <2>2 DEF IsNotRegistered
  <2> DEFINE g == Insert(Now, n)
  <2>5. /\ ForestOK(g) /\ g.utxos = utxoSet \cup {n} /\ Extends(g, Now)
        /\ \A s \in Shard : Leaves(g.trees[s]) = Leaves(trees[s]) + IF s = ShardOf[n] THEN 1 ELSE 0
        /\ \A s \in Shard \ {ShardOf[n]} : g.trees[s] = trees[s]
    BY <1>1, <2>4, InsertKeeps
  <2> HIDE DEF g
  <2>6. \A s \in Shard : Leaves(g.trees[s]) = Leaves(trees[s]) + Count(ns, s)
    BY <2>1, <2>5, CountOfOne
  <2>7. Leaves(g.trees[ShardOf[n]]) > 0
    BY <1>2, <1>3, <2>5
  <2> QED BY <2>2, <2>3, <2>5, <2>6, <2>7 DEF g
<1>5. CASE \E m, n \in Note : m # n /\ ns = <<m, n>>
  <2>1. PICK m \in Note, n \in Note : m # n /\ ns = <<m, n>>
    BY <1>5
  <2>2. NotesOf(ns) = {m, n} /\ Len(ns) = 2 /\ ns[1] = m /\ ns[2] = n
    BY <2>1 DEF NotesOf
  <2> DEFINE f == Insert(Now, m)
             g == Insert(f, n)
  <2>3. Written(ns) = g
    BY <2>2 DEF Written, InsertAll, Now
  <2>4. m \notin utxoSet /\ n \notin utxoSet
    BY <2>2 DEF IsNotRegistered
  <2>5. /\ ForestOK(f) /\ f.utxos = utxoSet \cup {m} /\ Extends(f, Now)
        /\ \A s \in Shard : Leaves(f.trees[s]) = Leaves(trees[s]) + IF s = ShardOf[m] THEN 1 ELSE 0
        /\ \A s \in Shard \ {ShardOf[m]} : f.trees[s] = trees[s]
    BY <1>1, <2>4, InsertKeeps
  <2> HIDE DEF f
  <2>6. n \notin f.utxos
    BY <2>1, <2>4, <2>5
  <2>7. /\ ForestOK(g) /\ g.utxos = f.utxos \cup {n} /\ Extends(g, f)
        /\ \A s \in Shard : Leaves(g.trees[s]) = Leaves(f.trees[s]) + IF s = ShardOf[n] THEN 1 ELSE 0
        /\ \A s \in Shard \ {ShardOf[n]} : g.trees[s] = f.trees[s]
    BY <2>5, <2>6, InsertKeeps
  <2> HIDE DEF g
  <2>8. Extends(g, Now)
    BY <2>5, <2>7 DEF Extends
  <2>9. \A s \in Shard : Leaves(g.trees[s]) = Leaves(trees[s]) + Count(ns, s)
    <3>1. \A s : Count(ns, s) =
            (IF s = ShardOf[m] THEN 1 ELSE 0) + (IF s = ShardOf[n] THEN 1 ELSE 0)
      BY <2>1, CountOfTwo
    <3> QED BY <1>2, <2>5, <2>7, <3>1
  <2>10. g.utxos = utxoSet \cup NotesOf(ns)
    BY <2>2, <2>5, <2>7
  <2>11. Leaves(g.trees[ShardOf[m]]) > 0 /\ Leaves(g.trees[ShardOf[n]]) > 0
    BY <1>2, <1>3, <2>5, <2>7
  <2>12. \A s \in Shard \ {ShardOf[m], ShardOf[n]} : g.trees[s] = trees[s]
    BY <2>5, <2>7
  <2> QED BY <2>2, <2>3, <2>7, <2>8, <2>9, <2>10, <2>11, <2>12
<1> QED BY <1>4, <1>5 DEF OneOrTwo

-----------------------------------------------------------------------------
(* The inductive invariant *)

\* The root over all leaves of a shard is among those the ledger accepts.
RootsAreStored ==
    \A s \in Shard : Leaves(trees[s]) > 0 => RootOf(trees, s) \in outputs

\* Only notes that were on the ledger have been spent, but for worthless ones.
SpentWereThere == \A n \in nullifiers : ValueOf[n] > 0 => n \in utxoSet

ReceivedTypeOK ==
    /\ utxoSet \subseteq Note
    /\ IsStorageMap(shards, Slot, Note)
    /\ trees \in [Shard -> Tree]
    /\ outputs \subseteq Root

SpentTypeOK ==
    /\ nullifiers \subseteq Note
    /\ IsStorageMap(spentOrder, Nat, Note)
    /\ spentSize \in Nat

\* All that holds without looking at balances: what was received is in its place,
\* what was spent is in order.
NotesInOrder ==
    /\ ShardsHoldUtxos /\ RootsAreStored
    /\ SpentIsInOrder /\ SpentWereThere

IInv == TypeOK /\ NotesInOrder /\ PoolBacksNotes

LEMMA RegisterKeeps ==
    ASSUME TypeOK, ShardsHoldUtxos, RootsAreStored, NEW ns, OneOrTwo(ns),
           \A n \in NotesOf(ns) : IsNotRegistered(n),
           HasRoom(ns), RegisterAll(ns)
    PROVE  /\ ReceivedTypeOK' /\ ShardsHoldUtxos' /\ RootsAreStored'
           /\ utxoSet' = utxoSet \cup NotesOf(ns)
<1> DEFINE w == Written(ns)
<1>1. /\ NotesOf(ns) \subseteq Note
      /\ ForestOK(w)
      /\ w.utxos = utxoSet \cup NotesOf(ns)
      /\ \A s \in Shard : Leaves(w.trees[s]) = Leaves(trees[s]) + Count(ns, s)
      /\ \A s \in Shard : (\A n \in NotesOf(ns) : ShardOf[n] # s) => w.trees[s] = trees[s]
      /\ \A n \in NotesOf(ns) : Leaves(w.trees[ShardOf[n]]) > 0
  BY WrittenFacts
<1>2. /\ trees' = w.trees /\ shards' = w.shards /\ utxoSet' = w.utxos
      /\ outputs' = outputs \cup NextRoots(w.trees, ns)
  BY DEF RegisterAll
<1> HIDE DEF w
<1>3. \A s \in Shard : Leaves(w.trees[s]) <= Capacity
  BY <1>1 DEF HasRoom, Count
<1>4. \A s \in Shard : Leaves(w.trees[s]) \in 0 .. Capacity
  BY <1>1, <1>3, PayConstants DEF ForestOK, Leaves
<1>5. trees' \in [Shard -> Tree]
  <2>1. ASSUME NEW s \in Shard PROVE w.trees[s] \in Tree
    <3>1. CASE \A n \in NotesOf(ns) : ShardOf[n] # s
      BY <1>1, <3>1 DEF TypeOK
    <3>2. CASE \E n \in NotesOf(ns) : ShardOf[n] = s
      <4>1. Leaves(w.trees[s]) > 0
        BY <1>1, <3>2
      <4>2. w.trees[s] \in [leaf : BOOLEAN, index : Nat]
        BY <1>1 DEF ForestOK
      <4> QED BY <1>4, <4>1, <4>2, PayConstants DEF Leaves, Tree
    <3> QED BY <3>1, <3>2
  <2> QED BY <1>1, <1>2, <2>1 DEF ForestOK
<1>6. DOMAIN shards' = {k \in Slot : k[2] < Leaves(trees'[k[1]])}
  <2>1. ASSUME NEW k \in Shard \X Nat, k[2] < Leaves(w.trees[k[1]]) PROVE k \in Slot
    <3>1. k[1] \in Shard /\ k[2] \in Nat /\ k = <<k[1], k[2]>>
      OBVIOUS
    <3>2. k[2] \in 0 .. Capacity - 1
      BY <1>4, <2>1, <3>1, PayConstants
    <3> QED BY <3>1, <3>2 DEF Slot
  <2>2. Slot \subseteq Shard \X Nat
    BY PayConstants DEF Slot
  <2>3. DOMAIN w.shards = {k \in Shard \X Nat : k[2] < Leaves(w.trees[k[1]])}
    BY <1>1 DEF ForestOK
  <2> QED BY <1>2, <2>1, <2>2, <2>3
<1>7. IsStorageMap(shards', Slot, Note)
  <2>1. DOMAIN shards' \subseteq Slot
    BY <1>6
  <2> QED BY <1>1, <1>2, <2>1 DEF ForestOK, IsStorageMap
<1>8. utxoSet' = utxoSet \cup NotesOf(ns) /\ utxoSet' \subseteq Note
  BY <1>1, <1>2 DEF TypeOK
<1>9. outputs' \subseteq Root
  <2>1. ASSUME NEW n \in NotesOf(ns) PROVE RootOf(w.trees, ShardOf[n]) \in Root
    <3>1. ShardOf[n] \in Shard
      BY <1>1, PayConstants
    <3> QED BY <1>4, <3>1 DEF RootOf, Root
  <2> QED BY <1>2, <2>1 DEF NextRoots, TypeOK
<1>10. ShardsHoldUtxos'
  <2>1. /\ utxoSet' = {shards'[k] : k \in DOMAIN shards'}
        /\ \A k, l \in DOMAIN shards' : shards'[k] = shards'[l] => k = l
        /\ \A k \in DOMAIN shards' : ShardOf[shards'[k]] = k[1]
    BY <1>1, <1>2 DEF ForestOK
  <2> QED BY <1>6, <2>1 DEF ShardsHoldUtxos
<1>11. RootsAreStored'
  <2>1. ASSUME NEW s \in Shard, Leaves(w.trees[s]) > 0
        PROVE  RootOf(w.trees, s) \in outputs'
    <3>1. CASE \A n \in NotesOf(ns) : ShardOf[n] # s
      <4>1. w.trees[s] = trees[s]
        BY <1>1, <3>1
      <4>2. RootOf(w.trees, s) = RootOf(trees, s) /\ Leaves(trees[s]) > 0
        BY <2>1, <4>1 DEF RootOf
      <4> QED BY <1>2, <4>2 DEF RootsAreStored
    <3>2. CASE \E n \in NotesOf(ns) : ShardOf[n] = s
      BY <1>2, <3>2 DEF NextRoots
    <3> QED BY <3>1, <3>2
  <2> QED BY <1>2, <2>1 DEF RootsAreStored
<1> QED BY <1>5, <1>7, <1>8, <1>9, <1>10, <1>11 DEF ReceivedTypeOK

LEMMA SpendKeeps ==
    ASSUME TypeOK, SpentIsInOrder, NEW m \in Note, NEW n \in Note, m # n,
           IsUnspent(m), IsUnspent(n), SpendAll(<<m, n>>)
    PROVE  /\ SpentTypeOK' /\ SpentIsInOrder'
           /\ nullifiers' = nullifiers \cup {m, n}
<1>1. NotesOf(<<m, n>>) = {m, n}
  BY DEF NotesOf
<1>2. nullifiers' = nullifiers \cup {m, n} /\ spentSize' = spentSize + 2
  BY <1>1 DEF SpendAll, OrderFrom
<1>3. spentSize \in Nat /\ DOMAIN spentOrder = 0 .. spentSize - 1
  BY DEF TypeOK, SpentIsInOrder
<1>4. /\ DOMAIN spentOrder' = 0 .. spentSize + 1
      /\ spentOrder'[spentSize] = m /\ spentOrder'[spentSize + 1] = n
      /\ \A i \in 0 .. spentSize - 1 : spentOrder'[i] = spentOrder[i]
  <2>1. spentOrder' = [i \in (0 .. spentSize - 1) \cup (spentSize .. spentSize + 2 - 1) |->
                        IF i >= spentSize THEN <<m, n>>[i - spentSize + 1] ELSE spentOrder[i]]
    BY <1>3 DEF SpendAll, OrderFrom
  <2>2. (0 .. spentSize - 1) \cup (spentSize .. spentSize + 2 - 1) = 0 .. spentSize + 1
    BY <1>3
  <2>3. spentSize - spentSize + 1 = 1 /\ spentSize + 1 - spentSize + 1 = 2
    BY <1>3
  <2> QED BY <1>3, <2>1, <2>2, <2>3
<1>5. \A i \in 0 .. spentSize + 1 : i \in 0 .. spentSize - 1 \/ i = spentSize \/ i = spentSize + 1
  BY <1>3
<1>6. \A i \in 0 .. spentSize - 1 : spentOrder[i] \in nullifiers
  BY <1>3 DEF SpentIsInOrder
<1>7. \A i \in 0 .. spentSize + 1 : spentOrder'[i] \in nullifiers \cup {m, n}
  BY <1>4, <1>5, <1>6
<1>8. \A x \in nullifiers \cup {m, n} : \E i \in 0 .. spentSize + 1 : spentOrder'[i] = x
  <2>1. \A x \in nullifiers : \E i \in 0 .. spentSize - 1 : spentOrder[i] = x
    BY <1>3 DEF SpentIsInOrder
  <2>2. spentSize \in 0 .. spentSize + 1 /\ spentSize + 1 \in 0 .. spentSize + 1
        /\ 0 .. spentSize - 1 \subseteq 0 .. spentSize + 1
    BY <1>3
  <2>3. ASSUME NEW x \in nullifiers PROVE \E i \in 0 .. spentSize + 1 : spentOrder'[i] = x
    <3>1. PICK i \in 0 .. spentSize - 1 : spentOrder[i] = x
      BY <2>1
    <3> QED BY <1>4, <2>2, <3>1
  <2> QED BY <1>4, <2>2, <2>3
<1>9. \A i, j \in 0 .. spentSize + 1 : spentOrder'[i] = spentOrder'[j] => i = j
  <2>1. m \notin nullifiers /\ n \notin nullifiers
    BY DEF IsUnspent
  <2>2. \A i, j \in 0 .. spentSize - 1 : spentOrder[i] = spentOrder[j] => i = j
    BY <1>3 DEF SpentIsInOrder
  <2>3. ASSUME NEW i \in 0 .. spentSize + 1, NEW j \in 0 .. spentSize + 1,
               spentOrder'[i] = spentOrder'[j]
        PROVE  i = j
    <3>1. CASE i \in 0 .. spentSize - 1
      BY <1>4, <1>5, <1>6, <2>1, <2>2, <2>3, <3>1
    <3>2. CASE j \in 0 .. spentSize - 1
      BY <1>4, <1>5, <1>6, <2>1, <2>2, <2>3, <3>2
    <3>3. CASE i \in {spentSize, spentSize + 1} /\ j \in {spentSize, spentSize + 1}
      BY <1>4, <2>3, <3>3
    <3> QED BY <1>5, <3>1, <3>2, <3>3
  <2> QED BY <2>3
<1>10. spentSize' \in Nat /\ DOMAIN spentOrder' = 0 .. spentSize' - 1
  <2>1. spentSize + 2 - 1 = spentSize + 1
    BY <1>3
  <2> QED BY <1>2, <1>3, <1>4, <2>1
<1>11. nullifiers' = {spentOrder'[i] : i \in DOMAIN spentOrder'}
  <2>1. \A x \in nullifiers' : \E i \in DOMAIN spentOrder' : spentOrder'[i] = x
    BY <1>2, <1>4, <1>8
  <2>2. \A i \in DOMAIN spentOrder' : spentOrder'[i] \in nullifiers'
    BY <1>2, <1>4, <1>7
  <2> QED BY <2>1, <2>2
<1>12. SpentIsInOrder'
  BY <1>4, <1>9, <1>10, <1>11 DEF SpentIsInOrder
<1>13. nullifiers' \subseteq Note
  BY <1>2 DEF TypeOK
<1>14. IsStorageMap(spentOrder', Nat, Note)
  <2>1. DOMAIN spentOrder' \subseteq Nat
    BY <1>3, <1>4
  <2>2. \A i \in DOMAIN spentOrder' : spentOrder'[i] \in Note
    BY <1>2, <1>4, <1>7, <1>13
  <2>3. spentOrder' = [i \in DOMAIN spentOrder' |-> spentOrder'[i]]
    BY DEF SpendAll
  <2> QED BY <2>1, <2>2, <2>3 DEF IsStorageMap
<1> QED BY <1>2, <1>10, <1>12, <1>13, <1>14 DEF SpentTypeOK

-----------------------------------------------------------------------------
(* Notes and balances across a call *)

LEMMA PairIsOneOrTwo ==
    ASSUME NEW ns \in Pair, Distinct(ns)
    PROVE  /\ OneOrTwo(ns)
           /\ \E m, n \in Note : m # n /\ ns = <<m, n>>
<1>1. ns[1] \in Note /\ ns[2] \in Note /\ ns = <<ns[1], ns[2]>>
  BY DEF Pair
<1>2. DOMAIN ns = {1, 2}
  BY <1>1
<1>3. ns[1] # ns[2]
  BY <1>2 DEF Distinct
<1> QED BY <1>1, <1>3 DEF OneOrTwo

\* A valid sender worth something is on the ledger and was not spent.
LEMMA SenderIsThere ==
    ASSUME ShardsHoldUtxos, NEW n \in Note, SenderValid(n), ValueOf[n] > 0
    PROVE  n \in utxoSet \ nullifiers
<1>1. PICK r \in Root : Member(n, r)
  BY DEF SenderValid
<1>2. PICK i \in 0 .. r.leaves - 1 :
        <<r.shard, i>> \in DOMAIN shards /\ shards[<<r.shard, i>>] = n
  BY <1>1 DEF Member
<1>3. n \in utxoSet
  BY <1>2 DEF ShardsHoldUtxos
<1> QED BY <1>3 DEF SenderValid, IsUnspent

LEMMA TransferredFacts ==
    ASSUME balance \in [Asset -> [Account -> Nat]],
           NEW a \in Asset, NEW from \in Account, NEW to \in Account, NEW v \in Nat,
           balance[a][from] >= v
    PROVE  LET b == Transferred(a, from, to, v) IN
           /\ b \in [Asset -> [Account -> Nat]]
           /\ from # to => b[a][from] = balance[a][from] - v /\ b[a][to] = balance[a][to] + v
           /\ \A c \in Account \ {from, to} : b[a][c] = balance[a][c]
           /\ \A o \in Asset \ {a} : b[o] = balance[o]
<1>1. CASE from = to
  BY <1>1 DEF Transferred
<1>2. CASE from # to
  <2> DEFINE row == [balance[a] EXCEPT ![from] = @ - v, ![to] = @ + v]
  <2>1. balance[a] \in [Account -> Nat]
    OBVIOUS
  <2>2. balance[a][from] - v \in Nat /\ balance[a][to] + v \in Nat
    BY <2>1
  <2>3. /\ row \in [Account -> Nat]
        /\ row[from] = balance[a][from] - v /\ row[to] = balance[a][to] + v
        /\ \A c \in Account \ {from, to} : row[c] = balance[a][c]
    BY <1>2, <2>1, <2>2
  <2>4. Transferred(a, from, to, v) = [balance EXCEPT ![a] = row]
    BY <1>2 DEF Transferred
  <2> HIDE DEF row
  <2> QED BY <2>3, <2>4
<1> QED BY <1>1, <1>2

(***************************************************************************)
(* A post that spends the notes S and makes the notes R, of one asset,     *)
(* keeps the notes of every asset backed, if the pool's balance changes by *)
(* what R is worth more than S.                                            *)
(***************************************************************************)
LEMMA PostKeepsBacking ==
    ASSUME TypeOK, SpentWereThere, PoolBacksNotes,
           NEW a \in Asset, NEW S \in SUBSET Note, NEW R \in SUBSET Note,
           \A n \in S \cup R : AssetOf[n] = a,
           \A n \in S : ValueOf[n] > 0 => n \in utxoSet \ nullifiers,
           R \cap utxoSet = {},
           utxoSet' = utxoSet \cup R,
           nullifiers' = nullifiers \cup S,
           balance' \in [Asset -> [Account -> Nat]],
           balance'[a][Pool] + Worth(S) = balance[a][Pool] + Worth(R),
           \A b \in Asset \ {a} : balance'[b][Pool] = balance[b][Pool]
    PROVE  SpentWereThere' /\ PoolBacksNotes'
<1>1. SpentWereThere'
  BY DEF SpentWereThere
<1> DEFINE U == Unspent(a)
           V == Unspent(a)'
<1>2. V = (U \ S) \cup {n \in R : ValueOf[n] > 0}
  <2>1. \A n \in R : ValueOf[n] > 0 => n \notin nullifiers \cup S
    BY DEF SpentWereThere
  <2> QED BY <2>1, Zenon DEF Unspent
<1>3. U \in SUBSET Note /\ V \in SUBSET Note /\ U \cap R = {}
  BY <1>2 DEF TypeOK, Unspent
<1>4. \A n \in S : ValueOf[n] > 0 => n \in U
  BY DEF Unspent
<1>5. Worth(V) + Worth(S) = Worth(U) + Worth(R)
  <2> HIDE DEF U, V
  <2> QED BY <1>2, <1>3, <1>4, WorthOfExchange
<1>6. Worth(U) \in Nat /\ Worth(V) \in Nat /\ Worth(S) \in Nat /\ Worth(R) \in Nat
  BY <1>3, WorthType
<1>7. balance[a][Pool] >= Endowment[a][Pool] + Worth(U)
  BY DEF PoolBacksNotes
<1>8. balance[a][Pool] \in Nat /\ balance'[a][Pool] \in Nat /\ Endowment[a][Pool] \in Nat
  BY PayConstants DEF TypeOK
<1>9. balance'[a][Pool] >= Endowment[a][Pool] + Worth(V)
  <2> HIDE DEF U, V
  <2> QED BY <1>5, <1>6, <1>7, <1>8
<1>10. ASSUME NEW b \in Asset \ {a}
       PROVE  balance'[b][Pool] >= Endowment[b][Pool] + Worth(Unspent(b)')
  <2>1. Unspent(b)' = Unspent(b)
    <3>1. \A n \in S \cup R : AssetOf[n] # b
      OBVIOUS
    <3> QED BY <3>1, Zenon DEF Unspent
  <2>2. balance[b][Pool] >= Endowment[b][Pool] + Worth(Unspent(b))
    BY DEF PoolBacksNotes
  <2> QED BY <2>1, <2>2
<1>11. \A b \in Asset : balance'[b][Pool] >= Endowment[b][Pool] + Worth(Unspent(b)')
  BY <1>9, <1>10
<1>12. PoolBacksNotes'
  BY <1>11 DEF PoolBacksNotes
<1> QED BY <1>1, <1>12

-----------------------------------------------------------------------------
(* Every call keeps the invariant *)

\* To type a state is to type what was received, what was spent and the balances.
LEMMA TypeOfParts ==
    ASSUME ReceivedTypeOK', SpentTypeOK', balance' \in [Asset -> [Account -> Nat]]
    PROVE  TypeOK'
BY DEF ReceivedTypeOK, SpentTypeOK, TypeOK

LEMMA InitIInv == Init => IInv
<1> SUFFICES ASSUME Init PROVE IInv
  OBVIOUS
<1>1. TypeOK
  BY PayConstants DEF Init, TypeOK, IsStorageMap, NoEntries, Tree
<1>2. ShardsHoldUtxos
  <2>1. DOMAIN shards = {} /\ utxoSet = {}
    BY DEF Init, NoEntries
  <2>2. \A k \in Slot : ~(k[2] < Leaves(trees[k[1]]))
    BY PayConstants DEF Init, Leaves, Slot
  <2> QED BY <2>1, <2>2 DEF ShardsHoldUtxos
<1>3. RootsAreStored
  BY DEF Init, RootsAreStored, Leaves
<1>4. SpentIsInOrder /\ SpentWereThere
  <2>1. nullifiers = {} /\ spentSize = 0 /\ DOMAIN spentOrder = {}
    BY DEF Init, NoEntries
  <2>2. 0 .. 0 - 1 = {}
    OBVIOUS
  <2> QED BY <2>1, <2>2 DEF SpentIsInOrder, SpentWereThere
<1>5. PoolBacksNotes
  <2>1. ASSUME NEW a \in Asset PROVE balance[a][Pool] >= Endowment[a][Pool] + Worth(Unspent(a))
    <3>1. Unspent(a) = {}
      BY DEF Init, Unspent
    <3>2. Worth(Unspent(a)) = 0
      BY <3>1, WorthOfZeros
    <3>3. balance[a][Pool] = Endowment[a][Pool] /\ Endowment[a][Pool] \in Nat
      BY PayConstants DEF Init
    <3> QED BY <3>2, <3>3
  <2> QED BY <2>1 DEF PoolBacksNotes
<1> QED BY <1>1, <1>2, <1>3, <1>4, <1>5 DEF IInv, NotesInOrder

LEMMA ToPrivateKeeps ==
    ASSUME IInv, NEW who \in Signer, NEW n \in Note, ToPrivate(who, n) PROVE IInv'
<1> DEFINE a == AssetOf[n]
           v == ValueOf[n]
<1>1. a \in Asset /\ v \in Nat /\ who \in Account /\ Pool \in Account /\ who # Pool
  BY PayConstants DEF Signer
<1>2. OneOrTwo(<<n>>) /\ NotesOf(<<n>>) = {n}
  BY DEF OneOrTwo, NotesOf
<1>3. n \notin utxoSet
  BY <1>2 DEF ToPrivate, Postable, IsNotRegistered
<1>4. ReceivedTypeOK' /\ ShardsHoldUtxos' /\ RootsAreStored' /\ utxoSet' = utxoSet \cup {n}
  BY <1>2, RegisterKeeps DEF IInv, NotesInOrder, ToPrivate, Postable
<1>5. /\ nullifiers' = nullifiers \cup {} /\ spentOrder' = spentOrder /\ spentSize' = spentSize
  BY DEF ToPrivate, spent
<1>6. SpentTypeOK' /\ SpentIsInOrder'
  BY <1>5 DEF IInv, NotesInOrder, TypeOK, SpentTypeOK, SpentIsInOrder
<1>7. /\ balance' \in [Asset -> [Account -> Nat]]
      /\ balance'[a][Pool] = balance[a][Pool] + v
      /\ \A b \in Asset \ {a} : balance'[b] = balance[b]
  <2>1. balance \in [Asset -> [Account -> Nat]] /\ balance' = Transferred(a, who, Pool, v)
    BY DEF IInv, TypeOK, ToPrivate
  <2>2. balance[a][who] >= v
    <3>1. balance[a][who] >= v + MinBalance /\ balance[a][who] \in Nat
      BY <1>1, <2>1 DEF ToPrivate, CanTransfer
    <3> QED BY <1>1, <3>1, PayConstants
  <2> HIDE DEF a, v
  <2> QED BY <1>1, <2>1, <2>2, TransferredFacts
<1>8. TypeOK'
  BY <1>4, <1>6, <1>7, TypeOfParts
<1>9. SpentWereThere' /\ PoolBacksNotes'
  <2>1. Worth({n}) = v /\ Worth({}) = 0
    BY WorthOfOne, WorthOfZeros
  <2>2. balance[a][Pool] \in Nat
    BY <1>1 DEF IInv, TypeOK
  <2>3. balance'[a][Pool] + Worth({}) = balance[a][Pool] + Worth({n})
    BY <1>1, <1>7, <2>1, <2>2
  <2>4. TypeOK /\ SpentWereThere /\ PoolBacksNotes
    BY DEF IInv, NotesInOrder
  <2>5. \A m \in {} \cup {n} : AssetOf[m] = a
    OBVIOUS
  <2>6. {n} \cap utxoSet = {} /\ {} \in SUBSET Note /\ {n} \in SUBSET Note
    BY <1>3
  <2>7. \A m \in {} : ValueOf[m] > 0 => m \in utxoSet \ nullifiers
    OBVIOUS
  <2> HIDE DEF a, v
  <2> QED BY <1>1, <1>4, <1>5, <1>7, <2>3, <2>4, <2>5, <2>6, <2>7, PostKeepsBacking
<1> QED BY <1>4, <1>6, <1>8, <1>9 DEF IInv, NotesInOrder

\* What the valid senders of a post of one asset are worth is among what is unspent.
LEMMA SendersAreBacked ==
    ASSUME TypeOK, ShardsHoldUtxos, NEW a \in Asset, NEW senders \in ValidSenders,
           \A n \in NotesOf(senders) : AssetOf[n] = a
    PROVE  /\ \E m, n \in Note : m # n /\ senders = <<m, n>> /\ IsUnspent(m) /\ IsUnspent(n)
           /\ NotesOf(senders) \subseteq Note
           /\ \A n \in NotesOf(senders) : ValueOf[n] > 0 => n \in utxoSet \ nullifiers
           /\ Worth(NotesOf(senders)) <= Worth(Unspent(a))
<1>1. PICK m \in Note, n \in Note : m # n /\ senders = <<m, n>>
  BY PairIsOneOrTwo DEF ValidSenders
<1>2. NotesOf(senders) = {m, n}
  BY <1>1 DEF NotesOf
<1>3. \A x \in {m, n} : SenderValid(x)
  BY <1>2 DEF ValidSenders
<1>4. IsUnspent(m) /\ IsUnspent(n)
  BY <1>3 DEF SenderValid
<1>5. \A x \in {m, n} : ValueOf[x] > 0 => x \in utxoSet \ nullifiers
  BY <1>1, <1>3, SenderIsThere
<1> DEFINE S == {m, n}
           U == Unspent(a)
<1>6. \A x \in S : ValueOf[x] > 0 => x \in U
  BY <1>2, <1>5 DEF Unspent
<1>7. S \in SUBSET Note /\ U \in SUBSET Note
  BY <1>1 DEF TypeOK, Unspent
<1>8. Worth(S) <= Worth(U)
  <2> DEFINE V == U \ S
  <2>1. V = (U \ S) \cup {x \in {} : ValueOf[x] > 0} /\ U \cap {} = {} /\ {} \in SUBSET Note
    OBVIOUS
  <2>2. V \in SUBSET Note
    BY <1>7
  <2> HIDE DEF S, U, V
  <2>3. Worth(V) + Worth(S) = Worth(U) + Worth({})
    BY <1>6, <1>7, <2>1, WorthOfExchange
  <2>4. Worth({}) = 0
    BY WorthOfZeros
  <2>5. Worth(V) \in Nat /\ Worth(S) \in Nat /\ Worth(U) \in Nat
    BY <1>7, <2>2, WorthType
  <2> QED BY <2>3, <2>4, <2>5
<1> QED BY <1>1, <1>2, <1>4, <1>5, <1>7, <1>8

LEMMA ToPublicKeeps ==
    ASSUME IInv, NEW who \in Signer, NEW senders \in ValidSenders,
           NEW change \in Note, NEW v \in Payable, ToPublic(who, senders, change, v)
    PROVE  IInv'
<1> DEFINE a == AssetOf[change]
           S == NotesOf(senders)
<1>1. a \in Asset /\ who \in Account /\ Pool \in Account /\ who # Pool
  BY PayConstants DEF Signer
<1>2. v \in Nat
  BY WorthType DEF Payable
<1>3. OneOrTwo(<<change>>) /\ NotesOf(<<change>>) = {change}
  BY DEF OneOrTwo, NotesOf
<1>4. \A n \in S \cup {change} : AssetOf[n] = a
  BY <1>3 DEF ToPublic, AcceptsToPublic, Postable, Proven
<1>5. Worth(S) = Worth({change}) + v
  <2>1. 0 + Worth(S) = Worth({change}) + v
    BY <1>3 DEF ToPublic, AcceptsToPublic, Postable, Proven
  <2>2. Worth(S) \in Nat
    BY SendersAreBacked, <1>1, <1>4, WorthType DEF IInv, NotesInOrder
  <2> HIDE DEF S
  <2> QED BY <2>1, <2>2
<1>6. PICK m \in Note, n \in Note :
        m # n /\ senders = <<m, n>> /\ IsUnspent(m) /\ IsUnspent(n)
  BY SendersAreBacked, <1>1, <1>4 DEF IInv, NotesInOrder
<1>7. S \subseteq Note /\ \A x \in S : ValueOf[x] > 0 => x \in utxoSet \ nullifiers
  BY SendersAreBacked, <1>1, <1>4 DEF IInv, NotesInOrder
<1>8. change \notin utxoSet
  BY <1>3 DEF ToPublic, AcceptsToPublic, Postable, IsNotRegistered
<1>9. ReceivedTypeOK' /\ ShardsHoldUtxos' /\ RootsAreStored' /\ utxoSet' = utxoSet \cup {change}
  BY <1>3, RegisterKeeps DEF IInv, NotesInOrder, ToPublic, AcceptsToPublic, Postable
<1>10. SpentTypeOK' /\ SpentIsInOrder' /\ nullifiers' = nullifiers \cup S
  <2>1. SpendAll(<<m, n>>)
    BY <1>6 DEF ToPublic
  <2>2. S = {m, n}
    BY <1>6 DEF NotesOf
  <2> QED BY <1>6, <2>1, <2>2, SpendKeeps DEF IInv, NotesInOrder
<1>11. /\ balance' \in [Asset -> [Account -> Nat]]
       /\ balance'[a][Pool] = balance[a][Pool] - v
       /\ \A b \in Asset \ {a} : balance'[b] = balance[b]
  <2>1. balance \in [Asset -> [Account -> Nat]] /\ balance' = Transferred(a, Pool, who, v)
    BY DEF IInv, TypeOK, ToPublic
  <2>2. balance[a][Pool] >= v
    <3>1. balance[a][Pool] >= v + MinBalance /\ balance[a][Pool] \in Nat
      BY <1>1, <2>1 DEF ToPublic, CanTransfer
    <3> QED BY <1>2, <3>1, PayConstants
  <2> HIDE DEF a
  <2> QED BY <1>1, <1>2, <2>1, <2>2, TransferredFacts
<1>12. TypeOK'
  BY <1>9, <1>10, <1>11, TypeOfParts
<1>13. SpentWereThere' /\ PoolBacksNotes'
  <2>1. Worth({change}) \in Nat /\ balance[a][Pool] \in Nat
    BY <1>1, WorthType DEF IInv, TypeOK
  <2>2. balance'[a][Pool] + Worth(S) = balance[a][Pool] + Worth({change})
    <3> HIDE DEF a, S
    <3> QED BY <1>2, <1>5, <1>11, <2>1
  <2>3. TypeOK /\ SpentWereThere /\ PoolBacksNotes
    BY DEF IInv, NotesInOrder
  <2>4. {change} \cap utxoSet = {} /\ S \in SUBSET Note /\ {change} \in SUBSET Note
    BY <1>7, <1>8
  <2> HIDE DEF a, S
  <2> QED BY <1>1, <1>4, <1>7, <1>9, <1>10, <1>11, <2>2, <2>3, <2>4, PostKeepsBacking
<1> QED BY <1>9, <1>10, <1>12, <1>13 DEF IInv, NotesInOrder

LEMMA PrivateTransferKeeps ==
    ASSUME IInv, NEW senders \in ValidSenders, NEW receivers \in Pair,
           PrivateTransfer(senders, receivers)
    PROVE  IInv'
<1> DEFINE a == AssetOf[senders[1]]
           S == NotesOf(senders)
           R == NotesOf(receivers)
<1>1. a \in Asset
  <2>1. senders[1] \in Note
    BY DEF ValidSenders, Pair
  <2> QED BY <2>1, PayConstants
<1>2. /\ Postable(a, 0, senders, receivers, 0)
      /\ SpendAll(senders) /\ RegisterAll(receivers) /\ balance' = balance
  BY DEF PrivateTransfer
<1> HIDE DEF a
<1>3. \A n \in S \cup R : AssetOf[n] = a
  BY <1>2 DEF Postable, Proven
<1>4. PICK m \in Note, n \in Note :
        m # n /\ senders = <<m, n>> /\ IsUnspent(m) /\ IsUnspent(n)
  BY SendersAreBacked, <1>1, <1>3 DEF IInv, NotesInOrder
<1>5. S \subseteq Note /\ \A x \in S : ValueOf[x] > 0 => x \in utxoSet \ nullifiers
  BY SendersAreBacked, <1>1, <1>3 DEF IInv, NotesInOrder
<1>6. OneOrTwo(receivers) /\ R \subseteq Note
  <2>1. OneOrTwo(receivers)
    BY <1>2, PairIsOneOrTwo DEF Postable
  <2> QED BY <2>1 DEF OneOrTwo, NotesOf
<1>7. Worth(S) = Worth(R)
  <2>1. 0 + Worth(S) = Worth(R) + 0
    BY <1>2 DEF Postable, Proven
  <2>2. Worth(S) \in Nat /\ Worth(R) \in Nat
    BY <1>5, <1>6, WorthType
  <2> HIDE DEF S, R
  <2> QED BY <2>1, <2>2
<1>8. R \cap utxoSet = {}
  BY <1>2 DEF Postable, IsNotRegistered
<1>9. ReceivedTypeOK' /\ ShardsHoldUtxos' /\ RootsAreStored' /\ utxoSet' = utxoSet \cup R
  BY <1>2, <1>6, RegisterKeeps DEF IInv, NotesInOrder, Postable
<1>10. SpentTypeOK' /\ SpentIsInOrder' /\ nullifiers' = nullifiers \cup S
  <2>1. SpendAll(<<m, n>>)
    BY <1>2, <1>4
  <2>2. S = {m, n}
    BY <1>4 DEF NotesOf
  <2> QED BY <1>4, <2>1, <2>2, SpendKeeps DEF IInv, NotesInOrder
<1>11. balance' \in [Asset -> [Account -> Nat]]
  BY <1>2 DEF IInv, TypeOK
<1>12. TypeOK'
  BY <1>9, <1>10, <1>11, TypeOfParts
<1>13. SpentWereThere' /\ PoolBacksNotes'
  <2>1. balance'[a][Pool] + Worth(S) = balance[a][Pool] + Worth(R)
    BY <1>2, <1>7
  <2>2. \A b \in Asset \ {a} : balance'[b][Pool] = balance[b][Pool]
    BY <1>2
  <2>3. TypeOK /\ SpentWereThere /\ PoolBacksNotes
    BY DEF IInv, NotesInOrder
  <2> HIDE DEF S, R
  <2> QED BY <1>1, <1>3, <1>5, <1>6, <1>8, <1>9, <1>10, <1>11, <2>1, <2>2, <2>3, PostKeepsBacking
<1> QED BY <1>9, <1>10, <1>12, <1>13 DEF IInv, NotesInOrder

LEMMA UnchangedNotesKeep ==
    ASSUME IInv, UNCHANGED <<received, spent>>,
           balance' \in [Asset -> [Account -> Nat]],
           \A b \in Asset : balance'[b][Pool] >= balance[b][Pool]
    PROVE  IInv'
<1>1. /\ utxoSet' = utxoSet /\ shards' = shards /\ trees' = trees /\ outputs' = outputs
      /\ nullifiers' = nullifiers /\ spentOrder' = spentOrder /\ spentSize' = spentSize
  BY DEF received, spent
<1>2. TypeOK'
  BY <1>1 DEF IInv, TypeOK
<1>3. ShardsHoldUtxos' /\ RootsAreStored'
  BY <1>1 DEF IInv, NotesInOrder, ShardsHoldUtxos, RootsAreStored, RootOf, Leaves
<1>4. SpentIsInOrder' /\ SpentWereThere'
  BY <1>1 DEF IInv, NotesInOrder, SpentIsInOrder, SpentWereThere
<1>5. PoolBacksNotes'
  <2>1. ASSUME NEW b \in Asset
        PROVE  balance'[b][Pool] >= Endowment[b][Pool] + Worth(Unspent(b)')
    <3>1. Unspent(b)' = Unspent(b)
      BY <1>1 DEF Unspent
    <3>2. Worth(Unspent(b)) \in Nat
      BY WorthType DEF IInv, TypeOK, Unspent
    <3>3. /\ balance[b][Pool] >= Endowment[b][Pool] + Worth(Unspent(b))
          /\ balance[b][Pool] \in Nat /\ Endowment[b][Pool] \in Nat
          /\ balance'[b][Pool] >= balance[b][Pool] /\ balance'[b][Pool] \in Nat
      BY PayConstants DEF IInv, PoolBacksNotes, TypeOK
    <3> QED BY <3>1, <3>2, <3>3
  <2> QED BY <2>1 DEF PoolBacksNotes
<1> QED BY <1>2, <1>3, <1>4, <1>5 DEF IInv, NotesInOrder

LEMMA PublicTransferKeeps ==
    ASSUME IInv, NEW a \in Asset, NEW who \in Signer, NEW to \in Account,
           NEW v \in 0 .. balance[a][who], PublicTransfer(a, who, to, v)
    PROVE  IInv'
<1>1. who \in Account /\ Pool \in Account /\ who # Pool
  BY PayConstants DEF Signer
<1>2. balance \in [Asset -> [Account -> Nat]] /\ balance[a][who] \in Nat /\ balance[a][Pool] \in Nat
  BY <1>1 DEF IInv, TypeOK
<1>3. v \in Nat /\ balance[a][who] >= v
  BY <1>2
<1>4. balance' = Transferred(a, who, to, v) /\ UNCHANGED <<received, spent>>
  BY DEF PublicTransfer
<1>5. /\ balance' \in [Asset -> [Account -> Nat]]
      /\ who # to => balance'[a][to] = balance[a][to] + v
      /\ \A c \in Account \ {who, to} : balance'[a][c] = balance[a][c]
      /\ \A o \in Asset \ {a} : balance'[o] = balance[o]
  BY <1>1, <1>2, <1>3, <1>4, TransferredFacts
<1>6. \A b \in Asset : balance'[b][Pool] >= balance[b][Pool]
  <2>1. balance'[a][Pool] >= balance[a][Pool]
    BY <1>1, <1>2, <1>3, <1>5
  <2>2. \A b \in Asset \ {a} : balance[b][Pool] \in Nat /\ balance'[b][Pool] = balance[b][Pool]
    BY <1>1, <1>2, <1>5
  <2> QED BY <2>1, <2>2
<1> QED BY <1>4, <1>5, <1>6, UnchangedNotesKeep

LEMMA NextIInv == IInv /\ [Next]_ledger => IInv'
<1> SUFFICES ASSUME IInv, [Next]_ledger PROVE IInv'
  OBVIOUS
<1>1. ASSUME NEW who \in Signer, NEW n \in Note, ToPrivate(who, n) PROVE IInv'
  BY <1>1, ToPrivateKeeps
<1>2. ASSUME NEW senders \in ValidSenders, NEW who \in Signer, NEW change \in Note,
             NEW v \in Payable, ToPublic(who, senders, change, v)
      PROVE  IInv'
  BY <1>2, ToPublicKeeps
<1>3. ASSUME NEW senders \in ValidSenders, NEW receivers \in Pair,
             PrivateTransfer(senders, receivers)
      PROVE  IInv'
  BY <1>3, PrivateTransferKeeps
<1>4. ASSUME NEW a \in Asset, NEW who \in Signer, NEW to \in Account,
             NEW v \in 0 .. balance[a][who], PublicTransfer(a, who, to, v)
      PROVE  IInv'
  BY <1>4, PublicTransferKeeps
<1>5. CASE UNCHANGED ledger
  <2>1. UNCHANGED <<received, spent>> /\ balance' = balance
    BY <1>5 DEF ledger
  <2>2. balance' \in [Asset -> [Account -> Nat]] /\ Pool \in Account
    BY <2>1, PayConstants DEF IInv, TypeOK
  <2>3. \A b \in Asset : balance'[b][Pool] >= balance[b][Pool]
    BY <2>1, <2>2
  <2> QED BY <2>1, <2>2, <2>3, UnchangedNotesKeep
<1> QED BY <1>1, <1>2, <1>3, <1>4, <1>5 DEF Next

-----------------------------------------------------------------------------
(* Theorems *)

THEOREM AlwaysIInv == Spec => []IInv
<1>1. Init => IInv
  BY InitIInv
<1>2. IInv /\ [Next]_ledger => IInv'
  BY NextIInv
<1> QED BY <1>1, <1>2, PTL DEF Spec

(***************************************************************************)
(* Every state the calls of the pallet lead to is well-formed: leaves have *)
(* room in their trees, roots are over leaves of a tree, and no balance    *)
(* falls below zero.                                                       *)
(***************************************************************************)
THEOREM PayTypeCorrect == Spec => []TypeOK
<1>1. IInv => TypeOK
  BY DEF IInv
<1> QED BY <1>1, AlwaysIInv, PTL

(***************************************************************************)
(* However many posts spend notes, the insertion order has no gap and no   *)
(* index or nullifier in it twice, and it lists the set of nullifiers.     *)
(***************************************************************************)
THEOREM SpentStaysInOrder == Spec => []SpentIsInOrder
<1>1. IInv => SpentIsInOrder
  BY DEF IInv, NotesInOrder
<1> QED BY <1>1, AlwaysIInv, PTL

(***************************************************************************)
(* The leaves of the shards are the registered notes, each once, without a *)
(* gap up to the last leaf of the shard's tree, also after posts with two  *)
(* receivers in one shard.                                                 *)
(***************************************************************************)
THEOREM ShardsAlwaysHoldUtxos == Spec => []ShardsHoldUtxos
<1>1. IInv => ShardsHoldUtxos
  BY DEF IInv, NotesInOrder
<1> QED BY <1>1, AlwaysIInv, PTL

(***************************************************************************)
(* The pallet's account keeps, for each asset, what its unspent notes are  *)
(* worth besides its endowment.                                            *)
(***************************************************************************)
THEOREM PoolAlwaysBacksNotes == Spec => []PoolBacksNotes
<1>1. IInv => PoolBacksNotes
  BY DEF IInv
<1> QED BY <1>1, AlwaysIInv, PTL

LEMMA IInvUnspentCanBeSpent == IInv => UnspentCanBeSpent
<1> SUFFICES ASSUME IInv, NEW n \in utxoSet \ nullifiers PROVE SenderValid(n)
  BY DEF UnspentCanBeSpent
<1>1. PICK k \in DOMAIN shards : shards[k] = n
  BY DEF IInv, NotesInOrder, ShardsHoldUtxos
<1>2. k \in Slot /\ k[2] < Leaves(trees[k[1]])
  BY DEF IInv, NotesInOrder, ShardsHoldUtxos
<1>3. k[1] \in Shard /\ k[2] \in Nat /\ k = <<k[1], k[2]>>
  BY <1>2, PayConstants DEF Slot
<1> DEFINE s == k[1]
           r == RootOf(trees, s)
<1>4. Leaves(trees[s]) \in Nat
  BY <1>3, PayConstants DEF IInv, TypeOK, Tree, Leaves
<1>5. Leaves(trees[s]) > 0
  BY <1>2, <1>3, <1>4
<1>6. r \in outputs
  BY <1>3, <1>5 DEF IInv, NotesInOrder, RootsAreStored
<1>7. r \in Root
  BY <1>6 DEF IInv, TypeOK
<1>8. HasMatchingOutput(r)
  BY <1>6 DEF HasMatchingOutput
<1>9. Member(n, r)
  <2>1. r.shard = k[1] /\ r.leaves = Leaves(trees[s])
    BY DEF RootOf
  <2>2. k[2] \in 0 .. r.leaves - 1
    BY <1>2, <1>3, <1>4, <2>1
  <2> HIDE DEF r
  <2>3. <<r.shard, k[2]>> \in DOMAIN shards /\ shards[<<r.shard, k[2]>>] = n
    BY <1>1, <1>3, <2>1
  <2> QED BY <2>2, <2>3 DEF Member
<1> HIDE DEF r
<1> QED BY <1>7, <1>8, <1>9 DEF SenderValid, IsUnspent

(***************************************************************************)
(* A note that is on the ledger and was not spent can be spent: a root of  *)
(* its shard's tree over all leaves is among those that are accepted.      *)
(***************************************************************************)
THEOREM UnspentStaysSpendable == Spec => []UnspentCanBeSpent
<1>1. IInv => UnspentCanBeSpent
  BY IInvUnspentCanBeSpent
<1> QED BY <1>1, AlwaysIInv, PTL

\* The pallet's account was brought to life, in every asset, before the first post.
Endowed == \A a \in Asset : Endowment[a][Pool] >= MinBalance

LEMMA IInvPayoutsSucceed == ASSUME Endowed PROVE IInv => PayoutsSucceed
<1> SUFFICES ASSUME IInv, NEW who \in Signer, NEW senders \in ValidSenders,
                    NEW change \in Note, NEW v \in Payable,
                    AcceptsToPublic(who, senders, change, v)
             PROVE  CanTransfer(AssetOf[change], Pool, who, v)
  BY DEF PayoutsSucceed
<1> DEFINE a == AssetOf[change]
           S == NotesOf(senders)
<1>1. a \in Asset /\ v \in Nat /\ who \in Account /\ Pool \in Account
  BY PayConstants, WorthType DEF Signer, Payable
<1>2. NotesOf(<<change>>) = {change}
  BY DEF NotesOf
<1>3. \A n \in S : AssetOf[n] = a
  BY DEF AcceptsToPublic, Postable, Proven
<1>4. 0 + Worth(S) = Worth({change}) + v
  BY <1>2 DEF AcceptsToPublic, Postable, Proven
<1>5. S \subseteq Note /\ Worth(S) <= Worth(Unspent(a))
  BY <1>1, <1>3, SendersAreBacked DEF IInv, NotesInOrder
<1>6. Worth(S) \in Nat /\ Worth({change}) \in Nat /\ Worth(Unspent(a)) \in Nat
  <2>1. Unspent(a) \subseteq Note
    BY DEF IInv, TypeOK, Unspent
  <2> QED BY <1>5, <2>1, WorthType
<1>7. balance[a][Pool] >= Endowment[a][Pool] + Worth(Unspent(a))
  BY <1>1 DEF IInv, PoolBacksNotes
<1>8. /\ balance[a][Pool] \in Nat /\ Endowment[a][Pool] \in Nat /\ MinBalance \in Nat
      /\ Endowment[a][Pool] >= MinBalance
  BY <1>1, PayConstants DEF IInv, TypeOK, Endowed
<1>9. balance[a][Pool] >= v + MinBalance
  <2> HIDE DEF a, S
  <2> QED BY <1>1, <1>4, <1>5, <1>6, <1>7, <1>8
<1>10. balance[a][who] + v >= MinBalance
  BY DEF AcceptsToPublic, SinkValid
<1> QED BY <1>9, <1>10 DEF CanTransfer

(***************************************************************************)
(* If the pallet's account is endowed with the existential deposit of each *)
(* asset, no accepted post to a public account fails when it is paid out,  *)
(* for any notes, amounts and order of calls.                              *)
(***************************************************************************)
THEOREM PayoutsAlwaysSucceed == ASSUME Endowed PROVE Spec => []PayoutsSucceed
<1>1. IInv => PayoutsSucceed
  BY IInvPayoutsSucceed
<1> QED BY <1>1, AlwaysIInv, PTL

-----------------------------------------------------------------------------
(* The ledger implements the private pool *)

\* the notes of a set that are worth something, the only ones the pool knows
Positive(S) == {n \in S : ValueOf[n] > 0}

LEMMA WorthOfPositive == ASSUME NEW S \in SUBSET Note PROVE Worth(Positive(S)) = Worth(S)
<1> DEFINE P == Positive(S)
<1>1. S = P \cup (S \ P) /\ P \cap (S \ P) = {} /\ P \in SUBSET Note
  BY DEF Positive
<1>2. \A n \in S \ P : ValueOf[n] = 0
  <2>1. \A n \in Note : ValueOf[n] \in Nat
    BY PayConstants
  <2> QED BY <2>1 DEF Positive
<1> HIDE DEF P
<1>3. Worth(S) = Worth(P) + Worth(S \ P)
  BY <1>1, WorthOfParts
<1>4. Worth(S \ P) = 0 /\ Worth(P) \in Nat
  BY <1>1, <1>2, WorthOfZeros, WorthType
<1> QED BY <1>3, <1>4 DEF P

LEMMA AbstractWorth == ASSUME NEW S PROVE Abstract!Worth(S) = Worth(S)
BY Zenon DEF Worth, SumOf, Units, Cardinality,
   Abstract!Worth, Abstract!SumOf, Abstract!Units, Abstract!Cardinality

\* Calls that spend S and make R exchange, for the pool, what is worth something of both.
LEMMA PostIsExchange ==
    ASSUME TypeOK, SpentWereThere,
           NEW a \in Asset, NEW S \in SUBSET Note, NEW R \in SUBSET Note,
           \A n \in S \cup R : AssetOf[n] = a,
           \A n \in S : ValueOf[n] > 0 => n \in utxoSet \ nullifiers,
           R \cap utxoSet = {},
           utxoSet' = utxoSet \cup R,
           nullifiers' = nullifiers \cup S
    PROVE  /\ Abstract!Exchange(Positive(S), Positive(R))
           /\ Positive(S) \in SUBSET Abstract!Spendable(a)
           /\ Positive(R) \in SUBSET Abstract!Fresh(a)
<1>1. \A n \in R : ValueOf[n] > 0 => n \notin nullifiers \cup S
  BY DEF SpentWereThere
<1>2. Abstract!Exchange(Positive(S), Positive(R))
  BY <1>1, Zenon DEF Abstract!Exchange, Positive
<1>3. Positive(S) \in SUBSET Abstract!Spendable(a)
  BY DEF Abstract!Spendable, Abstract!NotesIn, Positive
<1>4. Positive(R) \in SUBSET Abstract!Fresh(a)
  BY <1>1 DEF Abstract!Fresh, Abstract!NotesIn, Positive
<1> QED BY <1>2, <1>3, <1>4

\* A public balance moves in the pool as it does in the ledger.
LEMMA TransferredIsMoved ==
    ASSUME NEW a, NEW from, NEW to, NEW v, balance' = Transferred(a, from, to, v)
    PROVE  Abstract!Moved(a, from, to, v)
BY DEF Transferred, Abstract!Moved

LEMMA InitIsPoolInit == Init => Abstract!Init
BY DEF Init, Abstract!Init

LEMMA ToPrivateIsDeposit ==
    ASSUME IInv, NEW who \in Signer, NEW n \in Note, ToPrivate(who, n) PROVE Abstract!Next
<1> DEFINE a == AssetOf[n]
<1>1. a \in Asset /\ ValueOf[n] \in Nat /\ ValueOf[n] > 0 /\ who \in Account
  BY PayConstants DEF ToPrivate, Signer
<1>2. NotesOf(<<n>>) = {n} /\ OneOrTwo(<<n>>)
  BY DEF NotesOf, OneOrTwo
<1>3. n \notin utxoSet
  BY <1>2 DEF ToPrivate, Postable, IsNotRegistered
<1>4. utxoSet' = utxoSet \cup {n}
  BY <1>2, RegisterKeeps DEF IInv, NotesInOrder, ToPrivate, Postable
<1>5. nullifiers' = nullifiers \cup {}
  BY DEF ToPrivate, spent
<1>6. Positive({}) = {} /\ Positive({n}) = {n}
  BY <1>1 DEF Positive
<1>7. Abstract!Exchange({}, {n}) /\ n \in Abstract!Fresh(a)
  <2>1. TypeOK /\ SpentWereThere
    BY DEF IInv, NotesInOrder
  <2>2. \A m \in {} \cup {n} : AssetOf[m] = a
    OBVIOUS
  <2>3. {n} \cap utxoSet = {} /\ {} \in SUBSET Note /\ {n} \in SUBSET Note
    BY <1>3
  <2>4. \A m \in {} : ValueOf[m] > 0 => m \in utxoSet \ nullifiers
    OBVIOUS
  <2> HIDE DEF a
  <2>5. /\ Abstract!Exchange(Positive({}), Positive({n}))
        /\ Positive({n}) \in SUBSET Abstract!Fresh(a)
    BY <1>1, <1>4, <1>5, <2>1, <2>2, <2>3, <2>4, PostIsExchange
  <2> QED BY <1>6, <2>5
<1>8. balance[a][who] >= ValueOf[n]
  <2>1. balance[a][who] >= ValueOf[n] + MinBalance /\ balance[a][who] \in Nat
    BY <1>1 DEF ToPrivate, CanTransfer, IInv, TypeOK
  <2> QED BY <1>1, <2>1, PayConstants
<1>9. Abstract!Moved(a, who, Pool, ValueOf[n])
  BY TransferredIsMoved DEF ToPrivate
<1>10. Abstract!Deposit(a, who, n)
  BY <1>7, <1>8, <1>9 DEF Abstract!Deposit
<1>11. who \in Abstract!Holder
  BY DEF Signer, Abstract!Holder
<1> QED BY <1>1, <1>7, <1>10, <1>11 DEF Abstract!Next

LEMMA ToPublicIsWithdraw ==
    ASSUME IInv, NEW who \in Signer, NEW senders \in ValidSenders,
           NEW change \in Note, NEW v \in Payable, ToPublic(who, senders, change, v)
    PROVE  Abstract!Next
<1> DEFINE a == AssetOf[change]
           S == NotesOf(senders)
           R == {change}
<1>1. a \in Asset /\ v \in Nat /\ v > 0
  BY PayConstants, WorthType DEF Payable, ToPublic, AcceptsToPublic
<1>2. NotesOf(<<change>>) = R /\ OneOrTwo(<<change>>)
  BY DEF NotesOf, OneOrTwo
<1>3. \A n \in S \cup R : AssetOf[n] = a
  BY <1>2 DEF ToPublic, AcceptsToPublic, Postable, Proven
<1>4. 0 + Worth(S) = Worth(R) + v
  BY <1>2 DEF ToPublic, AcceptsToPublic, Postable, Proven
<1>5. PICK m \in Note, n \in Note :
        m # n /\ senders = <<m, n>> /\ IsUnspent(m) /\ IsUnspent(n)
  BY SendersAreBacked, <1>1, <1>3 DEF IInv, NotesInOrder
<1>6. S \in SUBSET Note /\ \A x \in S : ValueOf[x] > 0 => x \in utxoSet \ nullifiers
  BY SendersAreBacked, <1>1, <1>3 DEF IInv, NotesInOrder
<1>7. R \in SUBSET Note /\ R \cap utxoSet = {}
  BY <1>2 DEF ToPublic, AcceptsToPublic, Postable, IsNotRegistered
<1>8. utxoSet' = utxoSet \cup R
  BY <1>2, RegisterKeeps DEF IInv, NotesInOrder, ToPublic, AcceptsToPublic, Postable
<1>9. nullifiers' = nullifiers \cup S
  BY DEF ToPublic, SpendAll
<1>10. balance[a][Pool] >= v
  <2>1. balance[a][Pool] >= v + MinBalance /\ balance[a][Pool] \in Nat
    BY <1>1, PayConstants DEF ToPublic, CanTransfer, IInv, TypeOK
  <2> QED BY <1>1, <2>1, PayConstants
<1>11. Abstract!Moved(a, Pool, who, v)
  BY TransferredIsMoved DEF ToPublic
<1> HIDE DEF a, S, R
<1>12. /\ Abstract!Exchange(Positive(S), Positive(R))
       /\ Positive(S) \in SUBSET Abstract!Spendable(a)
       /\ Positive(R) \in SUBSET Abstract!Fresh(a)
  <2>1. TypeOK /\ SpentWereThere
    BY DEF IInv, NotesInOrder
  <2> QED BY <1>1, <1>3, <1>6, <1>7, <1>8, <1>9, <2>1, PostIsExchange
<1>13. /\ Abstract!Worth(Positive(S)) = Worth(S) /\ Abstract!Worth(Positive(R)) = Worth(R)
       /\ Worth(S) \in Nat /\ Worth(R) \in Nat
  BY <1>6, <1>7, AbstractWorth, WorthOfPositive, WorthType
<1>14. /\ Abstract!Worth(Positive(S)) > Abstract!Worth(Positive(R))
       /\ Abstract!Worth(Positive(S)) - Abstract!Worth(Positive(R)) = v
  BY <1>1, <1>4, <1>13
<1>15. Abstract!Withdraw(a, who, Positive(S), Positive(R))
  BY <1>10, <1>11, <1>12, <1>14 DEF Abstract!Withdraw
<1>16. who \in Abstract!Holder
  BY DEF Signer, Abstract!Holder
<1> QED BY <1>1, <1>12, <1>15, <1>16 DEF Abstract!Next

LEMMA PrivateTransferIsMove ==
    ASSUME IInv, NEW senders \in ValidSenders, NEW receivers \in Pair,
           PrivateTransfer(senders, receivers)
    PROVE  Abstract!Next
<1> DEFINE a == AssetOf[senders[1]]
           S == NotesOf(senders)
           R == NotesOf(receivers)
<1>1. a \in Asset
  <2>1. senders[1] \in Note
    BY DEF ValidSenders, Pair
  <2> QED BY <2>1, PayConstants
<1>2. /\ Postable(a, 0, senders, receivers, 0)
      /\ SpendAll(senders) /\ RegisterAll(receivers) /\ balance' = balance
  BY DEF PrivateTransfer
<1> HIDE DEF a
<1>3. \A n \in S \cup R : AssetOf[n] = a
  BY <1>2 DEF Postable, Proven
<1>4. S \in SUBSET Note /\ \A x \in S : ValueOf[x] > 0 => x \in utxoSet \ nullifiers
  BY SendersAreBacked, <1>1, <1>3 DEF IInv, NotesInOrder
<1>5. OneOrTwo(receivers) /\ R \in SUBSET Note
  <2>1. OneOrTwo(receivers)
    BY <1>2, PairIsOneOrTwo DEF Postable
  <2> QED BY <2>1 DEF OneOrTwo, NotesOf
<1>6. R \cap utxoSet = {}
  BY <1>2 DEF Postable, IsNotRegistered
<1>7. utxoSet' = utxoSet \cup R
  BY <1>2, <1>5, RegisterKeeps DEF IInv, NotesInOrder, Postable
<1>8. nullifiers' = nullifiers \cup S
  BY <1>2 DEF SpendAll
<1>9. 0 + Worth(S) = Worth(R) + 0
  BY <1>2 DEF Postable, Proven
<1> HIDE DEF S, R
<1>10. /\ Abstract!Exchange(Positive(S), Positive(R))
       /\ Positive(S) \in SUBSET Abstract!Spendable(a)
       /\ Positive(R) \in SUBSET Abstract!Fresh(a)
  <2>1. TypeOK /\ SpentWereThere
    BY DEF IInv, NotesInOrder
  <2> QED BY <1>1, <1>3, <1>4, <1>5, <1>6, <1>7, <1>8, <2>1, PostIsExchange
<1>11. Abstract!Worth(Positive(S)) = Abstract!Worth(Positive(R))
  <2>1. Worth(S) \in Nat /\ Worth(R) \in Nat
    BY <1>4, <1>5, WorthType
  <2>2. Worth(S) = Worth(R)
    BY <1>9, <2>1
  <2> QED BY <1>4, <1>5, <2>2, AbstractWorth, WorthOfPositive
<1>12. Abstract!Move(Positive(S), Positive(R))
  BY <1>2, <1>10, <1>11 DEF Abstract!Move
<1> QED BY <1>1, <1>10, <1>12 DEF Abstract!Next

LEMMA PublicTransferIsTransfer ==
    ASSUME NEW a \in Asset, NEW who \in Signer, NEW to \in Account,
           NEW v \in 0 .. balance[a][who], PublicTransfer(a, who, to, v)
    PROVE  Abstract!Next
<1>1. Abstract!Moved(a, who, to, v)
  BY TransferredIsMoved DEF PublicTransfer
<1>2. utxoSet' = utxoSet /\ nullifiers' = nullifiers
  BY DEF PublicTransfer, received, spent
<1>3. Abstract!Transfer(a, who, to, v)
  BY <1>1, <1>2 DEF Abstract!Transfer
<1>4. who \in Abstract!Holder
  BY DEF Signer, Abstract!Holder
<1> QED BY <1>3, <1>4 DEF Abstract!Next

(***************************************************************************)
(* Whatever the shards, their capacity, the order of insertion and the     *)
(* roots do, holders see notes made once, spent at most once and only when *)
(* they are there, and value that is neither made nor lost: each call of   *)
(* the ledger is the step of the private pool it is named after.           *)
(***************************************************************************)
THEOREM LedgerImplementsPool == Spec => ImplementsPool
<1>1. Init => Abstract!Init
  BY InitIsPoolInit
<1>2. IInv /\ [Next]_ledger => [Abstract!Next]_Abstract!vars
  <2> SUFFICES ASSUME IInv, [Next]_ledger PROVE [Abstract!Next]_Abstract!vars
    OBVIOUS
  <2>1. ASSUME NEW who \in Signer, NEW n \in Note, ToPrivate(who, n) PROVE Abstract!Next
    BY <2>1, ToPrivateIsDeposit
  <2>2. ASSUME NEW senders \in ValidSenders, NEW who \in Signer, NEW change \in Note,
               NEW v \in Payable, ToPublic(who, senders, change, v)
        PROVE  Abstract!Next
    BY <2>2, ToPublicIsWithdraw
  <2>3. ASSUME NEW senders \in ValidSenders, NEW receivers \in Pair,
               PrivateTransfer(senders, receivers)
        PROVE  Abstract!Next
    BY <2>3, PrivateTransferIsMove
  <2>4. ASSUME NEW a \in Asset, NEW who \in Signer, NEW to \in Account,
               NEW v \in 0 .. balance[a][who], PublicTransfer(a, who, to, v)
        PROVE  Abstract!Next
    BY <2>4, PublicTransferIsTransfer
  <2>5. CASE UNCHANGED ledger
    BY <2>5 DEF ledger, received, spent, Abstract!vars
  <2> QED BY <2>1, <2>2, <2>3, <2>4, <2>5 DEF Next
<1> QED BY <1>1, <1>2, AlwaysIInv, PTL DEF Spec, ImplementsPool, Abstract!Spec

-----------------------------------------------------------------------------
(* The ledger only grows, at the ends of its shards and of its list of nullifiers *)

Grows ==
    /\ \A s \in Shard : Leaves(trees[s]) <= Leaves(trees'[s])
    /\ \A s \in Shard : \A i \in 0 .. Leaves(trees[s]) - 1 : shards'[<<s, i>>] = shards[<<s, i>>]
    /\ spentSize <= spentSize'
    /\ \A i \in 0 .. spentSize - 1 : spentOrder'[i] = spentOrder[i]

LEMMA LeavesInNat ==
    ASSUME TypeOK, NEW s \in Shard PROVE Leaves(trees[s]) \in Nat /\ Leaves(trees[s]) <= Capacity
BY PayConstants DEF TypeOK, Tree, Leaves

\* The leaves of a shard are there, from the first to the last.
LEMMA LeafIsThere ==
    ASSUME TypeOK, ShardsHoldUtxos, NEW s \in Shard, NEW i \in Nat
    PROVE  <<s, i>> \in DOMAIN shards <=> i < Leaves(trees[s])
<1>1. Leaves(trees[s]) \in Nat /\ Leaves(trees[s]) <= Capacity /\ Capacity \in Nat
  BY LeavesInNat, PayConstants
<1>2. i < Leaves(trees[s]) => <<s, i>> \in Slot
  BY <1>1 DEF Slot
<1> QED BY <1>2 DEF ShardsHoldUtxos

\* register_all adds leaves behind those that are there.
LEMMA RegisterGrows ==
    ASSUME TypeOK, ShardsHoldUtxos, NEW ns, OneOrTwo(ns),
           \A n \in NotesOf(ns) : IsNotRegistered(n), RegisterAll(ns)
    PROVE  /\ \A s \in Shard : Leaves(trees[s]) <= Leaves(trees'[s])
           /\ \A s \in Shard : \A i \in 0 .. Leaves(trees[s]) - 1 :
                shards'[<<s, i>>] = shards[<<s, i>>]
<1> DEFINE w == Written(ns)
<1>1. ForestOK(w) /\ Extends(w, Now)
  BY WrittenFacts
<1>2. trees' = w.trees /\ shards' = w.shards /\ Now.shards = shards
  BY DEF RegisterAll, Now
<1> HIDE DEF w
<1>3. ASSUME NEW s \in Shard, NEW i \in 0 .. Leaves(trees[s]) - 1
      PROVE  <<s, i>> \in DOMAIN shards /\ shards'[<<s, i>>] = shards[<<s, i>>]
  <2>1. Leaves(trees[s]) \in Nat
    BY LeavesInNat
  <2>2. i \in Nat /\ i < Leaves(trees[s])
    BY <2>1
  <2>3. <<s, i>> \in DOMAIN shards
    BY <2>2, LeafIsThere
  <2> QED BY <1>1, <1>2, <2>3 DEF Extends
<1>4. ASSUME NEW s \in Shard PROVE Leaves(trees[s]) <= Leaves(trees'[s])
  <2> DEFINE old == Leaves(trees[s])
             new == Leaves(w.trees[s])
  <2>1. old \in Nat /\ new \in Nat
    BY <1>1, LeavesInNat DEF ForestOK, Leaves
  <2>2. ASSUME old > 0 PROVE old - 1 < new
    <3>1. old - 1 \in 0 .. old - 1
      BY <2>1, <2>2
    <3>2. <<s, old - 1>> \in DOMAIN shards
      BY <1>3, <3>1
    <3>3. <<s, old - 1>> \in DOMAIN w.shards
      BY <1>1, <1>2, <3>2 DEF Extends
    <3> HIDE DEF old, new
    <3>4. DOMAIN w.shards = {k \in Shard \X Nat : k[2] < Leaves(w.trees[k[1]])}
      BY <1>1 DEF ForestOK
    <3> QED BY <3>3, <3>4 DEF new
  <2> HIDE DEF old, new
  <2>3. old <= new
    BY <2>1, <2>2
  <2> QED BY <1>2, <2>3 DEF old, new
<1> QED BY <1>3, <1>4

\* spend_all adds nullifiers behind those that are there.
LEMMA SpendGrows ==
    ASSUME TypeOK, SpentIsInOrder, NEW ns, Len(ns) \in Nat, SpendAll(ns)
    PROVE  /\ spentSize <= spentSize'
           /\ \A i \in 0 .. spentSize - 1 : spentOrder'[i] = spentOrder[i]
<1>1. spentSize \in Nat /\ DOMAIN spentOrder = 0 .. spentSize - 1
  BY DEF TypeOK, SpentIsInOrder
<1> QED BY <1>1 DEF SpendAll, OrderFrom

\* No call of the pallet takes a leaf or a nullifier away, or puts one before another.
LEMMA StepGrows ==
    ASSUME IInv, [Next]_ledger PROVE Grows
<1>1. TypeOK /\ ShardsHoldUtxos /\ SpentIsInOrder
  BY DEF IInv, NotesInOrder
<1>2. spentSize \in Nat /\ \A s \in Shard : Leaves(trees[s]) \in Nat
  BY <1>1, LeavesInNat DEF TypeOK
<1>3. ASSUME UNCHANGED spent
      PROVE  /\ spentSize <= spentSize'
             /\ \A i \in 0 .. spentSize - 1 : spentOrder'[i] = spentOrder[i]
  BY <1>2, <1>3 DEF spent
<1>4. ASSUME UNCHANGED <<received, spent>> PROVE Grows
  BY <1>2, <1>4 DEF Grows, received, spent
<1>5. ASSUME NEW who \in Signer, NEW n \in Note, ToPrivate(who, n) PROVE Grows
  <2>1. /\ \A m \in NotesOf(<<n>>) : IsNotRegistered(m)
        /\ RegisterAll(<<n>>) /\ UNCHANGED spent
    BY <1>5 DEF ToPrivate, Postable
  <2>2. OneOrTwo(<<n>>)
    BY DEF OneOrTwo
  <2> QED BY <1>1, <1>3, <2>1, <2>2, RegisterGrows DEF Grows
<1>6. ASSUME NEW senders \in ValidSenders, NEW who \in Signer, NEW change \in Note,
             NEW v \in Payable, ToPublic(who, senders, change, v)
      PROVE  Grows
  <2>1. /\ \A m \in NotesOf(<<change>>) : IsNotRegistered(m)
        /\ RegisterAll(<<change>>) /\ SpendAll(senders)
    BY <1>6 DEF ToPublic, AcceptsToPublic, Postable
  <2>2. OneOrTwo(<<change>>)
    BY DEF OneOrTwo
  <2>3. Len(senders) \in Nat
    BY DEF ValidSenders, Pair
  <2> QED BY <1>1, <2>1, <2>2, <2>3, RegisterGrows, SpendGrows DEF Grows
<1>7. ASSUME NEW senders \in ValidSenders, NEW receivers \in Pair,
             PrivateTransfer(senders, receivers)
      PROVE  Grows
  <2>1. /\ \A m \in NotesOf(receivers) : IsNotRegistered(m)
        /\ RegisterAll(receivers) /\ SpendAll(senders) /\ Distinct(receivers)
    BY <1>7 DEF PrivateTransfer, Postable
  <2>2. OneOrTwo(receivers)
    BY <2>1, PairIsOneOrTwo
  <2>3. Len(senders) \in Nat
    BY DEF ValidSenders, Pair
  <2> QED BY <1>1, <2>1, <2>2, <2>3, RegisterGrows, SpendGrows DEF Grows
<1>8. ASSUME NEW a \in Asset, NEW who \in Signer, NEW to \in Account, NEW v,
             PublicTransfer(a, who, to, v)
      PROVE  Grows
  BY <1>4, <1>8 DEF PublicTransfer
<1>9. CASE UNCHANGED ledger
  BY <1>4, <1>9 DEF ledger
<1> QED BY <1>5, <1>6, <1>7, <1>8, <1>9 DEF Next

-----------------------------------------------------------------------------
(* Pages *)

\* A page takes entries up to its limit or to the last there is, and says that more follow
\* if and only if it stopped before the last.
LEMMA TakenFacts ==
    ASSUME NEW present, NEW len \in Nat, \A i \in Nat : i \in present <=> i < len,
           NEW from \in Nat, from <= len, NEW room \in Nat
    PROVE  LET k == Taken(present, from, room) IN
           /\ k \in Nat /\ from + k <= len
           /\ MoreAfter(present, from, room, k) <=> from + k < len
<1> DEFINE k == Taken(present, from, room)
           Right(j) == /\ \A i \in 0 .. j - 1 : from + i \in present
                       /\ j = room \/ from + j \notin present
           most == IF len - from < room THEN len - from ELSE room
<1>1. most \in 0 .. room /\ Right(most)
  <2>1. \A i \in 0 .. most - 1 : from + i \in Nat /\ from + i < len
    OBVIOUS
  <2>2. most = room \/ (from + most \in Nat /\ ~(from + most < len))
    OBVIOUS
  <2>3. most \in 0 .. room
    OBVIOUS
  <2> HIDE DEF most
  <2> QED BY <2>1, <2>2, <2>3
<1>2. k \in 0 .. room /\ Right(k)
  <2>1. k = CHOOSE j \in 0 .. room : Right(j)
    BY DEF Taken
  <2> HIDE DEF k, Right, most
  <2> QED BY <1>1, <2>1
<1> HIDE DEF k
<1>3. k \in Nat /\ from + k \in Nat
  BY <1>2
<1>4. from + k <= len
  <2>1. CASE k = 0
    BY <2>1
  <2>2. CASE k > 0
    <3>1. k - 1 \in 0 .. k - 1 /\ from + (k - 1) \in Nat
      BY <1>3, <2>2
    <3>2. from + (k - 1) < len
      BY <1>2, <3>1
    <3> QED BY <1>3, <3>2
  <2> QED BY <1>3, <2>1, <2>2
<1>5. MoreAfter(present, from, room, k) <=> from + k < len
  BY <1>2, <1>3 DEF MoreAfter
<1> QED BY <1>3, <1>4, <1>5 DEF k

-----------------------------------------------------------------------------
(* A wallet that pulls *)

\* a sequence that agrees with what the ledger has in a shard, from an index on
Continues(ns, s, from) ==
    /\ from + Len(ns) <= Leaves(trees[s])
    /\ \A i \in 1 .. Len(ns) : ns[i] = shards[<<s, from + i - 1>>]

\* and one that agrees with its list of nullifiers
SpentContinues(ns, from) ==
    /\ from + Len(ns) <= spentSize
    /\ \A i \in 1 .. Len(ns) : ns[i] = spentOrder[from + i - 1]

\* A page on its way, however old, continues what its wallet has.
PageFits(page) ==
    /\ page.receivers \in [Shard -> Seq(Note)] /\ page.senders \in Seq(Note)
    /\ \A s \in Shard : Continues(page.receivers[s], s, Len(pulled[s]))
    /\ SpentContinues(page.senders, Len(pulledSpent))

WalletOK ==
    /\ pulled \in [Shard -> Seq(Note)] /\ pulledSpent \in Seq(Note)
    /\ \A s \in Shard : Continues(pulled[s], s, 0)
    /\ SpentContinues(pulledSpent, 0)
    /\ \A page \in answer : PageFits(page)

SyncInv == IInv /\ WalletOK

LEMMA WalletBeginnings == ASSUME WalletOK PROVE PullsAreBeginnings
<1>1. \A s \in Shard : pulled[s] \in Seq(Note)
  BY DEF WalletOK
<1>2. ASSUME NEW s \in Shard
      PROVE  /\ Len(pulled[s]) <= Leaves(trees[s])
             /\ \A i \in DOMAIN pulled[s] : pulled[s][i] = shards[<<s, i - 1>>]
  <2>1. Continues(pulled[s], s, 0) /\ Len(pulled[s]) \in Nat
        /\ DOMAIN pulled[s] = 1 .. Len(pulled[s])
    BY <1>1 DEF WalletOK
  <2>2. \A i \in 1 .. Len(pulled[s]) : 0 + i - 1 = i - 1
    BY <2>1
  <2>3. 0 + Len(pulled[s]) = Len(pulled[s])
    BY <2>1
  <2> QED BY <2>1, <2>2, <2>3 DEF Continues
<1>3. /\ Len(pulledSpent) <= spentSize
      /\ \A i \in DOMAIN pulledSpent : pulledSpent[i] = spentOrder[i - 1]
  <2>1. SpentContinues(pulledSpent, 0) /\ Len(pulledSpent) \in Nat
        /\ DOMAIN pulledSpent = 1 .. Len(pulledSpent)
    BY DEF WalletOK
  <2>2. \A i \in 1 .. Len(pulledSpent) : 0 + i - 1 = i - 1
    BY <2>1
  <2>3. 0 + Len(pulledSpent) = Len(pulledSpent)
    BY <2>1
  <2> QED BY <2>1, <2>2, <2>3 DEF SpentContinues
<1> QED BY <1>2, <1>3 DEF PullsAreBeginnings

\* What agrees with the ledger agrees with it for ever.
LEMMA ContinuesStays ==
    ASSUME Grows, TypeOK, NEW ns \in Seq(Note), NEW s \in Shard, NEW from \in Nat,
           Continues(ns, s, from), TypeOK'
    PROVE  Continues(ns, s, from)'
<1> DEFINE old == Leaves(trees[s])
           new == Leaves(trees'[s])
<1>1. old \in Nat
  BY LeavesInNat
<1>2. new \in Nat
  BY PayConstants DEF TypeOK, Tree, Leaves
<1>3. old <= new /\ Len(ns) \in Nat /\ from + Len(ns) <= old
  BY DEF Grows, Continues
<1> HIDE DEF old, new
<1>4. from + Len(ns) <= new
  BY <1>1, <1>2, <1>3
<1>5. ASSUME NEW i \in 1 .. Len(ns) PROVE ns[i] = shards'[<<s, from + i - 1>>]
  <2>1. from + i - 1 \in 0 .. old - 1
    BY <1>1, <1>3
  <2>2. ns[i] = shards[<<s, from + i - 1>>]
    BY DEF Continues
  <2>3. shards'[<<s, from + i - 1>>] = shards[<<s, from + i - 1>>]
    BY <2>1 DEF Grows, old
  <2> QED BY <2>2, <2>3
<1> QED BY <1>4, <1>5 DEF Continues, Leaves, new

LEMMA SpentContinuesStays ==
    ASSUME Grows, TypeOK, NEW ns \in Seq(Note), NEW from \in Nat,
           SpentContinues(ns, from), TypeOK'
    PROVE  SpentContinues(ns, from)'
<1>1. spentSize \in Nat /\ spentSize' \in Nat /\ spentSize <= spentSize'
      /\ Len(ns) \in Nat /\ from + Len(ns) <= spentSize
  BY DEF TypeOK, Grows, SpentContinues
<1>2. ASSUME NEW i \in 1 .. Len(ns) PROVE ns[i] = spentOrder'[from + i - 1]
  <2>1. from + i - 1 \in 0 .. spentSize - 1
    BY <1>1
  <2> QED BY <2>1 DEF Grows, SpentContinues
<1> QED BY <1>1, <1>2 DEF SpentContinues

\* The calls of the pallet leave a wallet with what it pulled and a page with its place.
LEMMA LedgerKeepsWallet ==
    ASSUME SyncInv, Grows, IInv', UNCHANGED wallet PROVE WalletOK'
<1>1. TypeOK /\ TypeOK'
  BY DEF SyncInv, IInv
<1>2. pulled' = pulled /\ pulledSpent' = pulledSpent /\ answer' = answer
  BY DEF wallet
<1>3. \A s \in Shard : pulled[s] \in Seq(Note) /\ Len(pulled[s]) \in Nat
  BY DEF SyncInv, WalletOK
<1>4. ASSUME NEW s \in Shard PROVE Continues(pulled[s], s, 0)'
  <2>1. Continues(pulled[s], s, 0)
    BY DEF SyncInv, WalletOK
  <2>2. 0 \in Nat
    OBVIOUS
  <2> DEFINE ns == pulled[s]
  <2>3. ns \in Seq(Note) /\ pulled'[s] = ns
    BY <1>2, <1>3
  <2> HIDE DEF ns
  <2>4. \A m \in Seq(Note) : m = ns => Continues(m, s, 0)'
    <3>1. ASSUME NEW m \in Seq(Note), m = ns PROVE Continues(m, s, 0)'
      <4>1. Continues(m, s, 0)
        BY <2>1, <3>1 DEF ns
      <4> QED BY <1>1, <2>2, <4>1, ContinuesStays
    <3> QED BY <3>1
  <2> QED BY <2>3, <2>4 DEF Continues
<1>5. SpentContinues(pulledSpent, 0)'
  <2>1. SpentContinues(pulledSpent, 0) /\ pulledSpent \in Seq(Note) /\ 0 \in Nat
    BY DEF SyncInv, WalletOK
  <2>2. ASSUME NEW m \in Seq(Note), m = pulledSpent PROVE SpentContinues(m, 0)'
    <3>1. SpentContinues(m, 0)
      BY <2>1, <2>2
    <3> QED BY <1>1, <2>1, <3>1, SpentContinuesStays
  <2> QED BY <1>2, <2>1, <2>2 DEF SpentContinues
<1>6. ASSUME NEW page \in answer' PROVE PageFits(page)'
  <2>1. PageFits(page)
    BY <1>2, <1>6 DEF SyncInv, WalletOK
  <2>2. page.receivers \in [Shard -> Seq(Note)] /\ page.senders \in Seq(Note)
    BY <2>1 DEF PageFits
  <2>3. ASSUME NEW s \in Shard PROVE Continues(page.receivers[s], s, Len(pulled[s]))'
    <3>1. ASSUME NEW m \in Seq(Note), m = page.receivers[s], NEW from \in Nat, from = Len(pulled[s])
          PROVE  Continues(m, s, from)'
      <4>1. Continues(m, s, from)
        BY <2>1, <3>1 DEF PageFits
      <4> QED BY <1>1, <4>1, ContinuesStays
    <3>2. page.receivers[s] \in Seq(Note) /\ Len(pulled[s]) \in Nat /\ pulled'[s] = pulled[s]
      BY <1>2, <1>3, <2>2
    <3> QED BY <3>1, <3>2 DEF Continues
  <2>4. SpentContinues(page.senders, Len(pulledSpent))'
    <3>1. ASSUME NEW m \in Seq(Note), m = page.senders, NEW from \in Nat, from = Len(pulledSpent)
          PROVE  SpentContinues(m, from)'
      <4>1. SpentContinues(m, from)
        BY <2>1, <3>1 DEF PageFits
      <4> QED BY <1>1, <4>1, SpentContinuesStays
    <3>2. Len(pulledSpent) \in Nat
      BY DEF SyncInv, WalletOK
    <3> QED BY <1>2, <2>2, <3>1, <3>2 DEF SpentContinues
  <2> QED BY <2>2, <2>3, <2>4 DEF PageFits
<1> QED BY <1>2, <1>3, <1>4, <1>5, <1>6 DEF WalletOK, SyncInv

\* What a page brings of a shard continues what was asked for, and it says that more
\* follows if and only if some leaf of the shard does.
LEMMA ReceiversContinue ==
    ASSUME TypeOK, ShardsHoldUtxos, NEW s \in Shard, NEW from, from[s] \in Nat,
           from[s] <= Leaves(trees[s])
    PROVE  LET ns == ReceiversOf(from, s) IN
           /\ ns \in Seq(Note) /\ Len(ns) \in Nat /\ Continues(ns, s, from[s])
           /\ MoreAfter(LeavesOf(s), from[s], Room(from, s), Len(ns))
                <=> from[s] + Len(ns) < Leaves(trees[s])
<1> DEFINE len == Leaves(trees[s])
           room == Room(from, s)
           k == Taken(LeavesOf(s), from[s], room)
           ns == [i \in 1 .. k |-> shards[<<s, from[s] + i - 1>>]]
<1>1. len \in Nat
  BY LeavesInNat
<1>2. \A i \in Nat : i \in LeavesOf(s) <=> i < len
  <2>1. \A i : i \in LeavesOf(s) <=> <<s, i>> \in DOMAIN shards
    <3>1. DOMAIN shards \subseteq Shard \X (0 .. Capacity - 1)
      BY DEF TypeOK, IsStorageMap, Slot
    <3>2. \A q \in DOMAIN shards : q = <<q[1], q[2]>>
      BY <3>1
    <3> QED BY <3>2 DEF LeavesOf
  <2> QED BY <2>1, LeafIsThere
<1>3. room \in Nat
  <2>1. MaxReceivers \in Nat
    BY PageConstants
  <2> QED BY <2>1, SubInNat DEF Room
<1> DEFINE present == LeavesOf(s)
           f == from[s]
<1>4. k \in Nat /\ f + k <= len /\ (MoreAfter(present, f, room, k) <=> f + k < len)
  <2> HIDE DEF present, f, room, len
  <2>1. f \in Nat /\ f <= len /\ \A i \in Nat : i \in present <=> i < len
    BY <1>2 DEF f, len, present
  <2> QED BY <1>1, <1>3, <2>1, TakenFacts DEF present, f
<1>5. ASSUME NEW i \in 1 .. k PROVE shards[<<s, f + i - 1>>] \in Note
  <2>1. f + i - 1 \in Nat /\ f + i - 1 < len
    BY <1>1, <1>4
  <2>2. <<s, f + i - 1>> \in DOMAIN shards
    BY <2>1, LeafIsThere
  <2> QED BY <2>2 DEF TypeOK, IsStorageMap
<1> HIDE DEF k, f, room
<1>6. ns \in Seq(Note) /\ Len(ns) = k
  BY <1>4, <1>5 DEF f
<1>7. ReceiversOf(from, s) = ns
  BY DEF ReceiversOf, k, room
<1>8. Continues(ns, s, f)
  BY <1>4, <1>6 DEF Continues, f
<1> QED BY <1>4, <1>6, <1>7, <1>8 DEF f, room

\* The same of the nullifiers.
LEMMA SendersContinue ==
    ASSUME TypeOK, SpentIsInOrder, NEW from \in Nat, from <= spentSize
    PROVE  /\ Senders(from).notes \in Seq(Note) /\ Len(Senders(from).notes) \in Nat
           /\ SpentContinues(Senders(from).notes, from)
           /\ Senders(from).more <=> from + Len(Senders(from).notes) < spentSize
<1> DEFINE present == DOMAIN spentOrder
           k == Taken(present, from, MaxSenders)
           ns == [i \in 1 .. k |-> spentOrder[from + i - 1]]
<1>1. spentSize \in Nat /\ \A i \in Nat : i \in present <=> i < spentSize
  BY DEF TypeOK, SpentIsInOrder
<1>2. MaxSenders \in Nat
  BY PageConstants
<1>3. /\ k \in Nat /\ from + k <= spentSize
      /\ MoreAfter(present, from, MaxSenders, k) <=> from + k < spentSize
  <2> HIDE DEF present
  <2> QED BY <1>1, <1>2, TakenFacts
<1> HIDE DEF k
<1>4. ASSUME NEW i \in 1 .. k PROVE spentOrder[from + i - 1] \in Note
  <2>1. from + i - 1 \in 0 .. spentSize - 1
    BY <1>1, <1>3
  <2> QED BY <2>1 DEF TypeOK, IsStorageMap, SpentIsInOrder
<1>5. ns \in Seq(Note) /\ Len(ns) = k
  BY <1>3, <1>4
<1>6. Senders(from).notes = ns /\ Senders(from).more = MoreAfter(present, from, MaxSenders, k)
  BY DEF Senders, k
<1>7. SpentContinues(ns, from)
  BY <1>3, <1>5 DEF SpentContinues
<1> QED BY <1>3, <1>5, <1>6, <1>7

\* Where a wallet asks from is a place in the ledger.
LEMMA CheckpointInLedger ==
    ASSUME SyncInv
    PROVE  /\ \A s \in Shard : /\ Checkpoint.receivers[s] = Len(pulled[s])
                               /\ Len(pulled[s]) \in Nat /\ Len(pulled[s]) <= Leaves(trees[s])
           /\ Checkpoint.senders = Len(pulledSpent)
           /\ Len(pulledSpent) \in Nat /\ Len(pulledSpent) <= spentSize
<1>1. WalletOK /\ PullsAreBeginnings
  BY WalletBeginnings DEF SyncInv
<1> QED BY <1>1 DEF WalletOK, PullsAreBeginnings, Checkpoint

\* A page the node answers fits the wallet that asked.
LEMMA PullKeepsWallet == ASSUME SyncInv, Pull PROVE SyncInv'
<1>1. TypeOK /\ ShardsHoldUtxos /\ SpentIsInOrder
  BY DEF SyncInv, IInv, NotesInOrder
<1> DEFINE at == Checkpoint
           page == LedgerDiff(Checkpoint)
<1>2. /\ \A s \in Shard : at.receivers[s] = Len(pulled[s])
                          /\ Len(pulled[s]) \in Nat /\ Len(pulled[s]) <= Leaves(trees[s])
      /\ at.senders = Len(pulledSpent)
      /\ Len(pulledSpent) \in Nat /\ Len(pulledSpent) <= spentSize
  BY CheckpointInLedger
<1>3. /\ page.receivers = [s \in Shard |-> ReceiversOf(at.receivers, s)]
      /\ page.senders = Senders(at.senders).notes
  BY DEF LedgerDiff, Receivers
<1> HIDE DEF at, page
<1>4. ASSUME NEW s \in Shard
      PROVE  ReceiversOf(at.receivers, s) \in Seq(Note)
             /\ Continues(ReceiversOf(at.receivers, s), s, Len(pulled[s]))
  <2> DEFINE from == at.receivers
  <2>1. from[s] = Len(pulled[s]) /\ from[s] \in Nat /\ from[s] <= Leaves(trees[s])
    BY <1>2
  <2> HIDE DEF from
  <2>2. ReceiversOf(from, s) \in Seq(Note) /\ Continues(ReceiversOf(from, s), s, from[s])
    BY <1>1, <2>1, ReceiversContinue
  <2> QED BY <2>1, <2>2 DEF from
<1>5. page.senders \in Seq(Note) /\ SpentContinues(page.senders, Len(pulledSpent))
  BY <1>1, <1>2, <1>3, SendersContinue
<1>6. PageFits(page)
  <2>1. page.receivers \in [Shard -> Seq(Note)]
    BY <1>3, <1>4
  <2>2. \A s \in Shard : Continues(page.receivers[s], s, Len(pulled[s]))
    BY <1>3, <1>4
  <2> QED BY <1>5, <2>1, <2>2 DEF PageFits
<1>7. answer' = {page} /\ UNCHANGED <<ledger, pulled, pulledSpent>>
  BY DEF Pull, page
<1>8. IInv'
  BY <1>7, NextIInv DEF SyncInv
<1>9. \A s : Leaves(trees[s])' = Leaves(trees[s])
  BY <1>7 DEF ledger, received, Leaves
<1>10. UNCHANGED <<trees, shards, spentOrder, spentSize, pulled, pulledSpent>>
  BY <1>7 DEF ledger, received, spent
<1>11. WalletOK'
  <2>1. \A m \in answer' : m = page
    BY <1>7
  <2>2. \A m, s, f : Continues(m, s, f)' <=> Continues(m, s, f)
    BY <1>10 DEF Continues, Leaves
  <2>3. \A m, f : SpentContinues(m, f)' <=> SpentContinues(m, f)
    BY <1>10 DEF SpentContinues
  <2>4. ASSUME NEW m, PageFits(m) PROVE PageFits(m)'
    BY <1>10, <2>2, <2>3, <2>4 DEF PageFits
  <2>5. \A m \in answer' : PageFits(m)'
    BY <1>6, <2>1, <2>4
  <2>6. \A s \in Shard : Continues(pulled[s], s, 0)'
    BY <1>10, <2>2 DEF SyncInv, WalletOK
  <2>7. SpentContinues(pulledSpent, 0)'
    BY <1>10, <2>3 DEF SyncInv, WalletOK
  <2> QED BY <1>10, <2>5, <2>6, <2>7 DEF SyncInv, WalletOK
<1> QED BY <1>8, <1>11 DEF SyncInv

\* What continues a beginning makes a longer one with it.
LEMMA ContinuesOn ==
    ASSUME TypeOK, NEW s \in Shard, NEW a \in Seq(Note), NEW b \in Seq(Note),
           Continues(a, s, 0), Continues(b, s, Len(a))
    PROVE  a \o b \in Seq(Note) /\ Continues(a \o b, s, 0)
<1>1. Len(a) \in Nat /\ Len(b) \in Nat /\ Len(a \o b) = Len(a) + Len(b) /\ a \o b \in Seq(Note)
  OBVIOUS
<1>2. ASSUME NEW i \in 1 .. Len(a \o b) PROVE (a \o b)[i] = shards[<<s, 0 + i - 1>>]
  <2>1. CASE i <= Len(a)
    <3>1. i \in 1 .. Len(a) /\ (a \o b)[i] = a[i]
      BY <1>1, <2>1
    <3> QED BY <3>1 DEF Continues
  <2>2. CASE i > Len(a)
    <3>1. i - Len(a) \in 1 .. Len(b) /\ (a \o b)[i] = b[i - Len(a)]
      BY <1>1, <2>2
    <3>2. Len(a) + (i - Len(a)) - 1 = 0 + i - 1
      BY <1>1
    <3> QED BY <3>1, <3>2 DEF Continues
  <2> QED BY <1>1, <2>1, <2>2
<1>3. 0 + Len(a \o b) <= Leaves(trees[s])
  BY <1>1, LeavesInNat DEF Continues
<1> QED BY <1>1, <1>2, <1>3 DEF Continues

LEMMA SpentContinuesOn ==
    ASSUME TypeOK, NEW a \in Seq(Note), NEW b \in Seq(Note),
           SpentContinues(a, 0), SpentContinues(b, Len(a))
    PROVE  a \o b \in Seq(Note) /\ SpentContinues(a \o b, 0)
<1>1. Len(a) \in Nat /\ Len(b) \in Nat /\ Len(a \o b) = Len(a) + Len(b) /\ a \o b \in Seq(Note)
  OBVIOUS
<1>2. ASSUME NEW i \in 1 .. Len(a \o b) PROVE (a \o b)[i] = spentOrder[0 + i - 1]
  <2>1. CASE i <= Len(a)
    <3>1. i \in 1 .. Len(a) /\ (a \o b)[i] = a[i]
      BY <1>1, <2>1
    <3> QED BY <3>1 DEF SpentContinues
  <2>2. CASE i > Len(a)
    <3>1. i - Len(a) \in 1 .. Len(b) /\ (a \o b)[i] = b[i - Len(a)]
      BY <1>1, <2>2
    <3>2. Len(a) + (i - Len(a)) - 1 = 0 + i - 1
      BY <1>1
    <3> QED BY <3>1, <3>2 DEF SpentContinues
  <2> QED BY <1>1, <2>1, <2>2
<1>3. 0 + Len(a \o b) <= spentSize
  BY <1>1 DEF SpentContinues, TypeOK
<1> QED BY <1>1, <1>2, <1>3 DEF SpentContinues

\* A wallet that takes up a page has a longer beginning.
LEMMA ReceiveKeepsWallet == ASSUME SyncInv, Receive PROVE SyncInv'
<1>1. PICK page \in answer :
        /\ pulled' = [s \in Shard |-> pulled[s] \o page.receivers[s]]
        /\ pulledSpent' = pulledSpent \o page.senders
        /\ answer' = {}
        /\ UNCHANGED ledger
  BY DEF Receive
<1>2. PageFits(page) /\ TypeOK
  BY DEF SyncInv, WalletOK, IInv
<1>3. UNCHANGED <<trees, shards, spentOrder, spentSize>>
  BY <1>1 DEF ledger, received, spent
<1>4. IInv'
  BY <1>1, NextIInv DEF SyncInv
<1>5. ASSUME NEW s \in Shard
      PROVE  /\ pulled[s] \o page.receivers[s] \in Seq(Note)
             /\ Continues(pulled[s] \o page.receivers[s], s, 0)
  <2>1. /\ pulled[s] \in Seq(Note) /\ page.receivers[s] \in Seq(Note)
        /\ Continues(pulled[s], s, 0) /\ Continues(page.receivers[s], s, Len(pulled[s]))
    BY <1>2 DEF SyncInv, WalletOK, PageFits
  <2> QED BY <1>2, <2>1, ContinuesOn
<1>6. pulledSpent \o page.senders \in Seq(Note) /\ SpentContinues(pulledSpent \o page.senders, 0)
  <2>1. /\ pulledSpent \in Seq(Note) /\ page.senders \in Seq(Note)
        /\ SpentContinues(pulledSpent, 0) /\ SpentContinues(page.senders, Len(pulledSpent))
    BY <1>2 DEF SyncInv, WalletOK, PageFits
  <2> QED BY <1>2, <2>1, SpentContinuesOn
<1>7. \A m, s : Continues(m, s, 0)' <=> Continues(m, s, 0)
  BY <1>3 DEF Continues, Leaves
<1>8. \A m : SpentContinues(m, 0)' <=> SpentContinues(m, 0)
  BY <1>3 DEF SpentContinues
<1>9. pulled' \in [Shard -> Seq(Note)] /\ \A s \in Shard : Continues(pulled[s], s, 0)'
  <2>1. \A s \in Shard : pulled'[s] = pulled[s] \o page.receivers[s]
    BY <1>1
  <2>2. pulled' \in [Shard -> Seq(Note)]
    BY <1>1, <1>5
  <2>3. ASSUME NEW s \in Shard PROVE Continues(pulled[s], s, 0)'
    <3>1. Continues(pulled[s] \o page.receivers[s], s, 0)
      BY <1>5
    <3> QED BY <1>3, <2>1, <3>1 DEF Continues, Leaves
  <2> QED BY <2>2, <2>3
<1>10. pulledSpent' \in Seq(Note) /\ SpentContinues(pulledSpent, 0)'
  BY <1>1, <1>3, <1>6 DEF SpentContinues
<1>11. \A m \in answer' : PageFits(m)'
  BY <1>1
<1> QED BY <1>4, <1>9, <1>10, <1>11 DEF SyncInv, WalletOK

\* A page that is lost, or nothing at all, changes nothing of what was pulled.
LEMMA LostKeepsWallet ==
    ASSUME SyncInv, UNCHANGED <<ledger, pulled, pulledSpent>>, answer' \subseteq answer
    PROVE  SyncInv'
<1>1. UNCHANGED <<trees, shards, spentOrder, spentSize, pulled, pulledSpent>>
  BY DEF ledger, received, spent
<1>2. IInv'
  BY NextIInv DEF SyncInv
<1>3. ASSUME NEW m, PageFits(m) PROVE PageFits(m)'
  BY <1>1, <1>3 DEF PageFits, Continues, SpentContinues, Leaves
<1>4. \A m \in answer' : PageFits(m)'
  BY <1>3 DEF SyncInv, WalletOK
<1>5. /\ \A s \in Shard : Continues(pulled[s], s, 0)'
      /\ SpentContinues(pulledSpent, 0)'
  BY <1>1 DEF SyncInv, WalletOK, Continues, SpentContinues, Leaves
<1> QED BY <1>1, <1>2, <1>4, <1>5 DEF SyncInv, WalletOK

LEMMA InitSyncInv == SyncInit => SyncInv
<1> SUFFICES ASSUME SyncInit PROVE SyncInv
  OBVIOUS
<1>1. IInv /\ TypeOK
  BY InitIInv DEF SyncInit, IInv
<1>2. pulled \in [Shard -> Seq(Note)] /\ pulledSpent \in Seq(Note) /\ answer = {}
  BY DEF SyncInit
<1>3. \A s \in Shard : Len(pulled[s]) = 0
  BY DEF SyncInit
<1>4. Len(pulledSpent) = 0 /\ spentSize \in Nat
  BY <1>1 DEF SyncInit, TypeOK
<1>5. ASSUME NEW s \in Shard PROVE Continues(pulled[s], s, 0)
  <2>1. Leaves(trees[s]) \in Nat
    BY <1>1, LeavesInNat
  <2> QED BY <1>3, <2>1 DEF Continues
<1>6. SpentContinues(pulledSpent, 0)
  BY <1>4 DEF SpentContinues
<1> QED BY <1>1, <1>2, <1>5, <1>6 DEF SyncInv, WalletOK

LEMMA NextSyncInv == SyncInv /\ [SyncNext]_vars => SyncInv'
<1> SUFFICES ASSUME SyncInv, [SyncNext]_vars PROVE SyncInv'
  OBVIOUS
<1>1. CASE Next /\ UNCHANGED wallet
  <2>1. IInv
    BY DEF SyncInv
  <2>2. IInv' /\ Grows
    BY <1>1, <2>1, NextIInv, StepGrows
  <2> QED BY <1>1, <2>2, LedgerKeepsWallet DEF SyncInv
<1>2. CASE Pull
  BY <1>2, PullKeepsWallet
<1>3. CASE Receive
  BY <1>3, ReceiveKeepsWallet
<1>4. CASE Lose
  BY <1>4, LostKeepsWallet DEF Lose
<1>5. CASE UNCHANGED vars
  BY <1>5, LostKeepsWallet DEF vars, wallet
<1> QED BY <1>1, <1>2, <1>3, <1>4, <1>5 DEF SyncNext

THEOREM AlwaysSyncInv == SyncSpec => []SyncInv
<1>1. SyncInit => SyncInv
  BY InitSyncInv
<1>2. SyncInv /\ [SyncNext]_vars => SyncInv'
  BY NextSyncInv
<1> QED BY <1>1, <1>2, PTL DEF SyncSpec

(***************************************************************************)
(* What a wallet has pulled is a beginning of every shard and of the list  *)
(* of nullifiers, for pages of any size, whatever is written while an      *)
(* answer is on its way and whichever answers are lost.                    *)
(***************************************************************************)
THEOREM PullsStayBeginnings == SyncSpec => []PullsAreBeginnings
<1>1. SyncInv => PullsAreBeginnings
  BY WalletBeginnings DEF SyncInv
<1> QED BY <1>1, AlwaysSyncInv, PTL

-----------------------------------------------------------------------------
(* What is left behind *)

\* The registered notes are as many as the leaves of all shards together.
LEMMA NotesAreLeaves ==
    ASSUME TypeOK, ShardsHoldUtxos
    PROVE  Cardinality(utxoSet) = SumOf([s \in Shard |-> Leaves(trees[s])])
<1> DEFINE len == [s \in Shard |-> Leaves(trees[s])]
           note == [u \in Units(len) |-> shards[<<u[1], u[2] - 1>>]]
<1>1. len \in [Shard -> Nat]
  BY LeavesInNat
<1>2. IsFiniteSet(Shard)
  BY FS_Interval, PayConstants DEF Shard
<1>3. IsFiniteSet(Units(len))
  BY <1>1, <1>2, UnitsAreFinite
<1>4. \A u : u \in Units(len) <=> \E s \in Shard : \E i \in 1 .. len[s] : u = <<s, i>>
  BY <1>1 DEF Units
<1>5. \A s \in Shard : len[s] = Leaves(trees[s])
  OBVIOUS
<1> HIDE DEF len
<1>6. ASSUME NEW u \in Units(len)
      PROVE  /\ <<u[1], u[2] - 1>> \in DOMAIN shards
             /\ u[1] \in Shard /\ u[2] \in Nat /\ u = <<u[1], u[2]>>
  <2>1. PICK s \in Shard : \E i \in 1 .. len[s] : u = <<s, i>>
    BY <1>4
  <2>2. PICK i \in 1 .. len[s] : u = <<s, i>>
    BY <2>1
  <2>3. len[s] \in Nat
    BY <1>1
  <2>4. i - 1 \in Nat /\ i - 1 < len[s] /\ i \in Nat
    BY <2>3
  <2>5. <<s, i - 1>> \in DOMAIN shards
    BY <1>1, <1>5, <2>4, LeafIsThere
  <2> QED BY <2>2, <2>4, <2>5
<1>7. note \in [Units(len) -> utxoSet]
  BY <1>6 DEF ShardsHoldUtxos
<1>8. ASSUME NEW u \in Units(len), NEW v \in Units(len), note[u] = note[v] PROVE u = v
  <2>1. <<u[1], u[2] - 1>> = <<v[1], v[2] - 1>>
    BY <1>6, <1>8 DEF ShardsHoldUtxos
  <2>2. u[2] \in Nat /\ v[2] \in Nat /\ u = <<u[1], u[2]>> /\ v = <<v[1], v[2]>>
    BY <1>6
  <2>3. u[1] = v[1] /\ u[2] - 1 = v[2] - 1
    BY <2>1
  <2>4. u[2] = v[2]
    BY <2>2, <2>3
  <2> QED BY <2>2, <2>3, <2>4
<1>9. ASSUME NEW n \in utxoSet PROVE \E u \in Units(len) : note[u] = n
  <2>1. PICK k \in DOMAIN shards : shards[k] = n
    BY DEF ShardsHoldUtxos
  <2>2. k \in Slot /\ k[2] < Leaves(trees[k[1]])
    BY DEF ShardsHoldUtxos
  <2>3. k[1] \in Shard /\ k[2] \in Nat /\ k = <<k[1], k[2]>>
    BY <2>2, PayConstants DEF Slot
  <2>4. len[k[1]] \in Nat /\ k[2] < len[k[1]]
    BY <1>1, <1>5, <2>2, <2>3
  <2>5. k[2] + 1 \in 1 .. len[k[1]] /\ k[2] + 1 - 1 = k[2]
    BY <2>3, <2>4
  <2> DEFINE u == <<k[1], k[2] + 1>>
  <2>6. u \in Units(len)
    BY <1>4, <2>3, <2>5
  <2>7. note[u] = n
    BY <2>1, <2>3, <2>5, <2>6
  <2> QED BY <2>6, <2>7
<1>10. note \in Bijection(Units(len), utxoSet)
  BY <1>7, <1>8, <1>9 DEF Bijection, Injection, Surjection, IsInjective
<1>11. Cardinality(utxoSet) = Cardinality(Units(len))
  <2> HIDE DEF note
  <2> QED BY <1>3, <1>10, FS_Bijection DEF ExistsBijection
<1> QED BY <1>11 DEF len, SumOf

\* The nullifiers are as many as the size says.
LEMMA NullifiersAreCounted ==
    ASSUME TypeOK, SpentIsInOrder PROVE Cardinality(nullifiers) = spentSize
<1>1. spentSize \in Nat /\ DOMAIN spentOrder = 0 .. spentSize - 1
  BY DEF TypeOK, SpentIsInOrder
<1>2. IsFiniteSet(0 .. spentSize - 1) /\ Cardinality(0 .. spentSize - 1) = spentSize
  BY <1>1, FS_Interval
<1>3. spentOrder \in [DOMAIN spentOrder -> nullifiers]
  BY DEF TypeOK, IsStorageMap, SpentIsInOrder
<1>4. spentOrder \in Bijection(DOMAIN spentOrder, nullifiers)
  BY <1>3 DEF SpentIsInOrder, Bijection, Injection, Surjection, IsInjective
<1> QED BY <1>1, <1>2, <1>4, FS_Bijection DEF ExistsBijection

\* how much of each shard the wallet has, and how much there is
Had == [s \in Shard |-> Len(pulled[s])]
There == [s \in Shard |-> Leaves(trees[s])]

\* A page leaves some shard unfinished if and only if it brings fewer notes than are left.
LEMMA UnfinishedShards ==
    ASSUME SyncInv,
           NEW K \in [Shard -> Nat],
           NEW H \in [Shard -> Nat], IsSum(H, Had, K), IsBelow(H, There)
    PROVE  (\E s \in Shard : H[s] < There[s]) <=> SumOf(K) < ReceiversLeft
<1>1. TypeOK /\ ShardsHoldUtxos
  BY DEF SyncInv, IInv, NotesInOrder
<1>2. There \in [Shard -> Nat]
  BY <1>1, LeavesInNat DEF There
<1>3. Had \in [Shard -> Nat]
  BY DEF SyncInv, WalletOK, Had
<1>4. IsFiniteSet(Shard)
  BY FS_Interval, PayConstants DEF Shard
<1>5. ReceiversLeft = SumOf(There) - SumOf(Had)
  BY <1>1, NotesAreLeaves DEF ReceiversLeft, Had, There
<1>6. SumOf(H) = SumOf(Had) + SumOf(K)
  BY <1>3, <1>4, SumOfTwo
<1>7. SumOf(H) < SumOf(There) <=> \E s \in Shard : H[s] < There[s]
  BY <1>2, <1>4, SumOfLower
<1>8. SumOf(H) \in Nat /\ SumOf(There) \in Nat /\ SumOf(Had) \in Nat /\ SumOf(K) \in Nat
  BY <1>2, <1>3, <1>4, SumInNat
<1>9. SumOf(H) < SumOf(There) <=> SumOf(K) < ReceiversLeft
  BY <1>5, <1>6, <1>8
<1> QED BY <1>7, <1>9

LEMMA PullSaysWhatIsLeft ==
    ASSUME SyncInv, Pull
    PROVE  \A page \in answer' :
             page.shouldContinue <=> \/ Gained(page) < ReceiversLeft
                                     \/ Len(page.senders) < SendersLeft
<1> DEFINE at == Checkpoint
           page == LedgerDiff(Checkpoint)
           P == [s \in Shard |-> Len(pulled[s])]
           K == [s \in Shard |-> Len(ReceiversOf(at.receivers, s))]
<1>1. TypeOK /\ ShardsHoldUtxos /\ SpentIsInOrder
  BY DEF SyncInv, IInv, NotesInOrder
<1>2. /\ \A s \in Shard : at.receivers[s] = Len(pulled[s])
                          /\ Len(pulled[s]) \in Nat /\ Len(pulled[s]) <= Leaves(trees[s])
      /\ at.senders = Len(pulledSpent)
      /\ Len(pulledSpent) \in Nat /\ Len(pulledSpent) <= spentSize
  BY CheckpointInLedger
<1>3. /\ page.receivers = [s \in Shard |-> ReceiversOf(at.receivers, s)]
      /\ page.senders = Senders(at.senders).notes
      /\ page.shouldContinue <=> \/ Receivers(at.receivers).more
                                 \/ Senders(at.senders).more
      /\ Receivers(at.receivers).more <=>
            \E s \in Shard : MoreAfter(LeavesOf(s), at.receivers[s], Room(at.receivers, s),
                                       Len(ReceiversOf(at.receivers, s)))
  BY DEF LedgerDiff, Receivers
<1> HIDE DEF at, page
<1>4. ASSUME NEW s \in Shard
      PROVE  /\ K[s] \in Nat /\ P[s] \in Nat /\ P[s] + K[s] <= Leaves(trees[s])
             /\ MoreAfter(LeavesOf(s), at.receivers[s], Room(at.receivers, s),
                          Len(ReceiversOf(at.receivers, s)))
                  <=> P[s] + K[s] < Leaves(trees[s])
  <2> DEFINE from == at.receivers
  <2>1. from[s] = Len(pulled[s]) /\ from[s] \in Nat /\ from[s] <= Leaves(trees[s])
    BY <1>2
  <2>2. K[s] = Len(ReceiversOf(from, s)) /\ P[s] = from[s]
    BY <2>1
  <2> HIDE DEF from, K, P
  <2>3. /\ Len(ReceiversOf(from, s)) \in Nat /\ Continues(ReceiversOf(from, s), s, from[s])
        /\ MoreAfter(LeavesOf(s), from[s], Room(from, s), Len(ReceiversOf(from, s)))
             <=> from[s] + Len(ReceiversOf(from, s)) < Leaves(trees[s])
    BY <1>1, <2>1, ReceiversContinue
  <2>4. from[s] + Len(ReceiversOf(from, s)) <= Leaves(trees[s])
    BY <2>3 DEF Continues
  <2> QED BY <2>1, <2>2, <2>3, <2>4 DEF from
<1>5. Gained(page) = SumOf(K)
  <2>1. [s \in Shard |-> Len(page.receivers[s])] = K
    BY <1>3
  <2> QED BY <2>1 DEF Gained
<1>6. Receivers(at.receivers).more <=> Gained(page) < ReceiversLeft
  <2> DEFINE H == [s \in Shard |-> P[s] + K[s]]
  <2>1. K \in [Shard -> Nat] /\ P = Had
    BY <1>4 DEF Had
  <2>2. \A s \in Shard : There[s] = Leaves(trees[s])
    BY DEF There
  <2>3. Receivers(at.receivers).more <=> \E s \in Shard : P[s] + K[s] < Leaves(trees[s])
    BY <1>3, <1>4
  <2>4. \A s \in Shard : P[s] \in Nat /\ K[s] \in Nat /\ P[s] + K[s] <= Leaves(trees[s])
    BY <1>4
  <2> HIDE DEF P, K
  <2>5. DOMAIN H = Shard /\ H \in [Shard -> Nat] /\ \A s \in Shard : H[s] = P[s] + K[s]
    BY <2>4
  <2> HIDE DEF H
  <2>6. Receivers(at.receivers).more <=> \E s \in Shard : H[s] < There[s]
    BY <2>2, <2>3, <2>5
  <2>7. IsSum(H, Had, K) /\ IsBelow(H, There)
    BY <2>1, <2>2, <2>4, <2>5 DEF IsSum, IsBelow
  <2>8. H \in [Shard -> Nat]
    BY <2>5
  <2>9. (\E s \in Shard : H[s] < There[s]) <=> SumOf(K) < ReceiversLeft
    BY <2>1, <2>7, <2>8, UnfinishedShards
  <2> QED BY <1>5, <2>6, <2>9
<1>7. Senders(at.senders).more <=> Len(page.senders) < SendersLeft
  <2>1. /\ Len(page.senders) \in Nat
        /\ Senders(at.senders).more <=> Len(pulledSpent) + Len(page.senders) < spentSize
    BY <1>1, <1>2, <1>3, SendersContinue
  <2>2. SendersLeft = spentSize - Len(pulledSpent)
    BY <1>1, NullifiersAreCounted DEF SendersLeft
  <2> QED BY <1>1, <1>2, <2>1, <2>2 DEF TypeOK
<1>8. answer' = {page}
  BY DEF Pull, page
<1> QED BY <1>3, <1>6, <1>7, <1>8

(***************************************************************************)
(* should_continue is set exactly if the page leaves something behind, for *)
(* pages of any size, also for those that hold nothing.                    *)
(***************************************************************************)
THEOREM PagesSayWhatIsLeft == SyncSpec => ContinuesIffUnfinished
<1>1. SyncInv /\ [SyncNext]_vars =>
        [Pull => \A page \in answer' :
            page.shouldContinue <=> \/ Gained(page) < ReceiversLeft
                                    \/ Len(page.senders) < SendersLeft]_vars
  BY PullSaysWhatIsLeft
<1> QED BY <1>1, AlwaysSyncInv, PTL DEF SyncSpec, ContinuesIffUnfinished
=============================================================================
