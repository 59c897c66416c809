-------------------------- MODULE StorageMapsProofs --------------------------
(***************************************************************************)
(* The laws of storage maps and of sums over them.                         *)
(***************************************************************************)
EXTENDS StorageMaps, FiniteSetTheorems, TLAPS

\* A balance less anything is a balance: saturating_sub never underflows.
LEMMA SubInNat == ASSUME NEW a \in Nat, NEW b PROVE Sub(a, b) \in Nat
BY DEF Sub

\* StorageMap::insert keeps the map of its type.
LEMMA PutStorage ==
    ASSUME NEW K, NEW V, NEW f, IsStorageMap(f, K, V), NEW k \in K, NEW v \in V
    PROVE  /\ IsStorageMap(Put(f, k, v), K, V)
           /\ DOMAIN Put(f, k, v) = DOMAIN f \cup {k}
BY DEF IsStorageMap, Put

\* StorageMap::remove keeps the map of its type.
LEMMA DropStorage ==
    ASSUME NEW K, NEW V, NEW f, IsStorageMap(f, K, V), NEW k
    PROVE  /\ IsStorageMap(Drop(f, k), K, V)
           /\ DOMAIN Drop(f, k) = DOMAIN f \ {k}
BY DEF IsStorageMap, Drop

\* The units under one key are finitely many, one per unit of the balance.
LEMMA IntervalIsFinite ==
    ASSUME NEW n \in Nat PROVE IsFiniteSet(1 .. n) /\ Cardinality(1 .. n) = n
BY FS_Interval

\* Finitely many keys hold finitely many units.
LEMMA UnitsAreFinite ==
    ASSUME NEW f, IsFiniteSet(DOMAIN f), f \in [DOMAIN f -> Nat]
    PROVE  IsFiniteSet(Units(f))
<1> DEFINE part == [k \in DOMAIN f |-> {k} \X (1 .. f[k])]
           parts == {{k} \X (1 .. f[k]) : k \in DOMAIN f}
<1>1. part \in Surjection(DOMAIN f, parts)
  BY DEF Surjection
<1>2. IsFiniteSet(parts)
  BY <1>1, FS_Surjection, Zenon DEF ExistsSurjection
<1>3. ASSUME NEW T \in parts PROVE IsFiniteSet(T)
  <2>1. PICK k \in DOMAIN f : T = {k} \X (1 .. f[k])
    OBVIOUS
  <2>2. IsFiniteSet({k})
    BY FS_Singleton
  <2>3. f[k] \in Nat
    OBVIOUS
  <2>4. IsFiniteSet(1 .. f[k])
    BY <2>3, IntervalIsFinite, Zenon
  <2> QED BY <2>1, <2>2, <2>4, FS_Product
<1>4. IsFiniteSet(UNION parts)
  BY <1>2, <1>3, FS_UNION
<1> QED BY <1>4 DEF Units

\* The sum over a finite map of balances is a balance.
LEMMA SumInNat ==
    ASSUME NEW f, IsFiniteSet(DOMAIN f), f \in [DOMAIN f -> Nat]
    PROVE  SumOf(f) \in Nat
BY UnitsAreFinite, FS_CardinalityType DEF SumOf

\* The sum over a map is the sum over two parts of it.
LEMMA SumOfParts ==
    ASSUME NEW f, IsFiniteSet(DOMAIN f), f \in [DOMAIN f -> Nat],
           NEW S, NEW T, DOMAIN f = S \cup T, S \cap T = {}
    PROVE  SumOf(f) = SumOf([x \in S |-> f[x]]) + SumOf([x \in T |-> f[x]])
<1> DEFINE g == [x \in S |-> f[x]]
           h == [x \in T |-> f[x]]
<1>1. IsFiniteSet(S) /\ IsFiniteSet(T)
  BY FS_Subset
<1>2. /\ DOMAIN g = S /\ g \in [DOMAIN g -> Nat]
      /\ DOMAIN h = T /\ h \in [DOMAIN h -> Nat]
  OBVIOUS
<1>3. IsFiniteSet(Units(g)) /\ IsFiniteSet(Units(h))
  BY <1>1, <1>2, UnitsAreFinite
<1>4. Units(f) = Units(g) \cup Units(h)
  BY DEF Units
<1>5. Units(g) \cap Units(h) = {}
  BY DEF Units
<1>6. Cardinality(Units(g)) \in Nat /\ Cardinality(Units(h)) \in Nat
  BY <1>3, FS_CardinalityType
<1>7. Cardinality(Units(g) \cap Units(h)) = 0
  BY <1>5, FS_EmptySet
<1> QED BY <1>3, <1>4, <1>6, <1>7, FS_Union DEF SumOf

\* A map with one key sums up to what is under it.
LEMMA SumOfOne ==
    ASSUME NEW k, NEW f, DOMAIN f = {k}, f[k] \in Nat
    PROVE  SumOf(f) = f[k]
<1>1. Units(f) = {k} \X (1 .. f[k])
  BY DEF Units
<1>2. IsFiniteSet({k}) /\ Cardinality({k}) = 1
  BY FS_Singleton
<1>3. IsFiniteSet(1 .. f[k]) /\ Cardinality(1 .. f[k]) = f[k]
  BY IntervalIsFinite
<1>4. Cardinality(Units(f)) = 1 * f[k]
  <2>1. Cardinality({k} \X (1 .. f[k])) = Cardinality({k}) * Cardinality(1 .. f[k])
    BY <1>2, <1>3, FS_Product, Zenon
  <2> QED BY <1>1, <1>2, <1>3, <2>1
<1>5. \A n \in Nat : 1 * n = n
  OBVIOUS
<1>6. Cardinality(Units(f)) = f[k]
  BY <1>4, <1>5
<1> QED BY <1>6 DEF SumOf

\* Zeros add nothing.
LEMMA SumOfZeros ==
    ASSUME NEW f, \A k \in DOMAIN f : f[k] = 0
    PROVE  SumOf(f) = 0
<1>1. \A k \in DOMAIN f : {k} \X (1 .. f[k]) = {}
  <2>1. 1 .. 0 = {}
    OBVIOUS
  <2>2. \A k \in DOMAIN f : {k} \X {} = {}
    OBVIOUS
  <2> QED BY <2>1, <2>2
<1>2. \A T \in {{k} \X (1 .. f[k]) : k \in DOMAIN f} : T = {}
  BY <1>1
<1>3. UNION {{k} \X (1 .. f[k]) : k \in DOMAIN f} = {}
  BY <1>2, Zenon
<1> QED BY <1>3, FS_EmptySet DEF SumOf, Units

\* What is under one key counts as it is, and the rest as before.
LEMMA SumOfKey ==
    ASSUME NEW f, IsFiniteSet(DOMAIN f), f \in [DOMAIN f -> Nat], NEW k \in DOMAIN f
    PROVE  /\ SumOf(Drop(f, k)) \in Nat
           /\ SumOf(f) = SumOf(Drop(f, k)) + f[k]
<1> DEFINE rest == [x \in DOMAIN f \ {k} |-> f[x]]
           one == [x \in {k} |-> f[x]]
<1>1. SumOf(f) = SumOf(rest) + SumOf(one)
  BY SumOfParts
<1>2. SumOf(one) = f[k]
  BY SumOfOne
<1>3. rest = Drop(f, k)
  BY DEF Drop
<1>4. IsFiniteSet(DOMAIN rest) /\ rest \in [DOMAIN rest -> Nat]
  BY FS_Subset
<1>5. SumOf(rest) \in Nat
  BY <1>4, SumInNat
<1> QED BY <1>1, <1>2, <1>3, <1>5

\* StorageMap::insert under a new key adds to the sum.
LEMMA SumOfPutNew ==
    ASSUME NEW f, IsFiniteSet(DOMAIN f), f \in [DOMAIN f -> Nat],
           NEW k, k \notin DOMAIN f, NEW v \in Nat
    PROVE  SumOf(Put(f, k, v)) = SumOf(f) + v
<1> DEFINE g == Put(f, k, v)
<1>1. DOMAIN g = DOMAIN f \cup {k} /\ g \in [DOMAIN g -> Nat] /\ g[k] = v
  BY DEF Put
<1>2. IsFiniteSet(DOMAIN g)
  BY <1>1, FS_AddElement
<1>3. Drop(g, k) = f
  BY DEF Put, Drop
<1> QED BY <1>1, <1>2, <1>3, SumOfKey

\* StorageMap::insert under a key already there trades the old value for the new one.
LEMMA SumOfPutOld ==
    ASSUME NEW f, IsFiniteSet(DOMAIN f), f \in [DOMAIN f -> Nat],
           NEW k \in DOMAIN f, NEW v \in Nat
    PROVE  SumOf(Put(f, k, v)) + f[k] = SumOf(f) + v
<1> DEFINE g == Put(f, k, v)
<1>1. DOMAIN g = DOMAIN f /\ g \in [DOMAIN g -> Nat] /\ g[k] = v
  BY DEF Put
<1>2. Drop(g, k) = Drop(f, k)
  BY DEF Put, Drop
<1>3. SumOf(g) = SumOf(Drop(f, k)) + v
  BY <1>1, <1>2, SumOfKey
<1>4. SumOf(f) = SumOf(Drop(f, k)) + f[k] /\ SumOf(Drop(f, k)) \in Nat
  BY SumOfKey
<1> QED BY <1>3, <1>4

\* A sum does not depend on the keys the values are under.
LEMMA SumOfRenamed ==
    ASSUME NEW f, IsFiniteSet(DOMAIN f), f \in [DOMAIN f -> Nat],
           NEW g, NEW h \in Bijection(DOMAIN f, DOMAIN g),
           \A k \in DOMAIN f : g[h[k]] = f[k]
    PROVE  SumOf(g) = SumOf(f)
<1> DEFINE move == [u \in Units(f) |-> <<h[u[1]], u[2]>>]
<1>1. /\ \A k \in DOMAIN f : h[k] \in DOMAIN g
      /\ \A k, l \in DOMAIN f : h[k] = h[l] => k = l
      /\ \A x \in DOMAIN g : \E k \in DOMAIN f : h[k] = x
  BY DEF Bijection, Injection, Surjection, IsInjective
<1>2. \A u : u \in Units(f) <=> \E k \in DOMAIN f : \E n \in 1 .. f[k] : u = <<k, n>>
  BY DEF Units
<1>3. \A u : u \in Units(g) <=> \E x \in DOMAIN g : \E n \in 1 .. g[x] : u = <<x, n>>
  BY DEF Units
<1>4. \A u \in Units(f) : move[u] \in Units(g)
  BY <1>1, <1>2, <1>3
<1>5. \A u, v \in Units(f) : move[u] = move[v] => u = v
  BY <1>1, <1>2
<1>6. ASSUME NEW w \in Units(g) PROVE \E u \in Units(f) : move[u] = w
  <2>1. PICK x \in DOMAIN g : \E n \in 1 .. g[x] : w = <<x, n>>
    BY <1>3
  <2>2. PICK n \in 1 .. g[x] : w = <<x, n>>
    BY <2>1
  <2>3. PICK k \in DOMAIN f : h[k] = x
    BY <1>1
  <2>4. <<k, n>> \in Units(f)
    BY <1>2, <2>3
  <2> QED BY <2>2, <2>3, <2>4
<1>7. move \in Bijection(Units(f), Units(g))
  BY <1>4, <1>5, <1>6 DEF Bijection, Injection, Surjection, IsInjective
<1>8. ExistsBijection(Units(f), Units(g))
  BY <1>7 DEF ExistsBijection
<1> QED BY <1>8, UnitsAreFinite, FS_Bijection, Zenon DEF SumOf

\* Smaller values, or fewer keys, make no greater sum.
LEMMA SumOfLess ==
    ASSUME NEW f, f \in [DOMAIN f -> Nat],
           NEW g, IsFiniteSet(DOMAIN g), g \in [DOMAIN g -> Nat],
           \A k \in DOMAIN f : k \in DOMAIN g /\ f[k] <= g[k]
    PROVE  SumOf(f) <= SumOf(g)
<1>1. \A k \in DOMAIN f : 1 .. f[k] \subseteq 1 .. g[k]
  OBVIOUS
<1>2. Units(f) \subseteq Units(g)
  BY <1>1 DEF Units
<1> QED BY <1>2, UnitsAreFinite, FS_Subset DEF SumOf

\* Adding value by value adds the sums.
LEMMA SumOfTogether ==
    ASSUME NEW D, IsFiniteSet(D), NEW f \in [D -> Nat], NEW g \in [D -> Nat],
           NEW h \in [D -> Nat], \A k \in D : h[k] = f[k] + g[k]
    PROVE  SumOf(h) = SumOf(f) + SumOf(g)
<1> DEFINE upper == {u \in Units(h) : u[2] > f[u[1]]}
           move == [u \in Units(g) |-> <<u[1], f[u[1]] + u[2]>>]
<1>1. /\ \A u : u \in Units(f) <=> \E k \in D : \E n \in 1 .. f[k] : u = <<k, n>>
      /\ \A u : u \in Units(g) <=> \E k \in D : \E n \in 1 .. g[k] : u = <<k, n>>
      /\ \A u : u \in Units(h) <=> \E k \in D : \E n \in 1 .. h[k] : u = <<k, n>>
  BY DEF Units
<1>2. /\ DOMAIN f = D /\ DOMAIN g = D /\ DOMAIN h = D
      /\ \A k \in D : f[k] \in Nat /\ g[k] \in Nat /\ h[k] \in Nat
  OBVIOUS
<1>3. /\ IsFiniteSet(Units(f)) /\ IsFiniteSet(Units(g)) /\ IsFiniteSet(Units(h))
  BY <1>2, UnitsAreFinite
<1>4. Units(h) = Units(f) \cup upper
  <2>1. ASSUME NEW u \in Units(f) PROVE u \in Units(h)
    <3>1. PICK k \in D : \E n \in 1 .. f[k] : u = <<k, n>>
      BY <1>1
    <3>2. PICK n \in 1 .. f[k] : u = <<k, n>>
      BY <3>1
    <3>3. n \in 1 .. h[k]
      BY <1>2
    <3> QED BY <1>1, <3>2, <3>3
  <2>2. ASSUME NEW u \in Units(h), ~(u[2] > f[u[1]]) PROVE u \in Units(f)
    <3>1. PICK k \in D : \E n \in 1 .. h[k] : u = <<k, n>>
      BY <1>1
    <3>2. PICK n \in 1 .. h[k] : u = <<k, n>>
      BY <3>1
    <3>3. n \in 1 .. f[k]
      BY <1>2, <2>2, <3>2
    <3> QED BY <1>1, <3>2, <3>3
  <2> QED BY <2>1, <2>2
<1>5. Units(f) \cap upper = {}
  BY <1>1, <1>2
<1>6. move \in Bijection(Units(g), upper)
  <2>1. ASSUME NEW u \in Units(g) PROVE move[u] \in upper
    <3>1. PICK k \in D : \E n \in 1 .. g[k] : u = <<k, n>>
      BY <1>1
    <3>2. PICK n \in 1 .. g[k] : u = <<k, n>>
      BY <3>1
    <3>3. f[k] + n \in 1 .. h[k] /\ f[k] + n > f[k]
      BY <1>2
    <3>4. move[u] = <<k, f[k] + n>>
      BY <3>2
    <3> QED BY <1>1, <3>3, <3>4
  <2>2. ASSUME NEW u \in Units(g), NEW v \in Units(g), move[u] = move[v] PROVE u = v
    <3>1. /\ \E k \in D : \E n \in 1 .. g[k] : u = <<k, n>>
          /\ \E k \in D : \E n \in 1 .. g[k] : v = <<k, n>>
      BY <1>1
    <3>2. u[1] = v[1] /\ f[u[1]] + u[2] = f[u[1]] + v[2]
      BY <2>2
    <3>3. f[u[1]] \in Nat /\ u[2] \in Nat /\ v[2] \in Nat
      BY <1>2, <3>1
    <3>4. u[2] = v[2]
      BY <3>2, <3>3
    <3> QED BY <3>1, <3>2, <3>4
  <2>3. ASSUME NEW w \in upper PROVE \E u \in Units(g) : move[u] = w
    <3>1. PICK k \in D : \E n \in 1 .. h[k] : w = <<k, n>>
      BY <1>1
    <3>2. PICK n \in 1 .. h[k] : w = <<k, n>>
      BY <3>1
    <3>3. n > f[k]
      BY <3>2
    <3>4. n - f[k] \in 1 .. g[k] /\ f[k] + (n - f[k]) = n
      BY <1>2, <3>3
    <3>5. <<k, n - f[k]>> \in Units(g)
      BY <1>1, <3>4
    <3>6. move[<<k, n - f[k]>>] = <<k, n>>
      BY <3>4, <3>5
    <3> QED BY <3>2, <3>5, <3>6
  <2> HIDE DEF move, upper
  <2>4. move \in [Units(g) -> upper]
    BY <2>1 DEF move
  <2> QED BY <2>1, <2>2, <2>3, <2>4 DEF Bijection, Injection, Surjection, IsInjective
<1> HIDE DEF upper, move
<1>7. Cardinality(upper) = Cardinality(Units(g)) /\ IsFiniteSet(upper)
  BY <1>3, <1>6, FS_Bijection DEF ExistsBijection
<1>8. /\ Cardinality(Units(f)) \in Nat /\ Cardinality(upper) \in Nat
      /\ Cardinality(Units(f) \cap upper) = 0
  BY <1>3, <1>5, <1>7, FS_CardinalityType, FS_EmptySet
<1>9. Cardinality(Units(f) \cup upper) =
        Cardinality(Units(f)) + Cardinality(upper) - Cardinality(Units(f) \cap upper)
  BY <1>3, <1>7, FS_Union
<1>10. Cardinality(Units(h)) = Cardinality(Units(f)) + Cardinality(upper)
  BY <1>4, <1>8, <1>9
<1> QED BY <1>7, <1>10 DEF SumOf

\* A map below another sums up to less if and only if it has less under some key.
LEMMA SumOfBelow ==
    ASSUME NEW D, IsFiniteSet(D), NEW f \in [D -> Nat], NEW g \in [D -> Nat],
           \A k \in D : f[k] <= g[k]
    PROVE  SumOf(f) < SumOf(g) <=> \E k \in D : f[k] < g[k]
<1>1. DOMAIN f = D /\ DOMAIN g = D
  OBVIOUS
<1>2. SumOf(f) \in Nat /\ SumOf(g) \in Nat
  BY <1>1, SumInNat
<1>3. SumOf(f) <= SumOf(g)
  BY <1>1, SumOfLess
<1>4. ASSUME ~ \E k \in D : f[k] < g[k] PROVE SumOf(f) = SumOf(g)
  <2>1. \A k \in D : f[k] = g[k]
    BY <1>4
  <2>2. f = g
    BY <2>1
  <2> QED BY <2>2
<1>5. ASSUME NEW k \in D, f[k] < g[k] PROVE SumOf(f) # SumOf(g)
  <2>1. IsFiniteSet(Units(g))
    BY <1>1, UnitsAreFinite
  <2>2. Units(f) \subseteq Units(g)
    <3>1. \A l \in D : 1 .. f[l] \subseteq 1 .. g[l]
      OBVIOUS
    <3> QED BY <1>1, <3>1 DEF Units
  <2>3. <<k, g[k]>> \in Units(g) /\ <<k, g[k]>> \notin Units(f)
    <3>1. g[k] \in 1 .. g[k] /\ g[k] \notin 1 .. f[k]
      BY <1>5
    <3>2. <<k, g[k]>> \in {k} \X (1 .. g[k])
      BY <3>1
    <3>3. ASSUME NEW l \in D PROVE <<k, g[k]>> \notin {l} \X (1 .. f[l])
      BY <3>1
    <3> QED BY <1>1, <3>2, <3>3 DEF Units
  <2>4. Units(f) # Units(g)
    BY <2>3
  <2> QED BY <2>1, <2>2, <2>4, FS_Subset DEF SumOf
<1> QED BY <1>2, <1>3, <1>4, <1>5

IsSum(h, f, g) == \A k \in DOMAIN h : h[k] = f[k] + g[k]
IsBelow(f, g) == \A k \in DOMAIN f : f[k] <= g[k]

\* The same two laws, with their hypotheses as predicates.
LEMMA SumOfTwo ==
    ASSUME NEW D, IsFiniteSet(D), NEW f \in [D -> Nat], NEW g \in [D -> Nat],
           NEW h \in [D -> Nat], IsSum(h, f, g)
    PROVE  SumOf(h) = SumOf(f) + SumOf(g)
<1>1. \A k \in D : h[k] = f[k] + g[k]
  BY DEF IsSum
<1> QED BY <1>1, SumOfTogether

LEMMA SumOfLower ==
    ASSUME NEW D, IsFiniteSet(D), NEW f \in [D -> Nat], NEW g \in [D -> Nat], IsBelow(f, g)
    PROVE  SumOf(f) < SumOf(g) <=> \E k \in D : f[k] < g[k]
<1>1. \A k \in D : f[k] <= g[k]
  BY DEF IsBelow
<1> QED BY <1>1, SumOfBelow

\* Every set of natural numbers has a least one.
LEMMA LeastNumber ==
    ASSUME NEW S \in SUBSET Nat, S # {}
    PROVE  \E m \in S : \A n \in S : m <= n
<1>1. PICK b \in S : TRUE
  OBVIOUS
<1> DEFINE T == {1 .. n : n \in {x \in S : x <= b}}
           R == StrictSubsetOrdering(1 .. b)
<1>2. T \subseteq FiniteSubsetsOf(1 .. b) /\ T # {}
  <2>1. ASSUME NEW n \in S, n <= b PROVE 1 .. n \in FiniteSubsetsOf(1 .. b)
    <3>1. n \in Nat /\ b \in Nat
      OBVIOUS
    <3>2. IsFiniteSet(1 .. n) /\ 1 .. n \subseteq 1 .. b
      BY <2>1, <3>1, IntervalIsFinite
    <3> QED BY <3>2 DEF FiniteSubsetsOf
  <2>2. b <= b
    OBVIOUS
  <2> QED BY <2>1, <2>2
<1>3. \E x \in T : \A y \in T : ~ (<<y, x>> \in R)
  <2>1. IsWellFoundedOn(R, FiniteSubsetsOf(1 .. b))
    BY FS_StrictSubsetOrderingWellFounded
  <2> HIDE DEF T, R
  <2> QED BY <1>2, <2>1, WFMin
<1>4. PICK m \in S : m <= b /\ \A y \in T : ~ (<<y, 1 .. m>> \in R)
  BY <1>3
<1>5. ASSUME NEW n \in S, ~(m <= n) PROVE FALSE
  <2>1. n \in Nat /\ m \in Nat /\ b \in Nat /\ n < m /\ n <= b
    BY <1>4, <1>5
  <2>2. 1 .. n \in T
    BY <2>1
  <2>3. 1 .. n \subseteq 1 .. m /\ 1 .. m \subseteq 1 .. b /\ m \in 1 .. m /\ m \notin 1 .. n
    BY <1>4, <2>1
  <2>4. <<1 .. n, 1 .. m>> \in R
    BY <2>3 DEF StrictSubsetOrdering
  <2> QED BY <1>4, <2>2, <2>4
<1> QED BY <1>5

Scaled(f, c) == [k \in DOMAIN f |-> c * f[k]]

\* A multiple of every value is that multiple of the sum.
LEMMA SumOfScaled ==
    ASSUME NEW D, IsFiniteSet(D), NEW f \in [D -> Nat], NEW c \in Nat
    PROVE  SumOf(Scaled(f, c)) = c * SumOf(f)
<1> DEFINE S == {n \in Nat : SumOf(Scaled(f, n)) # n * SumOf(f)}
<1>1. DOMAIN f = D /\ SumOf(f) \in Nat
  BY SumInNat
<1>2. \A n \in Nat : /\ Scaled(f, n) \in [D -> Nat]
                     /\ \A k \in D : Scaled(f, n)[k] = n * f[k] /\ f[k] \in Nat
  BY <1>1 DEF Scaled
<1>3. SUFFICES ASSUME S # {} PROVE FALSE
  BY <1>3
<1>4. PICK m \in S : \A n \in S : m <= n
  BY <1>3, LeastNumber
<1>5. m \in Nat /\ SumOf(Scaled(f, m)) # m * SumOf(f)
  OBVIOUS
<1>6. m # 0
  <2>1. \A k \in DOMAIN Scaled(f, 0) : Scaled(f, 0)[k] = 0
    BY <1>1 DEF Scaled
  <2>2. SumOf(Scaled(f, 0)) = 0
    BY <2>1, SumOfZeros
  <2>3. 0 * SumOf(f) = 0
    BY <1>1
  <2> QED BY <1>5, <2>2, <2>3
<1>7. m - 1 \in Nat /\ ~(m <= m - 1)
  BY <1>5, <1>6
<1>8. m - 1 \notin S
  BY <1>4, <1>7
<1>9. SumOf(Scaled(f, m - 1)) = (m - 1) * SumOf(f)
  BY <1>7, <1>8
<1>10. \A k \in D : Scaled(f, m)[k] = Scaled(f, m - 1)[k] + f[k]
  <2>1. ASSUME NEW k \in D PROVE m * f[k] = (m - 1) * f[k] + f[k]
    <3>1. \A x, n \in Nat : n * x = (n - 1) * x + x
      OBVIOUS
    <3> QED BY <1>2, <1>5, <3>1
  <2> QED BY <1>2, <1>5, <1>7, <2>1
<1>11. SumOf(Scaled(f, m)) = SumOf(Scaled(f, m - 1)) + SumOf(f)
  <2>1. Scaled(f, m) \in [D -> Nat] /\ Scaled(f, m - 1) \in [D -> Nat]
    BY <1>2, <1>5, <1>7
  <2> QED BY <1>10, <2>1, SumOfTogether
<1>12. (m - 1) * SumOf(f) + SumOf(f) = m * SumOf(f)
  <2>1. \A x, n \in Nat : n * x = (n - 1) * x + x
    OBVIOUS
  <2> QED BY <1>1, <1>5, <2>1
<1> QED BY <1>5, <1>9, <1>11, <1>12

Marked(D, S) == [k \in D |-> IF k \in S THEN 1 ELSE 0]

\* Counting is summing up ones.
LEMMA SumOfMarks ==
    ASSUME NEW D, IsFiniteSet(D), NEW S \in SUBSET D
    PROVE  SumOf(Marked(D, S)) = Cardinality(S)
<1> DEFINE f == Marked(D, S)
           unit == [k \in S |-> <<k, 1>>]
<1>1. Units(f) = {<<k, 1>> : k \in S}
  <2>1. ASSUME NEW u \in Units(f) PROVE \E k \in S : u = <<k, 1>>
    <3>1. PICK k \in D : u \in {k} \X (1 .. f[k])
      BY DEF Units, Marked
    <3>2. PICK n \in 1 .. f[k] : u = <<k, n>>
      BY <3>1
    <3>3. k \in S /\ n = 1
      BY <3>2 DEF Marked
    <3> QED BY <3>2, <3>3
  <2>2. ASSUME NEW k \in S PROVE <<k, 1>> \in Units(f)
    <3>1. k \in DOMAIN f /\ 1 \in 1 .. f[k]
      BY DEF Marked
    <3>2. <<k, 1>> \in {k} \X (1 .. f[k])
      BY <3>1
    <3> QED BY <3>1, <3>2 DEF Units
  <2> QED BY <2>1, <2>2
<1>2. unit \in Bijection(S, Units(f))
  BY <1>1 DEF Bijection, Injection, Surjection, IsInjective
<1>3. IsFiniteSet(S)
  BY FS_Subset
<1> QED BY <1>2, <1>3, FS_Bijection DEF ExistsBijection, SumOf
=============================================================================
