----------------------------- MODULE StorageMaps -----------------------------
(***************************************************************************)
(* FRAME storage maps and u128 balances, as every pallet model uses them.  *)
(*                                                                         *)
(* A StorageMap<K, V> holds a value for some keys only: it is a function   *)
(* whose domain is the set of keys present.  Balances never wrap in the    *)
(* pallets modelled here: additions and subtractions saturate, and no      *)
(* instance comes near 2^128, so only the lower end is modelled.           *)
(***************************************************************************)
EXTENDS Naturals, FiniteSets

IsStorageMap(f, K, V) == DOMAIN f \subseteq K /\ f \in [DOMAIN f -> V]

NoEntries == [k \in {} |-> 0]

\* StorageMap::insert
Put(f, k, v) == [x \in DOMAIN f \cup {k} |-> IF x = k THEN v ELSE f[x]]

\* StorageMap::remove
Drop(f, k) == [x \in DOMAIN f \ {k} |-> f[x]]

\* Mistake (TypeOK must notice): plain subtraction
SubUnchecked(a, b) == a - b

\* saturating_sub: a - b where that is a balance, 0 otherwise
Sub(a, b) == IF b \in 0..a THEN a - b ELSE 0

(***************************************************************************)
(* The sum of the values of f, for f with values in Nat: the number of     *)
(* units there are under all keys together.  Written as a cardinality and  *)
(* not as a fold because the laws a proof needs (one key more, one key     *)
(* less) then follow from those of finite sets.                            *)
(***************************************************************************)
Units(f) == UNION {{k} \X (1 .. f[k]) : k \in DOMAIN f}

SumOf(f) == Cardinality(Units(f))
=============================================================================
