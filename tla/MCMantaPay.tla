----------------------------- MODULE MCMantaPay -----------------------------
(***************************************************************************)
(* A small instance of the private ledger for TLC: two accounts next to    *)
(* the pallet's, two assets, two shards, notes worth nothing, one and two. *)
(***************************************************************************)
EXTENDS MantaPayProperties

CONSTANTS alice, bob, pallet, kma, dot, one, uno, two, nil, void, other,
    PoolEndowment

MCValueOf == [n \in Note |-> CASE n = two -> 2 [] n \in {nil, void} -> 0 [] OTHER -> 1]
MCShardOf == [n \in Note |-> IF n \in {one, two, nil, other} THEN 0 ELSE 1]
MCAssetOf == [n \in Note |-> IF n = other THEN dot ELSE kma]
MCEndowment ==
    [a \in Asset |-> [x \in Account |->
        CASE x = alice -> (IF a = kma THEN 4 ELSE 2) [] x = pallet -> PoolEndowment [] OTHER -> 0]]
=============================================================================
