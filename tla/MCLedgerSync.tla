---------------------------- MODULE MCLedgerSync ----------------------------
(***************************************************************************)
(* A small instance of the pulling wallet for TLC: two notes to begin with *)
(* and what can be made of them, over two shards.                          *)
(***************************************************************************)
EXTENDS LedgerSyncProperties

CONSTANTS alice, pallet, kma, one, uno, two, nil, void

MCValueOf == [n \in Note |-> CASE n = two -> 2 [] n \in {nil, void} -> 0 [] OTHER -> 1]
MCShardOf == [n \in Note |-> IF n \in {one, nil} THEN 0 ELSE 1]
MCAssetOf == [n \in Note |-> kma]
MCEndowment == [a \in Asset |-> [x \in Account |-> IF x = alice THEN 3 ELSE 1]]
=============================================================================
