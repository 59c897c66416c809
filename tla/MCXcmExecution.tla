----------------------------- MODULE MCXcmExecution -----------------------------
(***************************************************************************)
(* A small instance for TLC: this chain, one other parachain with two      *)
(* assets and the relay chain.                                             *)
(***************************************************************************)
EXTENDS XcmExecutionProperties, TLC

CONSTANTS self, kar, kusd, ksm, dolphin, karura, none, relay, alice, treasury

MCParaOf ==
    [l \in Location |->
        CASE l = self -> dolphin [] l \in {kar, kusd} -> karura [] OTHER -> none]

MCMetadata ==
    {[kind |-> "Fungible", id |-> 3, owner |-> "nobody"],
     [kind |-> "NonFungible", id |-> 3, owner |-> "alice"]}

Assets == Permutations({kar, kusd})
=============================================================================
