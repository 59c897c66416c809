-------------------------- MODULE MCParachainStaking --------------------------
(***************************************************************************)
(* Small instances of the bonding ledger for TLC.                          *)
(***************************************************************************)
EXTENDS ParachainStakingProperties, TLC

CONSTANTS
    Rich,           \* some accounts,
    RichFunds,      \* their free balance
    CandidateFunds, \* free balance of the other accounts that may become candidates
    BackerFunds     \* free balance of the rest

MCFreeBalance ==
    [a \in Account |-> IF a \in Rich THEN RichFunds
                       ELSE IF a \in Joiners THEN CandidateFunds ELSE BackerFunds]

\* accounts that differ in nothing but their name
BackerSymmetry == Permutations(Backers \ (Joiners \cup Rich))
=============================================================================
