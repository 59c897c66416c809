--------------------------- MODULE MCStakingRounds ---------------------------
(***************************************************************************)
(* Small instances of the rounds for TLC.                                  *)
(***************************************************************************)
EXTENDS StakingRoundsProperties

CONSTANTS CandidateFunds, BackerFunds

\* the bond account of the genesis, the account of all zeroes, does not exist
MCFreeBalance ==
    [a \in Account |-> IF a \in Joiners THEN CandidateFunds
                       ELSE IF a = InitialBondAccount THEN 0 ELSE BackerFunds]

MCExpect == [min |-> 2, ideal |-> 2, max |-> 3]
MCExpectations == {[min |-> 0, ideal |-> 1, max |-> 1]}
MCAnnual == [min |-> 40, ideal |-> 50, max |-> 90]
\* not the rates of MCAnnual at any length: the genesis of the mock, too, states others
MCRound == [min |-> 20, ideal |-> 25, max |-> 30]
MCSchedules == {[min |-> 30, ideal |-> 30, max |-> 30]}
NoRanges == {}
=============================================================================
