------------------------ MODULE MCCollatorSelection ------------------------
(***************************************************************************)
(* A small instance of the collator selection for TLC.                     *)
(***************************************************************************)
EXTENDS CollatorSelectionProperties

CONSTANTS steady, rival, novice

MCInvulnerableChoices == {{steady}, {steady, rival}}
=============================================================================
