------------------------------ MODULE MCSendForm ------------------------------
(* Instances of the send form for TLC. *)
EXTENDS SendFormProperties
=============================================================================
