------------------------------ MODULE MCTgSync ------------------------------
(***************************************************************************)
(* TgSync on a channel of three messages of any kinds that grows to four.  *)
(***************************************************************************)
EXTENDS TgSync
=============================================================================
