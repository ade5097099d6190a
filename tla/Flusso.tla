-------------------------------- MODULE Flusso -------------------------------
(***************************************************************************)
(* The EV2 stream both transfers are about: a head (magic and size of the  *)
(* blocks), then the blocks of one file.                                   *)
(***************************************************************************)
EXTENDS Integers

CONSTANT NBlocchi   \* blocks of the file

ASSUME NBlocchiAssumption == NBlocchi \in Nat
=============================================================================
