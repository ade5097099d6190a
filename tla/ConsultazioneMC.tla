-------------------------- MODULE ConsultazioneMC ---------------------------
(***************************************************************************)
(* Instances of Consultazione for TLC.  Transaction ids, cases and files   *)
(* are interchangeable.                                                    *)
(***************************************************************************)
EXTENDS Consultazione, TLC

Simmetria == Permutations(TxIds) \cup Permutations(Casi) \cup Permutations(File)
=============================================================================
