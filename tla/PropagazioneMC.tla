--------------------------- MODULE PropagazioneMC ---------------------------
(***************************************************************************)
(* Instances of Propagazione for TLC.  Transaction ids, cases and files    *)
(* are interchangeable.                                                    *)
(***************************************************************************)
EXTENDS Propagazione, TLC

Simmetria == Permutations(TxIds) \cup Permutations(Casi) \cup Permutations(File)
=============================================================================
