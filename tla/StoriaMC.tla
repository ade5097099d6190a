------------------------------ MODULE StoriaMC ------------------------------
(***************************************************************************)
(* Instances of Storia for TLC.  Calls in flight, transaction ids,         *)
(* documents, agents and laboratories are interchangeable.                 *)
(***************************************************************************)
EXTENDS Storia

Simmetria ==
    Permutations(TxIds) \cup Permutations(Canali) \cup Permutations(IdDocumenti)
    \cup Permutations(Agenti) \cup Permutations(Laboratori)
=============================================================================
