----------------------------- MODULE CustodiaMC -----------------------------
(***************************************************************************)
(* Instances of Custodia for TLC.  Transaction ids are interchangeable and *)
(* bounded: they bound the number of workflow documents, hence of cycles.  *)
(***************************************************************************)
EXTENDS CustodiaCiclo, Consultazione, TLC

Simmetria == Permutations(TxIds)

\* Also exhibits, cases, districts and document ids are interchangeable.
SimmetriaReperti ==
    Permutations(TxIds) \cup Permutations(Reperti) \cup Permutations(Casi)
    \cup Permutations(Distretti) \cup Permutations(IdDocumenti)
=============================================================================
