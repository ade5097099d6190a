----------------------------- MODULE ClientiMC ------------------------------
(***************************************************************************)
(* Instances of Clienti for TLC.  Every mode of the two clients, with the  *)
(* documents that matter to the life cycle and linked to the exhibit.      *)
(* Transaction ids, slots and operators are interchangeable.               *)
(***************************************************************************)
EXTENDS Clienti, TLC

LavoriMC ==
    LavoriReperto \cup LavoriCiclo
    \cup {l \in LavoriDocumento : l.tipo = "VERBALE_SEQUESTRO" /\ l.r # Nil}
    \cup {l \in LavoriEvidenza : l.r # Nil}

Simmetria ==
    Permutations(TxIds) \cup Permutations(Canali) \cup Permutations(Pratiche)
=============================================================================
