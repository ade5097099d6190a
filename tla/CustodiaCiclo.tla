---------------------------- MODULE CustodiaCiclo ---------------------------
(***************************************************************************)
(* The ledger implements the life cycle: the custody card of an exhibit is *)
(* read off its public card and its private data.                          *)
(***************************************************************************)
EXTENDS Custodia

\* The custody cards.  The absent one is none of them.
Cartelle ==
    [fase : Stati, custode : Distretti \cup Agenti \cup Laboratori,
     sede : Distretti, lab : Laboratori \cup {Nil}]

ASSUME CartellaAssumption == Nil \notin Cartelle

CartellaDi(s, r) ==
    IF ~RepertoExists(s, r) THEN Nil
    ELSE [fase |-> statoEffettivoReperto(Scheda(s, r)),
          custode |-> Scheda(s, r).custode,
          sede |-> Privato(s, r).distretto,
          lab |-> Scheda(s, r).lab]

Ciclo == INSTANCE CicloVita WITH
            cartella <- [r \in Reperti |-> CartellaDi(stato, r)]

\* Custody follows the life cycle: each transaction is one of its steps for
\* one exhibit, or leaves every custody card as it is.
ImplementaCiclo == Ciclo!Spec
=============================================================================
