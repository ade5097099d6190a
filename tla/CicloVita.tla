----------------------------- MODULE CicloVita ------------------------------
(***************************************************************************)
(* What the contract promises about the custody of an exhibit, without     *)
(* ledger, documents or organisations: where the exhibit is in its life    *)
(* cycle, who holds it, to which seat it belongs and which laboratory is   *)
(* appointed.  Custody changes hands only at the three handovers; the one  *)
(* back is always to the seat the exhibit was seized in, the one to a      *)
(* laboratory always to the appointed one.                                 *)
(*                                                                         *)
(* An exhibit in transit carries no direction: the code has a single state *)
(* IN_TRANSITO for both legs, so both arrivals are possible from it.       *)
(***************************************************************************)
CONSTANTS Reperti, Distretti, Agenti, Laboratori, Nil

VARIABLE cartella   \* cartella[r]: the custody card of exhibit r, or Nil

Init == cartella = [r \in Reperti |-> Nil]

\* Exhibit r is in one of the given phases, and moves on to p.
Passa(r, fasi, p) ==
    /\ cartella[r] # Nil
    /\ cartella[r].fase \in fasi
    /\ cartella' = [cartella EXCEPT ![r] = p]

Sequestra(r, q) ==
    /\ cartella[r] = Nil
    /\ cartella' = [cartella EXCEPT ![r] =
            [fase |-> "SEQUESTRATO", custode |-> q, sede |-> q, lab |-> Nil]]

Incarica(r, l) ==
    Passa(r, {"SEQUESTRATO"},
          [cartella[r] EXCEPT !.fase = "ATTESA_TRASPORTO", !.lab = l])

Preleva(r, a) ==
    Passa(r, {"ATTESA_TRASPORTO", "ATTESA_RITIRO"},
          [cartella[r] EXCEPT !.fase = "IN_TRANSITO", !.custode = a])

ConsegnaAlLaboratorio(r) ==
    Passa(r, {"IN_TRANSITO"},
          [cartella[r] EXCEPT !.fase = "IN_ANALISI", !.custode = cartella[r].lab])

Referta(r) ==
    Passa(r, {"IN_ANALISI"}, [cartella[r] EXCEPT !.fase = "ATTESA_RITIRO"])

Rientra(r) ==
    Passa(r, {"IN_TRANSITO"},
          [cartella[r] EXCEPT !.fase = "SEQUESTRATO", !.custode = cartella[r].sede])

Next == \E r \in Reperti :
    \/ \E q \in Distretti : Sequestra(r, q)
    \/ \E l \in Laboratori : Incarica(r, l)
    \/ \E a \in Agenti : Preleva(r, a)
    \/ ConsegnaAlLaboratorio(r)
    \/ Referta(r)
    \/ Rientra(r)

Spec == Init /\ [][Next]_cartella
=============================================================================
