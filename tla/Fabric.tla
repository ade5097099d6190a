------------------------------- MODULE Fabric -------------------------------
(***************************************************************************)
(* The contract under Fabric's execute-order-validate scheme.  A call runs *)
(* on an endorsing peer against the ledger of that moment and yields a     *)
(* read set and a write set; nothing is applied yet.  Ordered later, in    *)
(* whatever order, the transaction is valid only if no key it read has     *)
(* been written since; otherwise it is discarded (MVCC_READ_CONFLICT).  It *)
(* may also never arrive: the client dies, or gives up waiting and calls   *)
(* again while the first call is still on its way.                         *)
(*                                                                         *)
(* A slot of Canali is one call in flight.  Simulation on a peer that lags *)
(* behind is a simulation that started earlier.  Fabric's version numbers  *)
(* are represented by what they decide: fresca, "the keys read have not    *)
(* been written since".                                                    *)
(***************************************************************************)
EXTENDS Contratto

CONSTANT Canali   \* calls that may be in flight at the same time

VARIABLES
    stato,   \* the committed ledger
    volo     \* volo[k]: the transaction in flight in slot k, or Nil

vars == <<stato, volo>>

Init == stato = RegistroVuoto /\ volo = [k \in Canali |-> Nil]

\* Endorsement of a call that reads the keys R and writes w.
Approva(k, tx, R, w) ==
    /\ volo[k] = Nil
    /\ volo' = [volo EXCEPT ![k] = [tx |-> tx, letture |-> R, scritture |-> w,
                                    fresca |-> TRUE]]
    /\ UNCHANGED stato

\* A transaction id nobody has used: neither on the ledger nor in flight.
TxNuova(tx) ==
    /\ \A c \in Casi : stato[ChiaveDocumento(c, tx)] = Nil
    /\ \A k \in Canali : volo[k] # Nil => volo[k].tx # tx

CreaReperto(k, msp, r, priv) ==
    /\ AmmetteCreaReperto(stato, msp, r)
    /\ Approva(k, Nil, LetturaCreaReperto(r), ScritturaCreaReperto(r, priv))

RegistraDocumento(k, msp, d, c, tipo, r, f) ==
    /\ AmmetteRegistraDocumento(stato, msp, d, c, tipo, r)
    /\ Approva(k, Nil, LetturaRegistraDocumento(d, c, r),
               ScritturaRegistraDocumento(stato, msp, d, c, tipo, r, f))

RegistraEvidenza(k, msp, e, c, r, f) ==
    /\ AmmetteRegistraEvidenza(stato, msp, e, c, r)
    /\ Approva(k, Nil, LetturaRegistraEvidenza(e, c, r),
               ScritturaRegistraEvidenza(msp, e, c, r, f))

RichiediAnalisi(k, tx, msp, r, lab, f) ==
    /\ TxNuova(tx)
    /\ AmmetteRichiediAnalisi(stato, msp, r)
    /\ Approva(k, tx, LetturaRichiediAnalisi(stato, r),
               ScritturaRichiediAnalisi(stato, tx, msp, r, lab, f))

AvviaTrasporto(k, msp, r, agente) ==
    /\ AmmetteAvviaTrasporto(stato, msp, r)
    /\ Approva(k, Nil, LetturaScheda(r), ScritturaAvviaTrasporto(stato, r, agente))

RiceviInLaboratorio(k, msp, r, lab) ==
    /\ AmmetteRiceviInLaboratorio(stato, msp, r, lab)
    /\ Approva(k, Nil, LetturaScheda(r), ScritturaRiceviInLaboratorio(stato, r, lab))

CompletaAnalisi(k, tx, msp, r, f) ==
    /\ TxNuova(tx)
    /\ AmmetteCompletaAnalisi(stato, msp, r)
    /\ Approva(k, tx, LetturaScheda(r), ScritturaCompletaAnalisi(stato, tx, msp, r, f))

PreparaRiconsegna(k, msp, r) ==
    /\ AmmettePreparaRiconsegna(stato, msp, r)
    /\ Approva(k, Nil, LetturaScheda(r), Niente)

DepositaInSede(k, tx, msp, r, f) ==
    /\ TxNuova(tx)
    /\ AmmetteDepositaInSede(stato, msp, r)
    /\ Approva(k, tx, LetturaDepositaInSede(r),
               ScritturaDepositaInSede(stato, tx, msp, r, f))

\* The other transactions in flight after w is committed from slot k.
DopoConferma(k, w) ==
    [j \in Canali |->
        IF j = k \/ volo[j] = Nil THEN Nil
        ELSE [volo[j] EXCEPT !.fresca = @ /\ volo[j].letture \cap DOMAIN w = {}]]

\* Ordered, validated and applied at once: public state and collections.
Conferma(k) ==
    /\ volo[k] # Nil
    /\ volo[k].fresca
    /\ stato' = stato ++ volo[k].scritture
    /\ volo' = DopoConferma(k, volo[k].scritture)

\* Ordered but invalid, or never ordered: no effect on the ledger.
Scarta(k) ==
    /\ volo[k] # Nil
    /\ volo' = [volo EXCEPT ![k] = Nil]
    /\ UNCHANGED stato

Chiamata(k) ==
    \E msp \in Msp :
        \/ \E r \in Reperti, priv \in RepertoPrivate : CreaReperto(k, msp, r, priv)
        \/ \E d \in IdDocumenti, c \in Casi, tipo \in TipiDocumento,
              r \in Reperti \cup {Nil}, f \in File :
                RegistraDocumento(k, msp, d, c, tipo, r, f)
        \/ \E e \in IdEvidenze, c \in Casi, r \in Reperti \cup {Nil},
              f \in File : RegistraEvidenza(k, msp, e, c, r, f)
        \/ \E tx \in TxIds, r \in Reperti, lab \in Laboratori, f \in File :
                RichiediAnalisi(k, tx, msp, r, lab, f)
        \/ \E r \in Reperti, agente \in Agenti : AvviaTrasporto(k, msp, r, agente)
        \/ \E r \in Reperti, lab \in Laboratori :
                RiceviInLaboratorio(k, msp, r, lab)
        \/ \E tx \in TxIds, r \in Reperti, f \in File :
                CompletaAnalisi(k, tx, msp, r, f)
        \/ \E r \in Reperti : PreparaRiconsegna(k, msp, r)
        \/ \E tx \in TxIds, r \in Reperti, f \in File :
                DepositaInSede(k, tx, msp, r, f)

Next == \E k \in Canali : Chiamata(k) \/ Conferma(k) \/ Scarta(k)

Spec == Init /\ [][Next]_vars

-----------------------------------------------------------------------------
(* Properties.                                                             *)

\* The ledger is typed, and what is in flight reads and writes keys of the
\* ledger, the latter with values of their namespace.
TypeOK ==
    /\ DOMAIN stato = Chiavi
    /\ \A k \in Chiavi : stato[k] \in ValoriDi(k) \cup {Nil}
    /\ DOMAIN volo = Canali
    /\ \A k \in Canali : volo[k] # Nil =>
        /\ volo[k].tx \in TxIds \cup {Nil}
        /\ volo[k].letture \subseteq Chiavi
        /\ DOMAIN volo[k].scritture \subseteq Chiavi
        /\ \A x \in DOMAIN volo[k].scritture : volo[k].scritture[x] \in ValoriDi(x)
        /\ volo[k].fresca \in BOOLEAN

Atomica == INSTANCE Custodia

\* However calls interleave, are repeated, reordered or lost, the ledger goes
\* through the states of a one-call-at-a-time execution of the contract: the
\* keys each function reads are enough for Fabric to refuse every transaction
\* whose checks no longer hold when it is applied.
Serializzabile == Atomica!Spec
=============================================================================
