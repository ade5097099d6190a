--------------------------- MODULE CustodiaProofs ---------------------------
(***************************************************************************)
(* Proofs about Custodia for every value of the constants: types, custody, *)
(* the way back of an exhibit, the documents attached to the exhibits.     *)
(***************************************************************************)
EXTENDS Custodia, ContrattoProofs, FiniteSetTheorems

-----------------------------------------------------------------------------
(* The steps of the contract, as what they do to the card of one exhibit   *)
(* and to the documents attached by workflow steps.                        *)

\* The card p becomes q, and no document is attached: the verbale is linked,
\* an agent takes the exhibit, the appointed laboratory receives it.
Semplice(p, q) ==
    \/ \E d \in IdDocumenti : p.verbale = Nil /\ q = [p EXCEPT !.verbale = d]
    \/ \E a \in Agenti :
        /\ p.stato \in {"ATTESA_TRASPORTO", "ATTESA_RITIRO"}
        /\ q = [p EXCEPT !.stato = "IN_TRANSITO", !.custode = a]
    \/ /\ p.stato = "IN_TRANSITO" /\ p.lab \in Laboratori
       /\ q = [p EXCEPT !.stato = "IN_ANALISI", !.custode = p.lab]

\* The card p becomes q, and transaction tx attaches the document a: decree,
\* report or return report.  priv is the exhibit's private data.
ConAtto(p, priv, q, tx, a) ==
    /\ a.tipo \in TipiDocumento /\ requireMSPForTipoDocumento(a.autore, a.tipo)
    /\ \/ /\ a.tipo = "DECRETO_ACCERTAMENTO" /\ a.ente \in Laboratori
          /\ p.stato = "SEQUESTRATO" /\ p.verbale # Nil
          /\ q = [p EXCEPT !.decreto = tx, !.caso = priv.caso, !.lab = a.ente,
                           !.stato = "ATTESA_TRASPORTO"]
       \/ /\ a.tipo = "RELAZIONE_TECNICA" /\ a.ente = p.custode
          /\ p.stato = "IN_ANALISI"
          /\ q = [p EXCEPT !.relazione = tx, !.stato = "ATTESA_RITIRO"]
       \/ /\ a.tipo = "VERBALE_RICONSEGNA"
          /\ p.stato = "IN_TRANSITO"
          /\ q = [p EXCEPT !.riconsegna = tx, !.stato = "SEQUESTRATO",
                           !.custode = priv.distretto]

\* Nothing of interest; an exhibit is created; the two kinds of change above.
Fermo == SchedeUguali(stato, stato') /\ AttiUguali(stato, stato')

Nasce(r, priv) ==
    /\ ~RepertoExists(stato, r)
    /\ Scheda(stato', r) = SchedaNuova(priv) /\ Privato(stato', r) = priv
    /\ \A q \in Reperti \ {r} : /\ Scheda(stato', q) = Scheda(stato, q)
                                /\ Privato(stato', q) = Privato(stato, q)
    /\ AttiUguali(stato, stato')

Avanza(r, q) ==
    /\ RepertoExists(stato, r)
    /\ CambiaScheda(stato, stato', r, q)
    /\ AttiUguali(stato, stato')
    /\ Semplice(Scheda(stato, r), q)

AvanzaConAtto(r, q, tx, a) ==
    /\ RepertoExists(stato, r)
    /\ TxNuova(stato, tx)
    /\ CambiaScheda(stato, stato', r, q)
    /\ Allega(stato, stato', tx, Scheda(stato, r).caso, r, a)
    /\ a.caso = Scheda(stato, r).caso /\ a.reperto = r
    /\ ConAtto(Scheda(stato, r), Privato(stato, r), q, tx, a)

Cambiamento ==
    \/ Fermo
    \/ \E r \in Reperti, priv \in RepertoPrivate : Nasce(r, priv)
    \/ \E r \in Reperti, q \in RepertoPublic : Avanza(r, q)
    \/ \E r \in Reperti, q \in RepertoPublic, tx \in TxIds, a \in FilePrivate :
            AvanzaConAtto(r, q, tx, a)

\* The ids on a card: the verbale is a client's document, the others are
\* those of the transactions that attached them; away from its district an
\* exhibit has a decree and a laboratory.
PuntatoriDi(p) ==
    /\ p.verbale \in IdDocumenti \cup {Nil}
    /\ {p.decreto, p.relazione, p.riconsegna} \subseteq TxIds \cup {Nil}
    /\ p.stato # "SEQUESTRATO" \/ p.decreto # Nil \/ p.lab # Nil
        => p.decreto # Nil /\ p.lab \in Laboratori /\ p.verbale # Nil

\* Every card is in order.
SchedeInOrdine ==
    \A r \in Reperti : RepertoExists(stato, r) =>
        CustodiaDi(Scheda(stato, r), Privato(stato, r)) /\ PuntatoriDi(Scheda(stato, r))

\* The base of every other invariant.
Base == Tipato(stato) /\ SchedeInOrdine

\* What is known of an exhibit a workflow step is admitted for.
LEMMA InStatoNoto ==
    ASSUME Base, NEW r \in Reperti, NEW S, InStato(stato, r, S)
    PROVE  /\ RepertoExists(stato, r)
           /\ Scheda(stato, r) \in RepertoPublic
           /\ Scheda(stato, r).stato \in S
           /\ CustodiaDi(Scheda(stato, r), Privato(stato, r))
           /\ Privato(stato, r) \in RepertoPrivate
           /\ PuntatoriDi(Scheda(stato, r))
  BY InStatoScheda, SchedaTipata DEF Base, SchedeInOrdine, CustodiaDi

-----------------------------------------------------------------------------
(* Every step of the contract is one of the changes above.                 *)

\* CreaReperto.
LEMMA PassoCreaReperto ==
    ASSUME Base, NEW msp \in Msp, NEW r \in Reperti, NEW priv \in RepertoPrivate,
           CreaReperto(msp, r, priv)
    PROVE  Tipato(stato') /\ Cambiamento
  <1>1. stato' = stato ++ ScritturaCreaReperto(r, priv) /\ ~RepertoExists(stato, r)
    BY DEF CreaReperto, AmmetteCreaReperto
  <1>2. Tipato(stato')
    BY <1>1, TipataCreaReperto, TipataApplica DEF Base
  <1>3. Nasce(r, priv)
    BY <1>1, DopoCreaReperto DEF Base, Nasce
  <1> QED  BY <1>2, <1>3 DEF Cambiamento

\* RegistraDocumentoConTransient: at most the verbale of one card.
LEMMA PassoRegistraDocumento ==
    ASSUME Base, NEW msp \in Msp, NEW d \in IdDocumenti, NEW c \in Casi,
           NEW tipo \in TipiDocumento, NEW r \in Reperti \cup {Nil}, NEW f \in File,
           RegistraDocumento(msp, d, c, tipo, r, f)
    PROVE  Tipato(stato') /\ Cambiamento
  <1>1. /\ stato' = stato ++ ScritturaRegistraDocumento(stato, msp, d, c, tipo, r, f)
        /\ AmmetteRegistraDocumento(stato, msp, d, c, tipo, r)
        /\ Tipato(stato)
    BY DEF RegistraDocumento, Base
  <1>2. Tipato(stato')
    BY <1>1, TipataRegistraDocumento, TipataApplica
  <1>3. /\ AttiUguali(stato, stato')
        /\ \/ SchedeUguali(stato, stato')
           \/ /\ r \in Reperti /\ RepertoExists(stato, r) /\ Scheda(stato, r).verbale = Nil
              /\ CambiaScheda(stato, stato', r, [Scheda(stato, r) EXCEPT !.verbale = d])
    BY <1>1, DopoRegistraDocumento
  <1>4. CASE SchedeUguali(stato, stato')
    BY <1>2, <1>3, <1>4 DEF Cambiamento, Fermo
  <1>5. CASE ~SchedeUguali(stato, stato')
    <2> DEFINE q == [Scheda(stato, r) EXCEPT !.verbale = d]
    <2>1. /\ r \in Reperti /\ RepertoExists(stato, r) /\ Scheda(stato, r).verbale = Nil
          /\ CambiaScheda(stato, stato', r, q)
      BY <1>3, <1>5
    <2>2. q \in RepertoPublic
      BY <1>1, <2>1, SchedaTipata DEF RepertoPublic, AttoONil, IdAtto
    <2>3. Avanza(r, q)
      BY <1>3, <2>1 DEF Avanza, Semplice
    <2> QED  BY <1>2, <2>1, <2>2, <2>3 DEF Cambiamento
  <1> QED  BY <1>4, <1>5

\* RegistraEvidenzaConTransient.
LEMMA PassoRegistraEvidenza ==
    ASSUME Base, NEW msp \in Msp, NEW e \in IdEvidenze, NEW c \in Casi,
           NEW r \in Reperti \cup {Nil}, NEW f \in File, RegistraEvidenza(msp, e, c, r, f)
    PROVE  Tipato(stato') /\ Cambiamento
  <1>1. stato' = stato ++ ScritturaRegistraEvidenza(msp, e, c, r, f) /\ Tipato(stato)
    BY DEF RegistraEvidenza, Base
  <1>2. Tipato(stato')
    BY <1>1, TipataRegistraEvidenza, TipataApplica
  <1>3. Fermo
    BY <1>1, DopoRegistraEvidenza DEF Fermo
  <1> QED  BY <1>2, <1>3 DEF Cambiamento

\* RichiediAnalisi.
LEMMA PassoRichiediAnalisi ==
    ASSUME Base, NEW tx \in TxIds, NEW msp \in Msp, NEW r \in Reperti,
           NEW lab \in Laboratori, NEW f \in File, RichiediAnalisi(tx, msp, r, lab, f)
    PROVE  Tipato(stato') /\ Cambiamento
  <1> DEFINE p == Scheda(stato, r)
             priv == Privato(stato, r)
             q == SchedaRichiesta(stato, r, tx, lab)
             a == PrivatoAllegato(msp, priv.caso, r, "DECRETO_ACCERTAMENTO", f, lab)
  <1>1. /\ stato' = stato ++ ScritturaRichiediAnalisi(stato, tx, msp, r, lab, f)
        /\ AmmetteRichiediAnalisi(stato, msp, r) /\ msp = "PMMSP"
        /\ TxNuova(stato, tx) /\ Tipato(stato)
        /\ InStato(stato, r, {"SEQUESTRATO"})
        /\ p.verbale # Nil
    BY DEF RichiediAnalisi, AmmetteRichiediAnalisi, Base
  <1>2. /\ RepertoExists(stato, r) /\ p \in RepertoPublic /\ p.stato = "SEQUESTRATO"
        /\ priv \in RepertoPrivate /\ priv.caso \in Casi /\ p.caso = priv.caso
        /\ p.verbale \in IdDocumenti
    BY <1>1, InStatoNoto DEF CustodiaDi, RepertoPrivate, PuntatoriDi
  <1>3. Tipato(stato') /\ q \in RepertoPublic
    BY <1>1, TipataRichiediAnalisi, TipataApplica
  <1>4. /\ CambiaScheda(stato, stato', r, q)
        /\ Allega(stato, stato', tx, priv.caso, r, a)
    BY <1>1, <1>2, DopoRichiediAnalisi
  <1>5. /\ a \in FilePrivate /\ a.caso = p.caso /\ a.reperto = r
        /\ a.tipo = "DECRETO_ACCERTAMENTO" /\ a.ente = lab /\ a.autore = "PMMSP"
        /\ a.tipo \in TipiDocumento
    BY <1>1, <1>2 DEF PrivatoAllegato, FilePrivate, TipiDocumento
  <1> HIDE DEF a
  <1>6. ConAtto(p, priv, q, tx, a)
    BY <1>1, <1>2, <1>5 DEF ConAtto, SchedaRichiesta, requireMSPForTipoDocumento
  <1>7. AvanzaConAtto(r, q, tx, a)
    BY <1>1, <1>2, <1>4, <1>5, <1>6 DEF AvanzaConAtto
  <1> QED  BY <1>3, <1>5, <1>7 DEF Cambiamento

\* AvviaTrasporto.
LEMMA PassoAvviaTrasporto ==
    ASSUME Base, NEW msp \in Msp, NEW r \in Reperti, NEW agente \in Agenti,
           AvviaTrasporto(msp, r, agente)
    PROVE  Tipato(stato') /\ Cambiamento
  <1> DEFINE p == Scheda(stato, r)
             q == [p EXCEPT !.stato = "IN_TRANSITO", !.custode = agente]
  <1>1. /\ stato' = stato ++ ScritturaAvviaTrasporto(stato, r, agente)
        /\ AmmetteAvviaTrasporto(stato, msp, r) /\ Tipato(stato)
        /\ InStato(stato, r, {"ATTESA_TRASPORTO", "ATTESA_RITIRO"})
    BY DEF AvviaTrasporto, AmmetteAvviaTrasporto, Base
  <1>2. /\ RepertoExists(stato, r) /\ p \in RepertoPublic
        /\ p.stato \in {"ATTESA_TRASPORTO", "ATTESA_RITIRO"}
    BY <1>1, InStatoNoto
  <1>3. Tipato(stato')
    BY <1>1, TipataAvviaTrasporto, TipataApplica
  <1>4. AttiUguali(stato, stato') /\ CambiaScheda(stato, stato', r, q)
    BY <1>1, DopoAvviaTrasporto
  <1>5. q \in RepertoPublic
    BY <1>2 DEF RepertoPublic, Stati
  <1>6. Avanza(r, q)
    BY <1>2, <1>4 DEF Avanza, Semplice
  <1> QED  BY <1>3, <1>5, <1>6 DEF Cambiamento

\* RiceviInLaboratorio.
LEMMA PassoRiceviInLaboratorio ==
    ASSUME Base, NEW msp \in Msp, NEW r \in Reperti, NEW lab \in Laboratori,
           RiceviInLaboratorio(msp, r, lab)
    PROVE  Tipato(stato') /\ Cambiamento
  <1> DEFINE p == Scheda(stato, r)
             q == [p EXCEPT !.stato = "IN_ANALISI", !.custode = lab]
  <1>1. /\ stato' = stato ++ ScritturaRiceviInLaboratorio(stato, r, lab)
        /\ AmmetteRiceviInLaboratorio(stato, msp, r, lab) /\ Tipato(stato)
        /\ InStato(stato, r, {"IN_TRANSITO"}) /\ p.lab = lab
    BY DEF RiceviInLaboratorio, AmmetteRiceviInLaboratorio, Base
  <1>2. RepertoExists(stato, r) /\ p \in RepertoPublic /\ p.stato = "IN_TRANSITO"
    BY <1>1, InStatoNoto
  <1>3. Tipato(stato')
    BY <1>1, TipataRiceviInLaboratorio, TipataApplica
  <1>4. AttiUguali(stato, stato') /\ CambiaScheda(stato, stato', r, q)
    BY <1>1, DopoRiceviInLaboratorio
  <1>5. q \in RepertoPublic
    BY <1>2 DEF RepertoPublic, Stati
  <1>6. Avanza(r, q)
    BY <1>1, <1>2, <1>4 DEF Avanza, Semplice
  <1> QED  BY <1>3, <1>5, <1>6 DEF Cambiamento

\* CompletaAnalisi.
LEMMA PassoCompletaAnalisi ==
    ASSUME Base, NEW tx \in TxIds, NEW msp \in Msp, NEW r \in Reperti, NEW f \in File,
           CompletaAnalisi(tx, msp, r, f)
    PROVE  Tipato(stato') /\ Cambiamento
  <1> DEFINE p == Scheda(stato, r)
             q == [p EXCEPT !.relazione = tx, !.stato = "ATTESA_RITIRO"]
             a == PrivatoAllegato(msp, p.caso, r, "RELAZIONE_TECNICA", f, p.custode)
  <1>1. /\ stato' = stato ++ ScritturaCompletaAnalisi(stato, tx, msp, r, f)
        /\ AmmetteCompletaAnalisi(stato, msp, r) /\ msp = "LABMSP"
        /\ TxNuova(stato, tx) /\ Tipato(stato)
        /\ InStato(stato, r, {"IN_ANALISI"})
    BY DEF CompletaAnalisi, AmmetteCompletaAnalisi, Base
  <1>2. /\ RepertoExists(stato, r) /\ p \in RepertoPublic /\ p.stato = "IN_ANALISI"
        /\ p.custode \in Laboratori /\ p.caso \in Casi
    BY <1>1, InStatoNoto DEF CustodiaDi, RepertoPublic
  <1>3. Tipato(stato')
    BY <1>1, <1>2, TipataCompletaAnalisi, TipataApplica
  <1>4. /\ CambiaScheda(stato, stato', r, q)
        /\ Allega(stato, stato', tx, p.caso, r, a)
    BY <1>1, <1>2, DopoCompletaAnalisi
  <1>5. /\ a \in FilePrivate /\ a.caso = p.caso /\ a.reperto = r
        /\ a.tipo = "RELAZIONE_TECNICA" /\ a.ente = p.custode /\ a.autore = "LABMSP"
        /\ a.tipo \in TipiDocumento
    BY <1>1, <1>2 DEF PrivatoAllegato, FilePrivate, TipiDocumento
  <1>6. q \in RepertoPublic
    BY <1>2 DEF RepertoPublic, AttoONil, IdAtto, Stati
  <1> HIDE DEF a
  <1>7. ConAtto(p, Privato(stato, r), q, tx, a)
    BY <1>2, <1>5 DEF ConAtto, requireMSPForTipoDocumento
  <1>8. AvanzaConAtto(r, q, tx, a)
    BY <1>1, <1>2, <1>4, <1>5, <1>7 DEF AvanzaConAtto
  <1> QED  BY <1>3, <1>5, <1>6, <1>8 DEF Cambiamento

\* DepositaInSede.
LEMMA PassoDepositaInSede ==
    ASSUME Base, NEW tx \in TxIds, NEW msp \in Msp, NEW r \in Reperti, NEW f \in File,
           DepositaInSede(tx, msp, r, f)
    PROVE  Tipato(stato') /\ Cambiamento
  <1> DEFINE p == Scheda(stato, r)
             priv == Privato(stato, r)
             q == [p EXCEPT !.riconsegna = tx, !.stato = "SEQUESTRATO",
                            !.custode = priv.distretto]
             a == PrivatoAllegato(msp, p.caso, r, "VERBALE_RICONSEGNA", f, priv.distretto)
  <1>1. /\ stato' = stato ++ ScritturaDepositaInSede(stato, tx, msp, r, f)
        /\ AmmetteDepositaInSede(stato, msp, r) /\ msp = "PGMSP"
        /\ TxNuova(stato, tx) /\ Tipato(stato)
        /\ InStato(stato, r, {"IN_TRANSITO"})
    BY DEF DepositaInSede, AmmetteDepositaInSede, Base
  <1>2. /\ RepertoExists(stato, r) /\ p \in RepertoPublic /\ p.stato = "IN_TRANSITO"
        /\ priv \in RepertoPrivate /\ priv.distretto \in Distretti
        /\ CasoDelReperto(stato, r) = p.caso /\ p.caso \in Casi
    BY <1>1, InStatoNoto DEF CustodiaDi, RepertoPublic, RepertoPrivate, CasoDelReperto
  <1>3. Tipato(stato')
    BY <1>1, TipataDepositaInSede, TipataApplica
  <1>4. /\ CambiaScheda(stato, stato', r, q)
        /\ Allega(stato, stato', tx, p.caso, r, a)
    BY <1>1, <1>2, DopoDepositaInSede
  <1>5. /\ a \in FilePrivate /\ a.caso = p.caso /\ a.reperto = r
        /\ a.tipo = "VERBALE_RICONSEGNA" /\ a.autore = "PGMSP" /\ a.tipo \in TipiPg
        /\ a.tipo \in TipiDocumento
    BY <1>1, <1>2 DEF PrivatoAllegato, FilePrivate, TipiDocumento, TipiPg
  <1>6. q \in RepertoPublic
    BY <1>2 DEF RepertoPublic, AttoONil, IdAtto, Stati
  <1> HIDE DEF a
  <1>7. ConAtto(p, priv, q, tx, a)
    BY <1>2, <1>5 DEF ConAtto, requireMSPForTipoDocumento
  <1>8. AvanzaConAtto(r, q, tx, a)
    BY <1>1, <1>2, <1>4, <1>5, <1>7 DEF AvanzaConAtto
  <1> QED  BY <1>3, <1>5, <1>6, <1>8 DEF Cambiamento

\* A transaction function changes at most the card of one exhibit, along its
\* life cycle, and attaches at most one document, with a new id.
LEMMA PassoCambia == Base /\ [Next]_vars => Tipato(stato') /\ Cambiamento
  <1> SUFFICES ASSUME Base, [Next]_vars PROVE Tipato(stato') /\ Cambiamento
    OBVIOUS
  <1>1. ASSUME UNCHANGED stato PROVE Tipato(stato') /\ Cambiamento
    BY <1>1 DEF Base, Cambiamento, Fermo, SchedeUguali, AttiUguali, AttoUguale
  <1>2. ASSUME NEW msp \in Msp, NEW r \in Reperti, PreparaRiconsegna(msp, r)
        PROVE  Tipato(stato') /\ Cambiamento
    BY <1>1, <1>2 DEF PreparaRiconsegna
  <1> QED  BY <1>1, <1>2, PassoCreaReperto, PassoRegistraDocumento, PassoRegistraEvidenza,
              PassoRichiediAnalisi, PassoAvviaTrasporto, PassoRiceviInLaboratorio,
              PassoCompletaAnalisi, PassoDepositaInSede DEF Next, vars

-----------------------------------------------------------------------------
(* Custody.                                                                *)

\* A card just made is in order.
LEMMA SchedaNuovaInOrdine ==
    ASSUME NEW priv \in RepertoPrivate
    PROVE  CustodiaDi(SchedaNuova(priv), priv) /\ PuntatoriDi(SchedaNuova(priv))
  BY NilAssumption DEF CustodiaDi, PuntatoriDi, SchedaNuova, RepertoPrivate

\* A change without document leaves the card in order.
LEMMA SempliceInOrdine ==
    ASSUME NEW p \in RepertoPublic, NEW priv \in RepertoPrivate, NEW q,
           CustodiaDi(p, priv), PuntatoriDi(p), Semplice(p, q)
    PROVE  CustodiaDi(q, priv) /\ PuntatoriDi(q)
  <1>1. ASSUME NEW d \in IdDocumenti, p.verbale = Nil, q = [p EXCEPT !.verbale = d]
        PROVE  CustodiaDi(q, priv) /\ PuntatoriDi(q)
    <2>1. CustodiaDi(q, priv)
      BY <1>1 DEF CustodiaDi, RepertoPublic
    <2>2. PuntatoriDi(q)
      BY <1>1, NilAssumption DEF PuntatoriDi, RepertoPublic
    <2> QED  BY <2>1, <2>2
  <1>2. ASSUME NEW a \in Agenti, p.stato \in {"ATTESA_TRASPORTO", "ATTESA_RITIRO"},
               q = [p EXCEPT !.stato = "IN_TRANSITO", !.custode = a]
        PROVE  CustodiaDi(q, priv) /\ PuntatoriDi(q)
    BY <1>2 DEF CustodiaDi, PuntatoriDi, RepertoPublic
  <1>3. ASSUME p.stato = "IN_TRANSITO", p.lab \in Laboratori,
               q = [p EXCEPT !.stato = "IN_ANALISI", !.custode = p.lab]
        PROVE  CustodiaDi(q, priv) /\ PuntatoriDi(q)
    BY <1>3 DEF CustodiaDi, PuntatoriDi, RepertoPublic
  <1> QED  BY <1>1, <1>2, <1>3 DEF Semplice

\* So does a change with one.
LEMMA ConAttoInOrdine ==
    ASSUME NEW p \in RepertoPublic, NEW priv \in RepertoPrivate, NEW q,
           NEW tx \in TxIds, NEW a, CustodiaDi(p, priv), PuntatoriDi(p),
           ConAtto(p, priv, q, tx, a)
    PROVE  CustodiaDi(q, priv) /\ PuntatoriDi(q)
  <1>0. tx # Nil
    BY NilAssumption
  <1>1. ASSUME a.ente \in Laboratori, p.stato = "SEQUESTRATO", p.verbale # Nil,
               q = [p EXCEPT !.decreto = tx, !.caso = priv.caso, !.lab = a.ente,
                             !.stato = "ATTESA_TRASPORTO"]
        PROVE  CustodiaDi(q, priv) /\ PuntatoriDi(q)
    BY <1>0, <1>1 DEF CustodiaDi, PuntatoriDi, RepertoPublic
  <1>2. ASSUME p.stato = "IN_ANALISI",
               q = [p EXCEPT !.relazione = tx, !.stato = "ATTESA_RITIRO"]
        PROVE  CustodiaDi(q, priv) /\ PuntatoriDi(q)
    BY <1>2 DEF CustodiaDi, PuntatoriDi, RepertoPublic
  <1>3. ASSUME p.stato = "IN_TRANSITO",
               q = [p EXCEPT !.riconsegna = tx, !.stato = "SEQUESTRATO",
                             !.custode = priv.distretto]
        PROVE  CustodiaDi(q, priv) /\ PuntatoriDi(q)
    BY <1>3 DEF CustodiaDi, PuntatoriDi, RepertoPublic
  <1> QED  BY <1>1, <1>2, <1>3 DEF ConAtto

\* The cards are in order after each change.
LEMMA CambiamentoInOrdine == Base /\ Cambiamento => SchedeInOrdine'
  <1> DEFINE Bene(t, r) == RepertoExists(t, r) =>
                CustodiaDi(Scheda(t, r), Privato(t, r)) /\ PuntatoriDi(Scheda(t, r))
  <1> SUFFICES ASSUME Base, Cambiamento, NEW x \in Reperti PROVE Bene(stato', x)
    BY DEF SchedeInOrdine
  <1>0. Bene(stato, x)
    BY DEF Base, SchedeInOrdine
  <1>1. ASSUME Scheda(stato', x) = Scheda(stato, x), Privato(stato', x) = Privato(stato, x)
        PROVE  Bene(stato', x)
    BY <1>0, <1>1 DEF RepertoExists, Scheda
  <1>2. CASE Fermo
    BY <1>1, <1>2 DEF Fermo, SchedeUguali
  <1>3. ASSUME NEW r \in Reperti, NEW priv \in RepertoPrivate, Nasce(r, priv)
        PROVE  Bene(stato', x)
    BY <1>1, <1>3, SchedaNuovaInOrdine DEF Nasce
  <1>4. ASSUME NEW r \in Reperti, RepertoExists(stato, r)
        PROVE  /\ Scheda(stato, r) \in RepertoPublic /\ Privato(stato, r) \in RepertoPrivate
               /\ CustodiaDi(Scheda(stato, r), Privato(stato, r))
               /\ PuntatoriDi(Scheda(stato, r))
    BY <1>4, SchedaTipata DEF Base, SchedeInOrdine, CustodiaDi
  <1>5. ASSUME NEW r \in Reperti, NEW q \in RepertoPublic, Avanza(r, q)
        PROVE  Bene(stato', x)
    <2>1. CustodiaDi(q, Privato(stato, r)) /\ PuntatoriDi(q)
      BY <1>4, <1>5, SempliceInOrdine DEF Avanza
    <2> QED  BY <1>1, <1>5, <2>1 DEF Avanza, CambiaScheda
  <1>6. ASSUME NEW r \in Reperti, NEW q \in RepertoPublic, NEW tx \in TxIds,
               NEW a \in FilePrivate, AvanzaConAtto(r, q, tx, a)
        PROVE  Bene(stato', x)
    <2>1. CustodiaDi(q, Privato(stato, r)) /\ PuntatoriDi(q)
      BY <1>4, <1>6, ConAttoInOrdine DEF AvanzaConAtto
    <2> QED  BY <1>1, <1>6, <2>1 DEF AvanzaConAtto, CambiaScheda
  <1> QED  BY <1>2, <1>3, <1>5, <1>6 DEF Cambiamento

\* The empty ledger.
LEMMA InizioBase == Init => Base
  <1> SUFFICES ASSUME Init PROVE Base
    OBVIOUS
  <1>1. Tipato(stato)
    BY DEF Init, RegistroVuoto, Tipato
  <1>2. SchedeInOrdine
    BY ValoriDelleChiavi DEF Init, RegistroVuoto, SchedeInOrdine, RepertoExists
  <1> QED  BY <1>1, <1>2 DEF Base

\* Base is inductive.
LEMMA PassoBase == Base /\ [Next]_vars => Base'
  <1> SUFFICES ASSUME Base, [Next]_vars PROVE Base'
    OBVIOUS
  <1>1. Tipato(stato') /\ Cambiamento
    BY PassoCambia
  <1>2. SchedeInOrdine'
    BY <1>1, CambiamentoInOrdine
  <1> QED  BY <1>1, <1>2 DEF Base

\* Base holds in every reachable state, and every step is one of the changes.
LEMMA BaseSempre == Spec => []Base /\ [][Base /\ Base' /\ Cambiamento]_stato
  <1>1. Base /\ [Next]_vars => [Base /\ Base' /\ Cambiamento]_stato
    BY PassoBase, PassoCambia DEF vars
  <1> QED  BY <1>1, InizioBase, PassoBase, PTL DEF Spec

\* Types: under every key nothing but values of the key's namespace, whatever
\* calls the contract admits.
THEOREM TipiCorretti == Spec => []TypeOK
  <1>1. Base => TypeOK
    BY DEF Base, Tipato, TypeOK
  <1> QED  BY <1>1, BaseSempre, PTL

\* Custody: who has an exhibit always agrees with the state of its life cycle.
THEOREM CustodiaSempreCoerente == Spec => []CustodiaCoerente
  <1>1. Base => CustodiaCoerente
    BY DEF Base, SchedeInOrdine, CustodiaCoerente, RepertiNoti
  <1> QED  BY <1>1, BaseSempre, PTL

\* The way back is open: no handover of an exhibit on its way is refused for
\* data that are missing from the ledger.
THEOREM PercorsoSempreAperto == Spec => []PercorsoAperto
  <1>1. Base => PercorsoAperto
    <2> SUFFICES ASSUME Base, NEW r \in Reperti, RepertoExists(stato, r)
        PROVE  LET p == Scheda(stato, r)
               IN  /\ p.stato = "IN_TRANSITO" =>
                        /\ AmmetteDepositaInSede(stato, "PGMSP", r)
                        /\ AmmetteRiceviInLaboratorio(stato, "LABMSP", r, p.lab)
                   /\ p.stato = "IN_ANALISI" => AmmetteCompletaAnalisi(stato, "LABMSP", r)
      BY DEF PercorsoAperto, RepertiNoti
    <2> DEFINE p == Scheda(stato, r)
    <2>1. /\ p \in RepertoPublic
          /\ Privato(stato, r) \in RepertoPrivate /\ Privato(stato, r) # Nil
          /\ CustodiaDi(p, Privato(stato, r)) /\ PuntatoriDi(p)
      BY SchedaTipata DEF Base, SchedeInOrdine, CustodiaDi
    <2>2. p.caso # Nil /\ Privato(stato, r).distretto # Nil /\ p.stato # Nil
      BY <2>1, NilAssumption DEF RepertoPublic, RepertoPrivate
    <2>3. CasoDelReperto(stato, r) = p.caso
      BY <2>2 DEF CasoDelReperto
    <2>4. ASSUME p.stato = "IN_TRANSITO"
          PROVE  /\ AmmetteDepositaInSede(stato, "PGMSP", r)
                 /\ AmmetteRiceviInLaboratorio(stato, "LABMSP", r, p.lab)
      <3>1. InStato(stato, r, {"IN_TRANSITO"})
        BY <2>2, <2>4 DEF InStato, statoEffettivoReperto
      <3>2. p.decreto # Nil /\ p.lab # Nil
        BY <2>1, <2>4, NilAssumption DEF PuntatoriDi
      <3> QED  BY <2>1, <2>2, <2>3, <3>1, <3>2
               DEF AmmetteDepositaInSede, AmmetteRiceviInLaboratorio
    <2>5. ASSUME p.stato = "IN_ANALISI" PROVE AmmetteCompletaAnalisi(stato, "LABMSP", r)
      <3>1. InStato(stato, r, {"IN_ANALISI"})
        BY <2>2, <2>5 DEF InStato, statoEffettivoReperto
      <3>2. p.custode # Nil
        BY <2>1, <2>5, NilAssumption DEF CustodiaDi
      <3> QED  BY <2>2, <3>1, <3>2 DEF AmmetteCompletaAnalisi
    <2> QED  BY <2>4, <2>5
  <1> QED  BY <1>1, BaseSempre, PTL

-----------------------------------------------------------------------------
(* The documents attached by workflow steps.                               *)

\* No part of a document is left of a transaction that attached none.
AttiNuovi ==
    \A c \in Casi, tx \in TxIds : stato[ChiaveDocumento(c, tx)] = Nil =>
        /\ stato[ChiaveFile("PG_PM", c, tx)] = Nil
        /\ stato[ChiaveFile("PM_LAB", c, tx)] = Nil

\* The decree on a card is the one that appointed the laboratory on the card.
DecretoDelLaboratorio ==
    \A r \in RepertiNoti :
        LET p == Scheda(stato, r)
        IN  p.decreto # Nil
                => stato[ChiaveFile("PM_LAB", p.caso, p.decreto)].ente = p.lab

\* Attached documents are finitely many, and belong to exhibits that exist.
AllegatiFiniti ==
    \A r \in Reperti, tipo \in TipiDocumento :
        /\ IsFiniteSet(Allegati(r, tipo))
        /\ ~RepertoExists(stato, r) => Allegati(r, tipo) = {}

\* The invariant about attached documents.
Atti ==
    /\ AttiNuovi /\ AllegatiFiniti
    /\ PuntatoriRisolti /\ DecretoDelLaboratorio
    /\ RelazioneConMandato /\ BilancioRiconsegne

\* AttoCompleto, on any ledger.
AttoIntero(s, c, r, id, tipo) ==
    LET pdc == pdcCollectionForTipoDocumento(tipo)
        priv == s[ChiaveFile(pdc, c, id)]
    IN  /\ priv # Nil
        /\ priv.caso = c /\ priv.reperto = r /\ priv.tipo = tipo
        /\ requireMSPForTipoDocumento(priv.autore, tipo)
        /\ s[ChiaveDocumento(c, id)] = [cid |-> priv.chiave]
        /\ s[ChiaveDocRep(r, id)] = [caso |-> c]

\* A complete document stays so while nothing is attached by its transaction.
LEMMA AttoRimane ==
    ASSUME NEW s, NEW t, NEW c \in Casi, NEW r \in Reperti, NEW tx \in TxIds, NEW tipo,
           AttoUguale(s, t, tx), AttoIntero(s, c, r, tx, tipo)
    PROVE  AttoIntero(t, c, r, tx, tipo)
  <1>1. pdcCollectionForTipoDocumento(tipo) \in {"PG_PM", "PM_LAB"}
    BY DEF pdcCollectionForTipoDocumento
  <1>2. t[ChiaveFile(pdcCollectionForTipoDocumento(tipo), c, tx)]
            = s[ChiaveFile(pdcCollectionForTipoDocumento(tipo), c, tx)]
    BY <1>1 DEF AttoUguale
  <1> QED  BY <1>2 DEF AttoIntero, AttoUguale

\* The transaction of a complete document is not new.
LEMMA AttoNonNuovo ==
    ASSUME NEW s, Tipato(s), NEW c \in Casi, NEW r, NEW tx \in TxIds, NEW tipo,
           AttoIntero(s, c, r, tx, tipo)
    PROVE  /\ ~TxNuova(s, tx)
           /\ s[ChiaveFile(pdcCollectionForTipoDocumento(tipo), c, tx)] \in FilePrivate
  <1> DEFINE kf == ChiaveFile(pdcCollectionForTipoDocumento(tipo), c, tx)
  <1>1. s[kf] \in FilePrivate
    BY ValoriDelleChiavi
       DEF AttoIntero, Tipato, Id, IdAtto, pdcCollectionForTipoDocumento
  <1>2. s[ChiaveDocumento(c, tx)] \in FilePublic
    BY <1>1 DEF AttoIntero, FilePublic, FilePrivate
  <1> QED  BY <1>1, <1>2, NilAssumption DEF TxNuova

\* A document just attached is complete.
LEMMA AttoAllegato ==
    ASSUME NEW s, NEW t, NEW c \in Casi, NEW r \in Reperti, NEW tx \in TxIds,
           NEW a \in FilePrivate, Allega(s, t, tx, c, r, a), a.caso = c, a.reperto = r,
           requireMSPForTipoDocumento(a.autore, a.tipo)
    PROVE  AttoIntero(t, c, r, tx, a.tipo)
  BY NilAssumption DEF AttoIntero, Allega

\* The documents attached to an exhibit, when a transaction attaches none.
LEMMA AllegatiUguali ==
    ASSUME AttiUguali(stato, stato'), NEW r \in Reperti, NEW tipo
    PROVE  /\ Allegati(r, tipo)' = Allegati(r, tipo)
           /\ \A x \in Allegati(r, tipo) :
                stato'[ChiaveFile("PM_LAB", x[1], x[2])]
                    = stato[ChiaveFile("PM_LAB", x[1], x[2])]
  <1>1. pdcCollectionForTipoDocumento(tipo) \in {"PG_PM", "PM_LAB"}
    BY DEF pdcCollectionForTipoDocumento
  <1>2. \A x \in Casi \X TxIds, pdc \in {"PG_PM", "PM_LAB"} :
            stato'[ChiaveFile(pdc, x[1], x[2])] = stato[ChiaveFile(pdc, x[1], x[2])]
    BY DEF AttiUguali, AttoUguale
  <1> QED  BY <1>1, <1>2 DEF Allegati

\* The documents attached to the exhibits, when a transaction attaches one.
LEMMA AllegatiConAtto ==
    ASSUME AttiNuovi, NEW c \in Casi, NEW r \in Reperti, NEW tx \in TxIds, TxNuova(stato, tx),
           NEW a \in FilePrivate, Allega(stato, stato', tx, c, r, a), a.reperto = r,
           NEW q \in Reperti, NEW tipo \in TipiDocumento
    PROVE  /\ Allegati(q, tipo)' = IF q = r /\ tipo = a.tipo
                                   THEN Allegati(q, tipo) \cup {<<c, tx>>}
                                   ELSE Allegati(q, tipo)
           /\ <<c, tx>> \notin Allegati(q, tipo)
           /\ \A x \in Allegati(q, tipo) :
                stato'[ChiaveFile("PM_LAB", x[1], x[2])]
                    = stato[ChiaveFile("PM_LAB", x[1], x[2])]
  <1> DEFINE pdc == pdcCollectionForTipoDocumento(tipo)
             kf == ChiaveFile(pdcCollectionForTipoDocumento(a.tipo), c, tx)
             K(x) == ChiaveFile(pdc, x[1], x[2])
  <1>1. pdc \in {"PG_PM", "PM_LAB"}
    BY DEF pdcCollectionForTipoDocumento
  <1>2. stato'[kf] = a /\ a # Nil
    BY NilAssumption DEF Allega
  <1>3. \A cc \in Casi, p \in {"PG_PM", "PM_LAB"} : stato[ChiaveFile(p, cc, tx)] = Nil
    BY DEF TxNuova, AttiNuovi
  <1>4. \A x \in Casi \X TxIds, p \in {"PG_PM", "PM_LAB"} : ChiaveFile(p, x[1], x[2]) # kf
            => stato'[ChiaveFile(p, x[1], x[2])] = stato[ChiaveFile(p, x[1], x[2])]
    BY DEF Allega, AttoUguale
  <1>5. \A x \in Casi \X TxIds : \A p : ChiaveFile(p, x[1], x[2]) = kf => x = <<c, tx>>
    BY DEF ChiaveFile
  <1>6. /\ \A x \in Allegati(q, tipo) : x \in Casi \X TxIds /\ x[2] # tx
        /\ <<c, tx>> \notin Allegati(q, tipo)
    BY <1>1, <1>3 DEF Allegati
  <1>7. \A x \in Casi \X TxIds :
            x # <<c, tx>> => (x \in Allegati(q, tipo)' <=> x \in Allegati(q, tipo))
    BY <1>1, <1>4, <1>5 DEF Allegati
  <1>8. <<c, tx>> \in Allegati(q, tipo)' <=> q = r /\ tipo = a.tipo
    <2>1. CASE pdc = pdcCollectionForTipoDocumento(a.tipo)
      BY <1>2, <2>1 DEF Allegati
    <2>2. CASE pdc # pdcCollectionForTipoDocumento(a.tipo)
      <3>1. ChiaveFile(pdc, c, tx) # kf
        BY <2>2 DEF ChiaveFile
      <3>2. stato'[ChiaveFile(pdc, c, tx)] = Nil
        BY <1>1, <1>3, <3>1 DEF Allega
      <3> QED  BY <2>2, <3>2 DEF Allegati
    <2> QED  BY <2>1, <2>2
  <1>9. Allegati(q, tipo)' \subseteq Casi \X TxIds /\ Allegati(q, tipo) \subseteq Casi \X TxIds
    BY DEF Allegati
  <1>10. Allegati(q, tipo)' = IF q = r /\ tipo = a.tipo
                              THEN Allegati(q, tipo) \cup {<<c, tx>>}
                              ELSE Allegati(q, tipo)
    BY <1>6, <1>7, <1>8, <1>9
  <1>11. \A x \in Allegati(q, tipo) : ChiaveFile("PM_LAB", x[1], x[2]) # kf
    BY <1>5, <1>6
  <1> QED  BY <1>4, <1>6, <1>10, <1>11

\* Cards p and q agree on everything that concerns attached documents.
Simile(p, q) ==
    /\ q.caso = p.caso /\ q.lab = p.lab
    /\ q.decreto = p.decreto /\ q.relazione = p.relazione /\ q.riconsegna = p.riconsegna
    /\ q.stato = "SEQUESTRATO" <=> p.stato = "SEQUESTRATO"

\* What Atti says of the card p of exhibit r.
AttiDi(s, r, p) ==
    /\ p.decreto # Nil => /\ AttoIntero(s, p.caso, r, p.decreto, "DECRETO_ACCERTAMENTO")
                          /\ s[ChiaveFile("PM_LAB", p.caso, p.decreto)].ente = p.lab
    /\ p.relazione # Nil => AttoIntero(s, p.caso, r, p.relazione, "RELAZIONE_TECNICA")
    /\ p.riconsegna # Nil => AttoIntero(s, p.caso, r, p.riconsegna, "VERBALE_RICONSEGNA")

\* PuntatoriRisolti and DecretoDelLaboratorio, exhibit by exhibit.
AttiDelleSchede(s) ==
    \A r \in Reperti : RepertoExists(s, r) => AttiDi(s, r, Scheda(s, r))

\* They say the same, before and after a step.
LEMMA SchedeConAtti ==
    /\ PuntatoriRisolti /\ DecretoDelLaboratorio <=> AttiDelleSchede(stato)
    /\ PuntatoriRisolti' /\ DecretoDelLaboratorio' <=> AttiDelleSchede(stato')
  <1> USE DEF AttiDelleSchede, AttiDi, PuntatoriRisolti, DecretoDelLaboratorio, AttoCompleto,
              AttoIntero, RepertiNoti
  <1>1. PuntatoriRisolti /\ DecretoDelLaboratorio => AttiDelleSchede(stato)
    OBVIOUS
  <1>2. AttiDelleSchede(stato) => PuntatoriRisolti /\ DecretoDelLaboratorio
    OBVIOUS
  <1>3. PuntatoriRisolti' /\ DecretoDelLaboratorio' => AttiDelleSchede(stato')
    OBVIOUS
  <1>4. AttiDelleSchede(stato') => PuntatoriRisolti' /\ DecretoDelLaboratorio'
    OBVIOUS
  <1> QED  BY <1>1, <1>2, <1>3, <1>4

\* What is attached to a card remains, if the transactions of its documents
\* attach nothing else.
LEMMA AttiDiRimane ==
    ASSUME NEW s, NEW t, NEW r \in Reperti, NEW p \in RepertoPublic, PuntatoriDi(p),
           AttiDi(s, r, p),
           \A x \in {p.decreto, p.relazione, p.riconsegna} \ {Nil} : AttoUguale(s, t, x)
    PROVE  AttiDi(t, r, p)
  <1>1. p.caso \in Casi /\ {p.decreto, p.relazione, p.riconsegna} \subseteq TxIds \cup {Nil}
    BY DEF PuntatoriDi, RepertoPublic
  <1>2. ASSUME p.decreto # Nil
        PROVE  /\ AttoIntero(t, p.caso, r, p.decreto, "DECRETO_ACCERTAMENTO")
               /\ t[ChiaveFile("PM_LAB", p.caso, p.decreto)].ente = p.lab
    <2>1. AttoUguale(s, t, p.decreto) /\ p.decreto \in TxIds
      BY <1>1, <1>2
    <2> QED  BY <1>1, <1>2, <2>1, AttoRimane DEF AttiDi, AttoUguale
  <1>3. p.relazione # Nil => AttoIntero(t, p.caso, r, p.relazione, "RELAZIONE_TECNICA")
    BY <1>1, AttoRimane DEF AttiDi
  <1>4. p.riconsegna # Nil => AttoIntero(t, p.caso, r, p.riconsegna, "VERBALE_RICONSEGNA")
    BY <1>1, AttoRimane DEF AttiDi
  <1> QED  BY <1>2, <1>3, <1>4 DEF AttiDi

\* Exhibits are never forgotten.
LEMMA RepertiRestano ==
    ASSUME Cambiamento, NEW r \in Reperti, RepertoExists(stato, r)
    PROVE  RepertoExists(stato', r)
  <1>1. ASSUME Fermo PROVE RepertoExists(stato', r)
    BY <1>1 DEF Fermo, SchedeUguali, RepertoExists, Scheda
  <1>2. ASSUME NEW x \in Reperti, NEW priv \in RepertoPrivate, Nasce(x, priv)
        PROVE  RepertoExists(stato', r)
    BY <1>2 DEF Nasce, RepertoExists, Scheda
  <1>3. ASSUME NEW x \in Reperti, NEW q \in RepertoPublic,
               CambiaScheda(stato, stato', x, q)
        PROVE  RepertoExists(stato', r)
    BY <1>3, NilAssumption DEF CambiaScheda, RepertoExists, Scheda
  <1> QED  BY <1>1, <1>2, <1>3 DEF Cambiamento, Avanza, AvanzaConAtto

\* Changes that attach nothing keep Atti.
LEMMA SenzaAtto ==
    ASSUME Base, Atti, Cambiamento, AttiUguali(stato, stato'),
           \A r \in Reperti : RepertoExists(stato', r) =>
              \/ /\ ~RepertoExists(stato, r)
                 /\ \E priv \in RepertoPrivate : Scheda(stato', r) = SchedaNuova(priv)
              \/ RepertoExists(stato, r) /\ Simile(Scheda(stato, r), Scheda(stato', r))
    PROVE  Atti'
  <1>1. AttiNuovi'
    BY DEF Atti, AttiNuovi, AttiUguali, AttoUguale
  <1>2. \A r \in Reperti, tipo \in TipiDocumento : Allegati(r, tipo)' = Allegati(r, tipo)
    BY AllegatiUguali
  <1>3. AllegatiFiniti'
    BY <1>2, RepertiRestano DEF Atti, AllegatiFiniti
  <1>4. ASSUME NEW r \in Reperti, RepertoExists(stato', r)
        PROVE  AttiDi(stato', r, Scheda(stato', r))
    <2> DEFINE p == Scheda(stato, r)
               q == Scheda(stato', r)
    <2>1. ASSUME NEW priv \in RepertoPrivate, q = SchedaNuova(priv)
          PROVE  AttiDi(stato', r, q)
      BY <2>1 DEF AttiDi, SchedaNuova
    <2>2. ASSUME RepertoExists(stato, r), Simile(p, q)
          PROVE  AttiDi(stato', r, q)
      <3>1. p \in RepertoPublic /\ PuntatoriDi(p) /\ AttiDi(stato, r, p)
        BY <2>2, SchedaTipata, SchedeConAtti DEF Base, SchedeInOrdine, Atti, AttiDelleSchede
      <3>2. \A x \in {p.decreto, p.relazione, p.riconsegna} \ {Nil} :
                AttoUguale(stato, stato', x)
        BY <3>1 DEF AttiUguali, PuntatoriDi
      <3>3. AttiDi(stato', r, p)
        BY <3>1, <3>2, AttiDiRimane
      <3> QED  BY <2>2, <3>3 DEF AttiDi, Simile
    <2> QED  BY <1>4, <2>1, <2>2
  <1>5. PuntatoriRisolti' /\ DecretoDelLaboratorio'
    BY <1>4, SchedeConAtti DEF AttiDelleSchede
  <1>6. RelazioneConMandato'
    <2> SUFFICES ASSUME NEW r \in Reperti, NEW x \in Allegati(r, "RELAZIONE_TECNICA")'
                 PROVE  \E y \in Allegati(r, "DECRETO_ACCERTAMENTO")' :
                            stato'[ChiaveFile("PM_LAB", x[1], x[2])].ente
                                = stato'[ChiaveFile("PM_LAB", y[1], y[2])].ente
      BY DEF RelazioneConMandato
    <2>1. x \in Allegati(r, "RELAZIONE_TECNICA")
      BY <1>2 DEF TipiDocumento
    <2>2. PICK y \in Allegati(r, "DECRETO_ACCERTAMENTO") :
                stato[ChiaveFile("PM_LAB", x[1], x[2])].ente
                    = stato[ChiaveFile("PM_LAB", y[1], y[2])].ente
      BY <2>1 DEF Atti, RelazioneConMandato
    <2>3. /\ y \in Allegati(r, "DECRETO_ACCERTAMENTO")'
          /\ stato'[ChiaveFile("PM_LAB", y[1], y[2])] = stato[ChiaveFile("PM_LAB", y[1], y[2])]
          /\ stato'[ChiaveFile("PM_LAB", x[1], x[2])] = stato[ChiaveFile("PM_LAB", x[1], x[2])]
      BY <2>1, AllegatiUguali
    <2> QED  BY <2>2, <2>3
  <1>7. BilancioRiconsegne'
    <2> SUFFICES ASSUME NEW r \in Reperti, RepertoExists(stato', r)
                 PROVE  Cardinality(Allegati(r, "DECRETO_ACCERTAMENTO")')
                          = Cardinality(Allegati(r, "VERBALE_RICONSEGNA")')
                            + (IF Scheda(stato', r).stato = "SEQUESTRATO" THEN 0 ELSE 1)
      BY DEF BilancioRiconsegne, RepertiNoti
    <2>1. /\ Allegati(r, "DECRETO_ACCERTAMENTO")' = Allegati(r, "DECRETO_ACCERTAMENTO")
          /\ Allegati(r, "VERBALE_RICONSEGNA")' = Allegati(r, "VERBALE_RICONSEGNA")
      BY <1>2 DEF TipiDocumento, TipiPg
    <2>2. ASSUME ~RepertoExists(stato, r), NEW priv \in RepertoPrivate,
                 Scheda(stato', r) = SchedaNuova(priv)
          PROVE  Cardinality(Allegati(r, "DECRETO_ACCERTAMENTO"))
                    = Cardinality(Allegati(r, "VERBALE_RICONSEGNA"))
                      + (IF Scheda(stato', r).stato = "SEQUESTRATO" THEN 0 ELSE 1)
      <3>1. /\ Allegati(r, "DECRETO_ACCERTAMENTO") = {}
            /\ Allegati(r, "VERBALE_RICONSEGNA") = {}
        BY <2>2 DEF Atti, AllegatiFiniti, TipiDocumento, TipiPg
      <3>2. Scheda(stato', r).stato = "SEQUESTRATO"
        BY <2>2 DEF SchedaNuova
      <3> QED  BY <3>1, <3>2, FS_EmptySet
    <2>3. ASSUME RepertoExists(stato, r), Simile(Scheda(stato, r), Scheda(stato', r))
          PROVE  Cardinality(Allegati(r, "DECRETO_ACCERTAMENTO"))
                    = Cardinality(Allegati(r, "VERBALE_RICONSEGNA"))
                      + (IF Scheda(stato', r).stato = "SEQUESTRATO" THEN 0 ELSE 1)
      <3>1. Cardinality(Allegati(r, "DECRETO_ACCERTAMENTO"))
                    = Cardinality(Allegati(r, "VERBALE_RICONSEGNA"))
                      + (IF Scheda(stato, r).stato = "SEQUESTRATO" THEN 0 ELSE 1)
        BY <2>3 DEF Atti, BilancioRiconsegne, RepertiNoti
      <3> QED  BY <2>3, <3>1 DEF Simile
    <2> QED  BY <2>1, <2>2, <2>3
  <1> QED  BY <1>1, <1>3, <1>5, <1>6, <1>7 DEF Atti

\* The card of the exhibit a document is attached to.
LEMMA SchedaConAtto ==
    ASSUME NEW t, NEW r \in Reperti, NEW p \in RepertoPublic, NEW priv, NEW q,
           NEW tx \in TxIds, NEW a \in FilePrivate, p.caso = priv.caso,
           ConAtto(p, priv, q, tx, a), AttiDi(t, r, p),
           AttoIntero(t, p.caso, r, tx, a.tipo),
           t[ChiaveFile(pdcCollectionForTipoDocumento(a.tipo), p.caso, tx)] = a
    PROVE  AttiDi(t, r, q)
  <1>1. ASSUME a.tipo = "DECRETO_ACCERTAMENTO",
               q = [p EXCEPT !.decreto = tx, !.caso = priv.caso, !.lab = a.ente,
                             !.stato = "ATTESA_TRASPORTO"]
        PROVE  AttiDi(t, r, q)
    <2>1. /\ q.decreto = tx /\ q.caso = p.caso /\ q.lab = a.ente
          /\ q.relazione = p.relazione /\ q.riconsegna = p.riconsegna
      BY <1>1 DEF RepertoPublic
    <2>2. pdcCollectionForTipoDocumento(a.tipo) = "PM_LAB"
      BY <1>1 DEF pdcCollectionForTipoDocumento, TipiPg
    <2> QED  BY <1>1, <2>1, <2>2 DEF AttiDi
  <1>2. ASSUME a.tipo = "RELAZIONE_TECNICA",
               q = [p EXCEPT !.relazione = tx, !.stato = "ATTESA_RITIRO"]
        PROVE  AttiDi(t, r, q)
    <2>1. /\ q.relazione = tx /\ q.caso = p.caso /\ q.lab = p.lab
          /\ q.decreto = p.decreto /\ q.riconsegna = p.riconsegna
      BY <1>2 DEF RepertoPublic
    <2> QED  BY <1>2, <2>1 DEF AttiDi
  <1>3. ASSUME a.tipo = "VERBALE_RICONSEGNA",
               q = [p EXCEPT !.riconsegna = tx, !.stato = "SEQUESTRATO",
                             !.custode = priv.distretto]
        PROVE  AttiDi(t, r, q)
    <2>1. /\ q.riconsegna = tx /\ q.caso = p.caso /\ q.lab = p.lab
          /\ q.decreto = p.decreto /\ q.relazione = p.relazione
      BY <1>3 DEF RepertoPublic
    <2> QED  BY <1>3, <2>1 DEF AttiDi
  <1> QED  BY <1>1, <1>2, <1>3 DEF ConAtto

\* Changes that attach a document keep Atti.
LEMMA UnAtto ==
    ASSUME Base, Atti, Cambiamento, NEW r \in Reperti, NEW q \in RepertoPublic,
           NEW tx \in TxIds, NEW a \in FilePrivate, AvanzaConAtto(r, q, tx, a)
    PROVE  Atti'
  <1> DEFINE p == Scheda(stato, r)
             c == p.caso
  <1>0. /\ RepertoExists(stato, r) /\ TxNuova(stato, tx)
        /\ CambiaScheda(stato, stato', r, q)
        /\ Allega(stato, stato', tx, c, r, a) /\ a.caso = c /\ a.reperto = r
        /\ ConAtto(p, Privato(stato, r), q, tx, a)
        /\ a.tipo \in TipiDocumento /\ requireMSPForTipoDocumento(a.autore, a.tipo)
    BY DEF AvanzaConAtto, ConAtto
  <1>1. /\ p \in RepertoPublic /\ PuntatoriDi(p) /\ CustodiaDi(p, Privato(stato, r))
        /\ p.caso = Privato(stato, r).caso
    BY <1>0, SchedaTipata DEF Base, SchedeInOrdine, CustodiaDi
  <1>2. c \in Casi
    BY <1>1 DEF RepertoPublic
  <1> HIDE DEF p, c
  <1>3. AttiNuovi'
    <2> SUFFICES ASSUME NEW cc \in Casi, NEW x \in TxIds, stato'[ChiaveDocumento(cc, x)] = Nil
                 PROVE  /\ stato'[ChiaveFile("PG_PM", cc, x)] = Nil
                        /\ stato'[ChiaveFile("PM_LAB", cc, x)] = Nil
      BY DEF AttiNuovi
    <2>1. CASE x # tx
      <3>1. AttoUguale(stato, stato', x)
        BY <1>0, <2>1 DEF Allega
      <3> QED  BY <3>1 DEF AttoUguale, Atti, AttiNuovi
    <2>2. CASE x = tx
      <3>1. cc # c
        <4>1. [cid |-> a.chiave] \in FilePublic
          BY DEF FilePublic, FilePrivate
        <4> QED  BY <1>0, <2>2, <4>1, NilAssumption DEF Allega
      <3>2. \A pdc, pdc2 : ChiaveFile(pdc, cc, tx) # ChiaveFile(pdc2, c, tx)
        BY <3>1 DEF ChiaveFile
      <3> QED  BY <1>0, <2>2, <3>2 DEF Allega, TxNuova, Atti, AttiNuovi
    <2> QED  BY <2>1, <2>2
  <1>4. \A x \in Reperti, tipo \in TipiDocumento :
            /\ Allegati(x, tipo)' = IF x = r /\ tipo = a.tipo
                                    THEN Allegati(x, tipo) \cup {<<c, tx>>}
                                    ELSE Allegati(x, tipo)
            /\ <<c, tx>> \notin Allegati(x, tipo)
            /\ \A y \in Allegati(x, tipo) :
                stato'[ChiaveFile("PM_LAB", y[1], y[2])]
                    = stato[ChiaveFile("PM_LAB", y[1], y[2])]
    BY <1>0, <1>2, AllegatiConAtto DEF Atti
  <1>5. AllegatiFiniti'
    <2> SUFFICES ASSUME NEW x \in Reperti, NEW tipo \in TipiDocumento
                 PROVE  /\ IsFiniteSet(Allegati(x, tipo)')
                        /\ ~RepertoExists(stato', x) => Allegati(x, tipo)' = {}
      BY DEF AllegatiFiniti
    <2>1. IsFiniteSet(Allegati(x, tipo)')
      BY <1>4, FS_AddElement DEF Atti, AllegatiFiniti
    <2>2. ~RepertoExists(stato', x) => x # r /\ ~RepertoExists(stato, x)
      BY <1>0, RepertiRestano
    <2> QED  BY <1>4, <2>1, <2>2 DEF Atti, AllegatiFiniti
  <1>6. \A x \in Reperti : RepertoExists(stato, x) => AttiDi(stato', x, Scheda(stato, x))
    <2> SUFFICES ASSUME NEW x \in Reperti, RepertoExists(stato, x)
                 PROVE  AttiDi(stato', x, Scheda(stato, x))
      OBVIOUS
    <2> DEFINE o == Scheda(stato, x)
    <2>1. o \in RepertoPublic /\ PuntatoriDi(o) /\ AttiDi(stato, x, o) /\ o.caso \in Casi
      BY SchedaTipata, SchedeConAtti
         DEF Base, SchedeInOrdine, Atti, AttiDelleSchede, RepertoPublic
    <2> HIDE DEF o
    <2>2. ASSUME NEW y \in {o.decreto, o.relazione, o.riconsegna} \ {Nil}
          PROVE  AttoUguale(stato, stato', y)
      <3>1. y \in TxIds
        BY <2>1 DEF PuntatoriDi
      <3>2. \E tipo : AttoIntero(stato, o.caso, x, y, tipo)
        BY <2>1 DEF AttiDi
      <3>3. y # tx
        BY <1>0, <2>1, <3>1, <3>2, AttoNonNuovo DEF Base
      <3> QED  BY <1>0, <3>1, <3>3 DEF Allega
    <2>3. AttiDi(stato', x, o)
      BY <2>1, <2>2, AttiDiRimane
    <2> QED  BY <2>3 DEF o
  <1>7. AttiDi(stato', r, q)
    <2>1. AttoIntero(stato', c, r, tx, a.tipo)
      BY <1>0, <1>2, AttoAllegato
    <2>2. stato'[ChiaveFile(pdcCollectionForTipoDocumento(a.tipo), c, tx)] = a
      BY <1>0 DEF Allega
    <2>3. AttiDi(stato', r, p)
      BY <1>0, <1>6 DEF p
    <2> QED  BY <1>0, <1>1, <2>1, <2>2, <2>3, SchedaConAtto DEF c
  <1>8. PuntatoriRisolti' /\ DecretoDelLaboratorio'
    <2>1. AttiDelleSchede(stato')
      BY <1>0, <1>6, <1>7 DEF AttiDelleSchede, CambiaScheda, RepertoExists, Scheda
    <2> QED  BY <2>1, SchedeConAtti
  <1>9. RelazioneConMandato'
    <2> SUFFICES ASSUME NEW z \in Reperti, NEW x \in Allegati(z, "RELAZIONE_TECNICA")'
                 PROVE  \E y \in Allegati(z, "DECRETO_ACCERTAMENTO")' :
                            stato'[ChiaveFile("PM_LAB", x[1], x[2])].ente
                                = stato'[ChiaveFile("PM_LAB", y[1], y[2])].ente
      BY DEF RelazioneConMandato
    <2>1. ASSUME x \in Allegati(z, "RELAZIONE_TECNICA")
          PROVE  \E y \in Allegati(z, "DECRETO_ACCERTAMENTO")' :
                    stato'[ChiaveFile("PM_LAB", x[1], x[2])].ente
                        = stato'[ChiaveFile("PM_LAB", y[1], y[2])].ente
      <3>1. PICK y \in Allegati(z, "DECRETO_ACCERTAMENTO") :
                stato[ChiaveFile("PM_LAB", x[1], x[2])].ente
                    = stato[ChiaveFile("PM_LAB", y[1], y[2])].ente
        BY <2>1 DEF Atti, RelazioneConMandato
      <3>2. /\ y \in Allegati(z, "DECRETO_ACCERTAMENTO")'
            /\ stato'[ChiaveFile("PM_LAB", y[1], y[2])]
                = stato[ChiaveFile("PM_LAB", y[1], y[2])]
            /\ stato'[ChiaveFile("PM_LAB", x[1], x[2])]
                = stato[ChiaveFile("PM_LAB", x[1], x[2])]
        BY <1>4, <2>1 DEF TipiDocumento
      <3> QED  BY <3>1, <3>2
    <2>2. ASSUME x \notin Allegati(z, "RELAZIONE_TECNICA")
          PROVE  \E y \in Allegati(z, "DECRETO_ACCERTAMENTO")' :
                    stato'[ChiaveFile("PM_LAB", x[1], x[2])].ente
                        = stato'[ChiaveFile("PM_LAB", y[1], y[2])].ente
      <3>1. z = r /\ a.tipo = "RELAZIONE_TECNICA" /\ x = <<c, tx>>
        BY <1>4, <2>2 DEF TipiDocumento
      <3>2. p.stato = "IN_ANALISI" /\ a.ente = p.custode
        BY <1>0, <3>1 DEF ConAtto
      <3>3. a.ente = p.lab /\ p.decreto # Nil /\ p.decreto \in TxIds
        BY <1>1, <3>2 DEF CustodiaDi, PuntatoriDi
      <3>4. stato'[ChiaveFile("PM_LAB", c, tx)] = a
        BY <1>0, <3>1 DEF Allega, pdcCollectionForTipoDocumento, TipiPg
      <3>5. /\ AttoIntero(stato', c, r, p.decreto, "DECRETO_ACCERTAMENTO")
            /\ stato'[ChiaveFile("PM_LAB", c, p.decreto)].ente = p.lab
        <4>1. AttiDi(stato', r, p)
          BY <1>0, <1>6 DEF p
        <4> QED  BY <3>3, <4>1 DEF AttiDi, c
      <3>6. <<c, p.decreto>> \in Allegati(r, "DECRETO_ACCERTAMENTO")'
        <4> DEFINE y == p.decreto
        <4>1. y \in TxIds
          BY <3>3
        <4> HIDE DEF y
        <4>2. AttoIntero(stato', c, r, y, "DECRETO_ACCERTAMENTO")
          BY <3>5 DEF y
        <4>3. <<c, y>> \in Allegati(r, "DECRETO_ACCERTAMENTO")'
          BY <1>2, <4>1, <4>2 DEF Allegati, AttoIntero
        <4> QED  BY <4>3 DEF y
      <3> QED  BY <3>1, <3>3, <3>4, <3>5, <3>6
    <2> QED  BY <2>1, <2>2
  <1>10. BilancioRiconsegne'
    <2> SUFFICES ASSUME NEW x \in Reperti, RepertoExists(stato', x)
                 PROVE  Cardinality(Allegati(x, "DECRETO_ACCERTAMENTO")')
                          = Cardinality(Allegati(x, "VERBALE_RICONSEGNA")')
                            + (IF Scheda(stato', x).stato = "SEQUESTRATO" THEN 0 ELSE 1)
      BY DEF BilancioRiconsegne, RepertiNoti
    <2> DEFINE D == Allegati(x, "DECRETO_ACCERTAMENTO")
               V == Allegati(x, "VERBALE_RICONSEGNA")
    <2>1. RepertoExists(stato, x)
      BY <1>0 DEF CambiaScheda, RepertoExists, Scheda
    <2>2. /\ Cardinality(D) = Cardinality(V)
                + (IF Scheda(stato, x).stato = "SEQUESTRATO" THEN 0 ELSE 1)
          /\ IsFiniteSet(D) /\ IsFiniteSet(V)
      BY <2>1 DEF Atti, BilancioRiconsegne, RepertiNoti, AllegatiFiniti, TipiDocumento, TipiPg
    <2>3. /\ D' = IF x = r /\ a.tipo = "DECRETO_ACCERTAMENTO" THEN D \cup {<<c, tx>>} ELSE D
          /\ V' = IF x = r /\ a.tipo = "VERBALE_RICONSEGNA" THEN V \cup {<<c, tx>>} ELSE V
          /\ <<c, tx>> \notin D /\ <<c, tx>> \notin V
      BY <1>4 DEF TipiDocumento, TipiPg
    <2> HIDE DEF D, V
    <2>4. /\ Cardinality(D \cup {<<c, tx>>}) = Cardinality(D) + 1
          /\ Cardinality(V \cup {<<c, tx>>}) = Cardinality(V) + 1
          /\ Cardinality(D) \in Nat /\ Cardinality(V) \in Nat
      BY <2>2, <2>3, FS_AddElement, FS_CardinalityType
    <2>5. CASE x # r
      BY <1>0, <2>2, <2>3, <2>5 DEF D, V, CambiaScheda
    <2>6. CASE x = r
      <3>1. Scheda(stato', x) = q /\ Scheda(stato, x) = p
        BY <1>0, <2>6 DEF CambiaScheda, p
      <3>2. ASSUME a.tipo = "DECRETO_ACCERTAMENTO", p.stato = "SEQUESTRATO",
                   q.stato = "ATTESA_TRASPORTO"
            PROVE  Cardinality(D') = Cardinality(V')
                        + (IF Scheda(stato', x).stato = "SEQUESTRATO" THEN 0 ELSE 1)
        BY <2>2, <2>3, <2>4, <2>6, <3>1, <3>2
      <3>3. ASSUME a.tipo = "RELAZIONE_TECNICA", p.stato = "IN_ANALISI",
                   q.stato = "ATTESA_RITIRO"
            PROVE  Cardinality(D') = Cardinality(V')
                        + (IF Scheda(stato', x).stato = "SEQUESTRATO" THEN 0 ELSE 1)
        BY <2>2, <2>3, <2>4, <2>6, <3>1, <3>3
      <3>4. ASSUME a.tipo = "VERBALE_RICONSEGNA", p.stato = "IN_TRANSITO",
                   q.stato = "SEQUESTRATO"
            PROVE  Cardinality(D') = Cardinality(V')
                        + (IF Scheda(stato', x).stato = "SEQUESTRATO" THEN 0 ELSE 1)
        BY <2>2, <2>3, <2>4, <2>6, <3>1, <3>4
      <3>5. \/ /\ a.tipo = "DECRETO_ACCERTAMENTO" /\ p.stato = "SEQUESTRATO"
               /\ q.stato = "ATTESA_TRASPORTO"
            \/ /\ a.tipo = "RELAZIONE_TECNICA" /\ p.stato = "IN_ANALISI"
               /\ q.stato = "ATTESA_RITIRO"
            \/ /\ a.tipo = "VERBALE_RICONSEGNA" /\ p.stato = "IN_TRANSITO"
               /\ q.stato = "SEQUESTRATO"
        BY <1>0, <1>1 DEF ConAtto, RepertoPublic
      <3> QED  BY <3>2, <3>3, <3>4, <3>5 DEF D, V
    <2> QED  BY <2>5, <2>6
  <1> QED  BY <1>3, <1>5, <1>8, <1>9, <1>10 DEF Atti

\* The cards after a change that attaches nothing are as SenzaAtto wants them.
LEMMA SchedeSenzaAtto ==
    ASSUME Base, NEW x \in Reperti, RepertoExists(stato', x),
           \/ Fermo
           \/ \E r \in Reperti, priv \in RepertoPrivate : Nasce(r, priv)
           \/ \E r \in Reperti, q \in RepertoPublic : Avanza(r, q)
    PROVE  /\ AttiUguali(stato, stato')
           /\ \/ /\ ~RepertoExists(stato, x)
                 /\ \E priv \in RepertoPrivate : Scheda(stato', x) = SchedaNuova(priv)
              \/ RepertoExists(stato, x) /\ Simile(Scheda(stato, x), Scheda(stato', x))
  <1> DEFINE Bene == /\ AttiUguali(stato, stato')
                     /\ \/ /\ ~RepertoExists(stato, x)
                           /\ \E priv \in RepertoPrivate : Scheda(stato', x) = SchedaNuova(priv)
                        \/ /\ RepertoExists(stato, x)
                           /\ Simile(Scheda(stato, x), Scheda(stato', x))
  <1>1. ASSUME AttiUguali(stato, stato'), Scheda(stato', x) = Scheda(stato, x)
        PROVE  Bene
    BY <1>1 DEF RepertoExists, Scheda, Simile
  <1>2. CASE Fermo
    BY <1>1, <1>2 DEF Fermo, SchedeUguali
  <1>3. ASSUME NEW r \in Reperti, NEW priv \in RepertoPrivate, Nasce(r, priv)
        PROVE  Bene
    <2>1. CASE x = r
      BY <1>3, <2>1 DEF Nasce
    <2>2. CASE x # r
      BY <1>1, <1>3, <2>2 DEF Nasce
    <2> QED  BY <2>1, <2>2
  <1>4. ASSUME NEW r \in Reperti, NEW q \in RepertoPublic, Avanza(r, q)
        PROVE  Bene
    <2>1. CASE x # r
      BY <1>1, <1>4, <2>1 DEF Avanza, CambiaScheda
    <2>2. CASE x = r
      <3> DEFINE p == Scheda(stato, r)
      <3>1. /\ Scheda(stato', x) = q /\ AttiUguali(stato, stato')
            /\ RepertoExists(stato, x) /\ p \in RepertoPublic /\ Semplice(p, q)
        BY <1>4, <2>2, SchedaTipata DEF Avanza, CambiaScheda, Base
      <3> HIDE DEF p
      <3>2. Simile(p, q)
        BY <3>1 DEF Semplice, Simile, RepertoPublic
      <3> QED  BY <2>2, <3>1, <3>2 DEF p
    <2> QED  BY <2>1, <2>2
  <1> QED  BY <1>2, <1>3, <1>4

\* Nothing is attached on the empty ledger.
LEMMA InizioAtti == Init => Atti
  <1> SUFFICES ASSUME Init PROVE Atti
    OBVIOUS
  <1>1. /\ \A r \in Reperti : ~RepertoExists(stato, r)
        /\ \A c \in Casi, tx \in TxIds, pdc \in {"PG_PM", "PM_LAB"} :
                stato[ChiaveFile(pdc, c, tx)] = Nil
    BY ValoriDelleChiavi DEF Init, RegistroVuoto, RepertoExists, Id, IdAtto
  <1>2. \A r \in Reperti : \A tipo : Allegati(r, tipo) = {}
    BY <1>1 DEF Allegati, pdcCollectionForTipoDocumento
  <1>3. AttiNuovi /\ PuntatoriRisolti /\ DecretoDelLaboratorio /\ BilancioRiconsegne
    BY <1>1 DEF AttiNuovi, PuntatoriRisolti, DecretoDelLaboratorio, BilancioRiconsegne,
                RepertiNoti
  <1>4. AllegatiFiniti /\ RelazioneConMandato
    BY <1>2, FS_EmptySet DEF AllegatiFiniti, RelazioneConMandato
  <1> QED  BY <1>3, <1>4 DEF Atti

\* Atti is inductive, given Base.
LEMMA PassoAtti == Base /\ Base' /\ Cambiamento /\ Atti => Atti'
  <1> SUFFICES ASSUME Base, Cambiamento, Atti PROVE Atti'
    OBVIOUS
  <1>1. ASSUME NEW r \in Reperti, NEW q \in RepertoPublic, NEW tx \in TxIds,
               NEW a \in FilePrivate, AvanzaConAtto(r, q, tx, a)
        PROVE  Atti'
    BY <1>1, UnAtto
  <1>2. ASSUME \/ Fermo
               \/ \E r \in Reperti, priv \in RepertoPrivate : Nasce(r, priv)
               \/ \E r \in Reperti, q \in RepertoPublic : Avanza(r, q)
        PROVE  Atti'
    <2>1. AttiUguali(stato, stato')
      BY <1>2 DEF Fermo, Nasce, Avanza
    <2> QED  BY <1>2, <2>1, SchedeSenzaAtto, SenzaAtto
  <1> QED  BY <1>1, <1>2 DEF Cambiamento

\* Atti holds in every reachable state.
LEMMA AttiSempre == Spec => []Atti
  <1>1. UNCHANGED stato => Cambiamento
    BY DEF Cambiamento, Fermo, SchedeUguali, AttiUguali, AttoUguale
  <1> QED  BY <1>1, InizioAtti, PassoAtti, BaseSempre, PTL DEF Spec

\* The decree, report and return ids on a card always lead to the complete
\* document they name.
THEOREM PuntatoriSempreRisolti == Spec => []PuntatoriRisolti
  <1>1. Atti => PuntatoriRisolti
    BY DEF Atti
  <1> QED  BY <1>1, AttiSempre, PTL

\* Every report CompletaAnalisi attached is by a laboratory a decree for that
\* very exhibit had appointed, in whichever cycle.  (A report LAB registers with
\* RegistraDocumento needs no decree and names no laboratory.)
THEOREM RelazioneSempreConMandato == Spec => []RelazioneConMandato
  <1>1. Atti => RelazioneConMandato
    BY DEF Atti
  <1> QED  BY <1>1, AttiSempre, PTL

\* Decrees and returns balance over any number of cycles.
THEOREM BilancioSempre == Spec => []BilancioRiconsegne
  <1>1. Atti => BilancioRiconsegne
    BY DEF Atti
  <1> QED  BY <1>1, AttiSempre, PTL
=============================================================================
