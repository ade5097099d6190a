------------------------------ MODULE Contratto -----------------------------
(***************************************************************************)
(* The chaincode, one transaction function at a time, as pure operators on *)
(* a ledger s:                                                             *)
(*                                                                         *)
(*   AmmetteF(s, ...)   the checks of F pass: it returns no error          *)
(*   LetturaF(s, ...)   the keys F reads (Fabric validates them at commit) *)
(*   ScritturaF(s, ...) the writes of F, a map from keys to values         *)
(*                                                                         *)
(* msp is the organisation of the client, tx the id of the transaction, f  *)
(* the file (CID, key) being registered.  Arguments the contract wants     *)
(* non-empty range over sets without Nil; a document or an evidence        *)
(* without exhibit has r = Nil.  A write function is used only where its   *)
(* Ammette holds.                                                          *)
(*                                                                         *)
(* An operator with a name F_... is F with a plausible slip.  No behaviour *)
(* uses it: put in F's place, it shows which property would catch it.      *)
(***************************************************************************)
EXTENDS Registro

-----------------------------------------------------------------------------
(* Tables on the type of a document.                                       *)

\* Seizure reports go where the laboratory reads.
pdcCollectionForTipoDocumento_Sequestro(tipo) ==
    IF tipo = "VERBALE_SOPRALLUOGO" THEN "PG_PM" ELSE "PM_LAB"

pdcCollectionForTipoDocumento(tipo) ==
    IF tipo \in TipiPg THEN "PG_PM" ELSE "PM_LAB"

requireMSPForTipoDocumento(msp, tipo) ==
    \/ tipo \in TipiPg /\ msp = "PGMSP"
    \/ tipo = "DECRETO_ACCERTAMENTO" /\ msp = "PMMSP"
    \/ tipo = "RELAZIONE_TECNICA" /\ msp = "LABMSP"

\* A site-survey report belongs to the case; a seizure report may be
\* registered with or without its exhibit; the others need one.
validateDocumentoShape(tipo, r) ==
    /\ tipo = "VERBALE_SOPRALLUOGO" => r = Nil
    /\ tipo \notin {"VERBALE_SOPRALLUOGO", "VERBALE_SEQUESTRO"} => r # Nil

-----------------------------------------------------------------------------
(* Exhibits.                                                               *)

RepertoExists(s, r) == s[ChiaveReperto(r)] # Nil

\* loadRepertoPublic and loadRepertoPrivateMandatory, where they succeed.
Scheda(s, r) == s[ChiaveReperto(r)]
Privato(s, r) == s[ChiavePrivatoReperto(r)]

SalvaScheda(r, p) == Scrivi(ChiaveReperto(r), p)

\* A card without a state counts as seized.
statoEffettivoReperto(p) == IF p.stato = Nil THEN "SEQUESTRATO" ELSE p.stato

InStato(s, r, stati) ==
    RepertoExists(s, r) /\ statoEffettivoReperto(Scheda(s, r)) \in stati

AmmetteCreaReperto(s, msp, r) ==
    /\ msp = "PGMSP"
    /\ ~RepertoExists(s, r)

LetturaCreaReperto(r) == {ChiaveReperto(r)}

\* The case is left out of the public card.
SchedaNuova_SenzaCaso(priv) ==
    [stato |-> "SEQUESTRATO", custode |-> priv.distretto, caso |-> Nil,
     lab |-> Nil, verbale |-> Nil, decreto |-> Nil, relazione |-> Nil,
     riconsegna |-> Nil]

\* The card of an exhibit just seized.
SchedaNuova(priv) ==
    [stato |-> "SEQUESTRATO", custode |-> priv.distretto, caso |-> priv.caso,
     lab |-> Nil, verbale |-> Nil, decreto |-> Nil, relazione |-> Nil,
     riconsegna |-> Nil]

ScritturaCreaReperto(r, priv) ==
    Scrivi(ChiavePrivatoReperto(r), priv) ++ SalvaScheda(r, SchedaNuova(priv))

-----------------------------------------------------------------------------
(* Documents.                                                              *)

\* The public part is forgotten.
putDocumento_SenzaPubblico(c, d, f, priv) ==
    Scrivi(ChiaveFile(pdcCollectionForTipoDocumento(priv.tipo), c, d), priv)
    ++ (IF priv.reperto = Nil THEN Niente
        ELSE Scrivi(ChiaveDocRep(priv.reperto, d), [caso |-> c]))

\* The index entry is forgotten.
putDocumento_SenzaIndice(c, d, f, priv) ==
    Scrivi(ChiaveDocumento(c, d), [cid |-> f])
    ++ Scrivi(ChiaveFile(pdcCollectionForTipoDocumento(priv.tipo), c, d), priv)

putDocumento(c, d, f, priv) ==
    Scrivi(ChiaveDocumento(c, d), [cid |-> f])
    ++ Scrivi(ChiaveFile(pdcCollectionForTipoDocumento(priv.tipo), c, d), priv)
    ++ (IF priv.reperto = Nil THEN Niente
        ELSE Scrivi(ChiaveDocRep(priv.reperto, d), [caso |-> c]))

\* The first seizure report registered for an exhibit becomes its verbale.
aggiornaPuntatoreDocumentoSuReperto(s, r, d, tipo) ==
    IF r = Nil \/ tipo # "VERBALE_SEQUESTRO" THEN Niente
    ELSE SalvaScheda(r, IF Scheda(s, r).verbale = Nil
                        THEN [Scheda(s, r) EXCEPT !.verbale = d]
                        ELSE Scheda(s, r))

\* documentoExists is not asked.
AmmetteRegistraDocumento_Ripetibile(s, msp, d, c, tipo, r) ==
    /\ requireMSPForTipoDocumento(msp, tipo)
    /\ validateDocumentoShape(tipo, r)
    /\ r # Nil => RepertoExists(s, r)

AmmetteRegistraDocumento(s, msp, d, c, tipo, r) ==
    /\ s[ChiaveDocumento(c, d)] = Nil
    /\ requireMSPForTipoDocumento(msp, tipo)
    /\ validateDocumentoShape(tipo, r)
    /\ r # Nil => RepertoExists(s, r)

\* The existence of the document is decided without reading it.
LetturaRegistraDocumento_SenzaEsistenza(d, c, r) ==
    IF r = Nil THEN {} ELSE {ChiaveReperto(r)}

\* The card is taken from elsewhere than the ledger: a stale one is written.
LetturaRegistraDocumento_SenzaScheda(d, c, r) == {ChiaveDocumento(c, d)}

LetturaRegistraDocumento(d, c, r) ==
    {ChiaveDocumento(c, d)} \cup (IF r = Nil THEN {} ELSE {ChiaveReperto(r)})

\* The organisation the caller refers to (riferimentoEnte) is free text no
\* other code reads: the record of a registered document has Nil for it.
ScritturaRegistraDocumento(s, msp, d, c, tipo, r, f) ==
    putDocumento(c, d, f, [caso |-> c, reperto |-> r, tipo |-> tipo,
                           autore |-> msp, ente |-> Nil, chiave |-> f])
    ++ aggiornaPuntatoreDocumentoSuReperto(s, r, d, tipo)

\* The document a workflow step attaches: its id is the transaction's, and
\* none of the three types attached this way touches the verbale pointer.
registraDocumentoAllegato(tx, msp, c, r, tipo, f, ente) ==
    putDocumento(c, tx, f, [caso |-> c, reperto |-> r, tipo |-> tipo,
                            autore |-> msp, ente |-> ente, chiave |-> f])

-----------------------------------------------------------------------------
(* Evidence files, always in collezione_PG_PM.                             *)

\* evidenzaExists is not asked.
AmmetteRegistraEvidenza_Ripetibile(s, msp, e, c, r) ==
    /\ msp = "PGMSP"
    /\ r # Nil => RepertoExists(s, r)

AmmetteRegistraEvidenza(s, msp, e, c, r) ==
    /\ msp = "PGMSP"
    /\ s[ChiaveEvidenza(c, e)] = Nil
    /\ r # Nil => RepertoExists(s, r)

LetturaRegistraEvidenza(e, c, r) ==
    {ChiaveEvidenza(c, e)} \cup (IF r = Nil THEN {} ELSE {ChiaveReperto(r)})

ScritturaRegistraEvidenza(msp, e, c, r, f) ==
    Scrivi(ChiaveEvidenza(c, e), [cid |-> f])
    ++ Scrivi(ChiaveFile("PG_PM", c, e),
              [caso |-> c, reperto |-> r, tipo |-> Nil, autore |-> msp,
               ente |-> Nil, chiave |-> f])
    ++ (IF r = Nil THEN Niente ELSE Scrivi(ChiaveEviRep(r, e), [caso |-> c]))

-----------------------------------------------------------------------------
(* The life cycle of an exhibit.                                           *)

\* Where copyVerbaleSequestroVersoPMLab reads, and writes in the other
\* collection.
ChiaveVerbale(s, r, pdc) ==
    ChiaveFile(pdc, Privato(s, r).caso, Scheda(s, r).verbale)

\* A second decree is accepted while the exhibit waits for its transport.
AmmetteRichiediAnalisi_Ripetibile(s, msp, r) ==
    /\ msp = "PMMSP"
    /\ InStato(s, r, {"SEQUESTRATO", "ATTESA_TRASPORTO"})
    /\ Privato(s, r) # Nil
    /\ Privato(s, r).caso # Nil
    /\ Scheda(s, r).verbale # Nil
    /\ s[ChiaveVerbale(s, r, "PG_PM")] # Nil

AmmetteRichiediAnalisi(s, msp, r) ==
    /\ msp = "PMMSP"
    /\ InStato(s, r, {"SEQUESTRATO"})
    /\ Privato(s, r) # Nil
    /\ Privato(s, r).caso # Nil
    /\ Scheda(s, r).verbale # Nil
    /\ s[ChiaveVerbale(s, r, "PG_PM")] # Nil

LetturaRichiediAnalisi(s, r) ==
    {ChiaveReperto(r), ChiavePrivatoReperto(r), ChiaveVerbale(s, r, "PG_PM")}

\* The seizure report is not copied.
ScritturaRichiediAnalisi_SenzaVerbale(s, tx, msp, r, lab, f) ==
    registraDocumentoAllegato(tx, msp, Privato(s, r).caso, r,
                              "DECRETO_ACCERTAMENTO", f, lab)
    ++ Scrivi(ChiavePrivatoPmLab(r), Privato(s, r))
    ++ SalvaScheda(r, [Scheda(s, r) EXCEPT
                         !.decreto = tx, !.caso = Privato(s, r).caso,
                         !.lab = lab, !.stato = "ATTESA_TRASPORTO"])

\* The decree is filed but not linked to the exhibit.
ScritturaRichiediAnalisi_SenzaDecreto(s, tx, msp, r, lab, f) ==
    registraDocumentoAllegato(tx, msp, Privato(s, r).caso, r,
                              "DECRETO_ACCERTAMENTO", f, lab)
    ++ Scrivi(ChiavePrivatoPmLab(r), Privato(s, r))
    ++ Scrivi(ChiaveVerbale(s, r, "PM_LAB"), s[ChiaveVerbale(s, r, "PG_PM")])
    ++ SalvaScheda(r, [Scheda(s, r) EXCEPT
                         !.caso = Privato(s, r).caso,
                         !.lab = lab, !.stato = "ATTESA_TRASPORTO"])

ScritturaRichiediAnalisi(s, tx, msp, r, lab, f) ==
    registraDocumentoAllegato(tx, msp, Privato(s, r).caso, r,
                              "DECRETO_ACCERTAMENTO", f, lab)
    ++ Scrivi(ChiavePrivatoPmLab(r), Privato(s, r))
    ++ Scrivi(ChiaveVerbale(s, r, "PM_LAB"), s[ChiaveVerbale(s, r, "PG_PM")])
    ++ SalvaScheda(r, [Scheda(s, r) EXCEPT
                         !.decreto = tx, !.caso = Privato(s, r).caso,
                         !.lab = lab, !.stato = "ATTESA_TRASPORTO"])

\* PG may carry a seized exhibit away without a request.
AmmetteAvviaTrasporto_SenzaRichiesta(s, msp, r) ==
    /\ msp = "PGMSP"
    /\ InStato(s, r, {"SEQUESTRATO", "ATTESA_TRASPORTO", "ATTESA_RITIRO"})

AmmetteAvviaTrasporto(s, msp, r) ==
    /\ msp = "PGMSP"
    /\ InStato(s, r, {"ATTESA_TRASPORTO", "ATTESA_RITIRO"})

LetturaScheda(r) == {ChiaveReperto(r)}

ScritturaAvviaTrasporto(s, r, agente) ==
    SalvaScheda(r, [Scheda(s, r) EXCEPT !.stato = "IN_TRANSITO",
                                        !.custode = agente])

\* Any laboratory may receive the exhibit.
AmmetteRiceviInLaboratorio_Qualsiasi(s, msp, r, lab) ==
    /\ msp = "LABMSP"
    /\ InStato(s, r, {"IN_TRANSITO"})
    /\ Scheda(s, r).caso # Nil
    /\ Scheda(s, r).decreto # Nil
    /\ Scheda(s, r).lab # Nil

AmmetteRiceviInLaboratorio(s, msp, r, lab) ==
    /\ msp = "LABMSP"
    /\ InStato(s, r, {"IN_TRANSITO"})
    /\ Scheda(s, r).caso # Nil
    /\ Scheda(s, r).decreto # Nil
    /\ Scheda(s, r).lab # Nil
    /\ Scheda(s, r).lab = lab

ScritturaRiceviInLaboratorio(s, r, lab) ==
    SalvaScheda(r, [Scheda(s, r) EXCEPT !.stato = "IN_ANALISI",
                                        !.custode = lab])

AmmetteCompletaAnalisi(s, msp, r) ==
    /\ msp = "LABMSP"
    /\ InStato(s, r, {"IN_ANALISI"})
    /\ Scheda(s, r).custode # Nil
    /\ Scheda(s, r).caso # Nil

ScritturaCompletaAnalisi(s, tx, msp, r, f) ==
    registraDocumentoAllegato(tx, msp, Scheda(s, r).caso, r,
                              "RELAZIONE_TECNICA", f, Scheda(s, r).custode)
    ++ SalvaScheda(r, [Scheda(s, r) EXCEPT !.relazione = tx,
                                           !.stato = "ATTESA_RITIRO"])

\* Writes nothing: the step is a check that LAB may run at any time.
AmmettePreparaRiconsegna(s, msp, r) ==
    /\ msp = "LABMSP"
    /\ InStato(s, r, {"ATTESA_RITIRO"})

\* The case of the card, or that of the private data.
CasoDelReperto(s, r) ==
    IF Scheda(s, r).caso # Nil THEN Scheda(s, r).caso ELSE Privato(s, r).caso

AmmetteDepositaInSede(s, msp, r) ==
    /\ msp = "PGMSP"
    /\ InStato(s, r, {"IN_TRANSITO"})
    /\ Privato(s, r) # Nil
    /\ Privato(s, r).distretto # Nil
    /\ CasoDelReperto(s, r) # Nil

LetturaDepositaInSede(r) == {ChiaveReperto(r), ChiavePrivatoReperto(r)}

\* The exhibit is back, the agent that carried it remains its custodian.
ScritturaDepositaInSede_SenzaCustode(s, tx, msp, r, f) ==
    registraDocumentoAllegato(tx, msp, CasoDelReperto(s, r), r,
                              "VERBALE_RICONSEGNA", f, Privato(s, r).distretto)
    ++ SalvaScheda(r, [Scheda(s, r) EXCEPT
                         !.riconsegna = tx, !.stato = "SEQUESTRATO"])

ScritturaDepositaInSede(s, tx, msp, r, f) ==
    registraDocumentoAllegato(tx, msp, CasoDelReperto(s, r), r,
                              "VERBALE_RICONSEGNA", f, Privato(s, r).distretto)
    ++ SalvaScheda(r, [Scheda(s, r) EXCEPT
                         !.riconsegna = tx, !.stato = "SEQUESTRATO",
                         !.custode = Privato(s, r).distretto])
=============================================================================
