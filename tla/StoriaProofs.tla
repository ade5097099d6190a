---------------------------- MODULE StoriaProofs ----------------------------
(***************************************************************************)
(* Proofs about the histories the peers keep, for every value of the       *)
(* constants and whatever calls are in flight.                             *)
(***************************************************************************)
EXTENDS Storia, FabricProofs, FiniteSetTheorems, SequenceTheorems

-----------------------------------------------------------------------------
(* Documents and evidence.                                                 *)

\* A step of Storia is a step of Fabric.
LEMMA StoriaSegueFabric ==
    /\ InitStoria => Init
    /\ [NextStoria]_varsStoria => [Next]_vars
  BY DEF InitStoria, NextStoria, varsStoria, Next

\* With the histories the calls in flight are still as they were.
LEMMA StoriaFabric == SpecStoria => Spec
  BY StoriaSegueFabric, PTL DEF SpecStoria, Spec

\* The histories h of documents and evidence are what ledger s holds.
UnaVoce(s, h) ==
    \A x \in ChiaviPubbliche : x[1] \in {"DOC", "EVI"} =>
        h[x] = IF s[x] = Nil THEN <<>>
               ELSE <<[tx |-> IF x[3] \in TxIds THEN x[3] ELSE Nil, valore |-> s[x]]>>

\* A call that registers x does it for the first time, and under the id of its
\* transaction if x has one.
LEMMA RegistraUnaVolta ==
    ASSUME InvFabric, NEW k \in Canali, Conferma(k), NEW x \in Registrati(volo[k].scritture)
    PROVE  /\ x \in Chiavi /\ stato[x] = Nil
           /\ stato'[x] = volo[k].scritture[x] /\ stato'[x] # Nil
           /\ volo[k].tx = IF x[3] \in TxIds THEN x[3] ELSE Nil
  <1> DEFINE tx == volo[k].tx
             w == volo[k].scritture
  <1>1. /\ ChiamataInVolo(stato, volo[k]) /\ Vale(stato, tx, volo[k].letture, w)
        /\ stato' = stato ++ w
    BY DEF Conferma, InvFabric, ChiamataInVolo
  <1>2. Tipato(stato) /\ Tipata(w) /\ (tx # Nil => Assente(stato, tx))
    BY <1>1, BaseNota DEF InvFabric, ChiamataInVolo
  <1>3. x \in DOMAIN w /\ x \in Chiavi /\ w[x] \in ValoriDi(x)
    BY <1>2 DEF Registrati, Tipata
  <1>4. stato'[x] = w[x] /\ w[x] # Nil
    <2>1. ValoriDi(x) = FilePublic
      BY DEF Registrati, ValoriDi
    <2> QED  BY <1>1, <1>2, <1>3, <2>1, DopoScritture, NilAssumption
  <1>5. \/ tx = Nil /\ stato[x] = Nil /\ x[3] \in IdDocumenti \cup IdEvidenze
        \/ tx \in TxIds /\ \E c \in Casi : x = ChiaveDocumento(c, tx)
    BY <1>1, <1>2, ValeRegistra DEF Vale
  <1>6. CASE tx = Nil
    BY <1>3, <1>4, <1>5, <1>6, NilAssumption, IdAssumption
  <1>7. CASE tx # Nil
    BY <1>2, <1>3, <1>4, <1>5, <1>7 DEF Assente, ChiaveDocumento
  <1> QED  BY <1>6, <1>7

\* A step keeps the histories of documents and evidence in line.
LEMMA PassoUnaVoce ==
    InvFabric /\ UnaVoce(stato, storia) /\ [NextStoria]_varsStoria => UnaVoce(stato', storia')
  <1> SUFFICES ASSUME InvFabric, UnaVoce(stato, storia), [NextStoria]_varsStoria
               PROVE  UnaVoce(stato', storia')
    OBVIOUS
  <1>1. ASSUME NEW k \in Canali, Chiamata(k) \/ Scarta(k), UNCHANGED storia
        PROVE  UnaVoce(stato', storia')
    BY <1>1, PassoChiamata, PassoScarta
  <1>2. ASSUME NEW k \in Canali, Conferma(k), Annota(k)
        PROVE  UnaVoce(stato', storia')
    <2> DEFINE w == volo[k].scritture
    <2> SUFFICES ASSUME NEW x \in ChiaviPubbliche, x[1] \in {"DOC", "EVI"}
                 PROVE  storia'[x] = IF stato'[x] = Nil THEN <<>>
                                     ELSE <<[tx |-> IF x[3] \in TxIds THEN x[3] ELSE Nil,
                                             valore |-> stato'[x]]>>
      BY DEF UnaVoce
    <2>1. x \in Chiavi /\ storia'[x] = IF x \in DOMAIN w
                                       THEN Append(storia[x], [tx |-> volo[k].tx, valore |-> w[x]])
                                       ELSE storia[x]
      BY <1>2 DEF Annota, ChiaviPubbliche
    <2>2. CASE x \in DOMAIN w
      <3>1. x \in Registrati(w)
        BY <2>2 DEF Registrati
      <3>2. /\ stato[x] = Nil /\ stato'[x] = w[x] /\ stato'[x] # Nil
            /\ volo[k].tx = IF x[3] \in TxIds THEN x[3] ELSE Nil
        BY <1>2, <3>1, RegistraUnaVolta
      <3>3. storia[x] = <<>>
        BY <3>2 DEF UnaVoce
      <3> QED  BY <2>1, <2>2, <3>2, <3>3
    <2>3. CASE x \notin DOMAIN w
      <3>1. stato' = stato ++ w /\ Tipato(stato) /\ Tipata(w)
        BY <1>2, BaseNota DEF Conferma, InvFabric, ChiamataInVolo
      <3>2. stato'[x] = stato[x]
        BY <2>1, <2>3, <3>1, DopoScritture
      <3> QED  BY <2>1, <2>3, <3>2 DEF UnaVoce
    <2> QED  BY <2>2, <2>3
  <1>3. CASE UNCHANGED varsStoria
    BY <1>3 DEF varsStoria, vars
  <1> QED  BY <1>1, <1>2, <1>3 DEF NextStoria

\* A history of at most one entry reads the same from both ends.
LEMMA RovesciaUna == Reverse(<<>>) = <<>> /\ \A v : Reverse(<<v>>) = <<v>>
  BY DEF Reverse

\* The history of a document or an evidence is its registration and nothing
\* else, however many registrations of it were in flight.
THEOREM StoriaSempreUnica == SpecStoria => []StoriaUnica
  <1>1. InitStoria => UnaVoce(stato, storia)
    BY DEF InitStoria, Init, UnaVoce, RegistroVuoto, ChiaviPubbliche
  <1>2. SpecStoria => []UnaVoce(stato, storia)
    <2>1. InvFabric /\ UnaVoce(stato, storia) /\ [NextStoria]_varsStoria => UnaVoce(stato, storia)'
      BY PassoUnaVoce
    <2> QED  BY <1>1, <2>1, StoriaFabric, FabricSempre, PTL DEF SpecStoria
  <1>3. ASSUME UnaVoce(stato, storia) PROVE StoriaUnica
    <2>1. ASSUME NEW c \in Casi, NEW d \in IdAtto
          PROVE  OttieniStoriaDocumento(c, d)
                    = IF stato[ChiaveDocumento(c, d)] = Nil THEN <<>>
                      ELSE <<[tx |-> IF d \in TxIds THEN d ELSE Nil,
                              valore |-> stato[ChiaveDocumento(c, d)]]>>
      <3>1. ChiaveDocumento(c, d) \in ChiaviPubbliche
        BY ValoriDelleChiavi DEF ChiaviPubbliche, ChiaveDocumento
      <3> QED  BY <1>3, <3>1, RovesciaUna DEF OttieniStoriaDocumento, UnaVoce, ChiaveDocumento
    <2>2. ASSUME NEW c \in Casi, NEW e \in IdEvidenze
          PROVE  OttieniStoriaEvidenza(c, e)
                    = IF stato[ChiaveEvidenza(c, e)] = Nil THEN <<>>
                      ELSE <<[tx |-> Nil, valore |-> stato[ChiaveEvidenza(c, e)]]>>
      <3>1. ChiaveEvidenza(c, e) \in ChiaviPubbliche /\ e \notin TxIds
        BY ValoriDelleChiavi, IdAssumption DEF ChiaviPubbliche, ChiaveEvidenza
      <3> QED  BY <1>3, <3>1, RovesciaUna DEF OttieniStoriaEvidenza, UnaVoce, ChiaveEvidenza
    <2> QED  BY <2>1, <2>2 DEF StoriaUnica
  <1> QED  BY <1>2, <1>3, PTL

-----------------------------------------------------------------------------
(* Exhibits.  What a call writes on the cards, and how that continues a    *)
(* history.                                                                *)

\* A card saved as it was.
LEMMA PassoUguale ==
    ASSUME NEW p \in RepertoPublic, NEW tx
    PROVE  Passo(p, [tx |-> tx, valore |-> p])
  BY DEF Passo, RepertoPublic

\* The first seizure report.
LEMMA PassoVerbale ==
    ASSUME NEW p \in RepertoPublic, NEW tx, NEW d, p.verbale = Nil
    PROVE  Passo(p, [tx |-> tx, valore |-> [p EXCEPT !.verbale = d]])
  BY DEF Passo, RepertoPublic

\* The decree.
LEMMA PassoRichiesta ==
    ASSUME NEW p \in RepertoPublic, NEW tx, NEW lab, p.stato = "SEQUESTRATO"
    PROVE  Passo(p, [tx |-> tx, valore |-> [p EXCEPT !.decreto = tx, !.caso = p.caso, !.lab = lab,
                                                  !.stato = "ATTESA_TRASPORTO"]])
  BY DEF Passo, RepertoPublic

\* An agent leaves the laboratory with the exhibit.
LEMMA PassoRitiro ==
    ASSUME NEW p \in RepertoPublic, NEW tx, NEW a, p.stato = "ATTESA_RITIRO"
    PROVE  Passo(p, [tx |-> tx, valore |-> [p EXCEPT !.stato = "IN_TRANSITO", !.custode = a]])
  BY DEF Passo, RepertoPublic, Trasporti

\* An agent leaves with the exhibit.
LEMMA PassoTrasporto ==
    ASSUME NEW p \in RepertoPublic, NEW tx, NEW a, p.stato = "ATTESA_TRASPORTO"
    PROVE  Passo(p, [tx |-> tx, valore |-> [p EXCEPT !.stato = "IN_TRANSITO", !.custode = a]])
  BY DEF Passo, RepertoPublic, Trasporti

\* The laboratory receives it.
LEMMA PassoArrivo ==
    ASSUME NEW p \in RepertoPublic, NEW tx, NEW lab, p.stato = "IN_TRANSITO"
    PROVE  Passo(p, [tx |-> tx, valore |-> [p EXCEPT !.stato = "IN_ANALISI", !.custode = lab]])
  BY DEF Passo, RepertoPublic, Trasporti

\* The report.
LEMMA PassoRelazione ==
    ASSUME NEW p \in RepertoPublic, NEW tx, p.stato = "IN_ANALISI"
    PROVE  Passo(p, [tx |-> tx, valore |-> [p EXCEPT !.relazione = tx, !.stato = "ATTESA_RITIRO"]])
  BY DEF Passo, RepertoPublic

\* The return.
LEMMA PassoRientro ==
    ASSUME NEW p \in RepertoPublic, NEW tx, NEW q, p.stato = "IN_TRANSITO"
    PROVE  Passo(p, [tx |-> tx, valore |-> [p EXCEPT !.riconsegna = tx, !.stato = "SEQUESTRATO",
                                                  !.custode = q]])
  BY DEF Passo, RepertoPublic

\* Cards and private data agree on the case.
CasiNoti(s) ==
    \A r \in Reperti : RepertoExists(s, r) => Scheda(s, r).caso = Privato(s, r).caso

\* What P knows of the cases.
LEMMA CasiBase == P!Base => CasiNoti(stato)
  BY DEF P!Base, P!SchedeInOrdine, P!CustodiaDi, P!RepertoExists, P!Scheda, P!Privato,
         P!ChiaveReperto, P!ChiavePrivatoReperto, CasiNoti, RepertoExists, Scheda, Privato,
         ChiaveReperto, ChiavePrivatoReperto

\* Writes w of transaction tx continue the histories of the cards of ledger s:
\* they touch no card, they seize an exhibit, or they take one exhibit one step
\* further, with the document the transaction attaches to it if there is one.
Continua(s, w, tx) ==
    \/ Schede(w) = {} /\ SenzaAllegato(w, tx)
    \/ \E r \in Reperti, priv \in RepertoPrivate :
        ~RepertoExists(s, r) /\ Salva(w, r, SchedaNuova(priv)) /\ SenzaAllegato(w, tx)
    \/ \E r \in Reperti : \E p :
        /\ RepertoExists(s, r) /\ Salva(w, r, p)
        /\ Passo(Scheda(s, r), [tx |-> tx, valore |-> p])
        /\ \/ SenzaAllegato(w, tx)
           \/ AllegaA(w, tx, r) /\ tx \in {p.decreto, p.relazione, p.riconsegna}

\* Every call the contract admits continues the histories.
LEMMA ValeContinua ==
    ASSUME NEW s, Tipato(s), CasiNoti(s), NEW msp, NEW tx, NEW R, NEW w,
           ValePer(s, msp, tx, R, w)
    PROVE  Continua(s, w, tx)
  <1>1. ASSUME ValeCreaReperto(s, msp, tx, R, w) PROVE Continua(s, w, tx)
    <2>1. PICK r \in Reperti, priv \in RepertoPrivate :
            /\ AmmetteCreaReperto(s, msp, r) /\ tx = Nil /\ w = ScritturaCreaReperto(r, priv)
      BY <1>1 DEF ValeCreaReperto
    <2> DEFINE f == Scrivi(ChiavePrivatoReperto(r), priv)
    <2>2. Schede(f) = {} /\ Voci(f) = {}
      BY SchedeEVociGruppi DEF ChiavePrivatoReperto
    <2>3. w = f ++ SalvaScheda(r, SchedaNuova(priv))
      BY <2>1 DEF ScritturaCreaReperto
    <2> HIDE DEF f
    <2>4. Salva(w, r, SchedaNuova(priv)) /\ SenzaAllegato(w, tx)
      BY <2>1, <2>2, <2>3, SchedeEVociGruppi DEF SenzaAllegato
    <2> QED  BY <2>1, <2>4 DEF Continua, AmmetteCreaReperto
  <1>2. ASSUME ValeRegistraDocumento(s, msp, tx, R, w) PROVE Continua(s, w, tx)
    <2>1. PICK d \in IdDocumenti, c \in Casi, tipo \in TipiDocumento,
               r \in Reperti \cup {Nil}, f \in File :
            /\ AmmetteRegistraDocumento(s, msp, d, c, tipo, r) /\ tx = Nil
            /\ w = ScritturaRegistraDocumento(s, msp, d, c, tipo, r, f)
      BY <1>2 DEF ValeRegistraDocumento
    <2> DEFINE a == putDocumento(c, d, f, [caso |-> c, reperto |-> r, tipo |-> tipo,
                                           autore |-> msp, ente |-> Nil, chiave |-> f])
               p == IF Scheda(s, r).verbale = Nil
                    THEN [Scheda(s, r) EXCEPT !.verbale = d] ELSE Scheda(s, r)
    <2>2. Schede(a) = {} /\ \A k \in Voci(a) : k[3] = d
      BY SchedeEVociGruppi DEF ChiaveDocRep
    <2>3. d \notin TxIds
      BY IdAssumption
    <2>4. CASE r = Nil \/ tipo # "VERBALE_SEQUESTRO"
      <3>1. w = a ++ Niente
        BY <2>1, <2>4 DEF ScritturaRegistraDocumento, aggiornaPuntatoreDocumentoSuReperto
      <3> HIDE DEF a
      <3>2. Schede(w) = {} /\ Voci(w) = Voci(a)
        <4>1. /\ Schede(w) = Schede(a) \cup Schede(Niente)
              /\ Voci(w) = Voci(a) \cup Voci(Niente)
          BY <3>1, SchedeEVociUnione
        <4> QED  BY <2>2, <4>1, SchedeEVociUnione
      <3> QED  BY <2>1, <2>2, <2>3, <3>2 DEF Continua, SenzaAllegato
    <2>5. CASE r # Nil /\ tipo = "VERBALE_SEQUESTRO"
      <3>1. w = a ++ SalvaScheda(r, p)
        BY <2>1, <2>5 DEF ScritturaRegistraDocumento, aggiornaPuntatoreDocumentoSuReperto
      <3>2. r \in Reperti /\ RepertoExists(s, r) /\ Scheda(s, r) \in RepertoPublic
        BY <2>1, <2>5, SchedaTipata DEF AmmetteRegistraDocumento
      <3>3. Passo(Scheda(s, r), [tx |-> tx, valore |-> p])
        BY <3>2, PassoUguale, PassoVerbale
      <3> HIDE DEF a, p
      <3>4. Salva(w, r, p) /\ SenzaAllegato(w, tx)
        BY <2>1, <2>2, <2>3, <3>1, SchedeEVociGruppi DEF SenzaAllegato
      <3> QED  BY <3>2, <3>3, <3>4 DEF Continua
    <2> QED  BY <2>4, <2>5
  <1>3. ASSUME ValeRegistraEvidenza(s, msp, tx, R, w) PROVE Continua(s, w, tx)
    <2>1. PICK e \in IdEvidenze, c \in Casi, r \in Reperti \cup {Nil}, f \in File :
            tx = Nil /\ w = ScritturaRegistraEvidenza(msp, e, c, r, f)
      BY <1>3 DEF ValeRegistraEvidenza
    <2>2. DOMAIN w \subseteq {ChiaveEvidenza(c, e), ChiaveFile("PG_PM", c, e), ChiaveEviRep(r, e)}
      BY <2>1 DEF ScritturaRegistraEvidenza, ++, Scrivi, Niente
    <2>3. Schede(w) = {} /\ Voci(w) = {}
      BY <2>2 DEF Schede, Voci, ChiaveEvidenza, ChiaveFile, ChiaveEviRep
    <2> QED  BY <2>1, <2>3 DEF Continua, SenzaAllegato
  <1>4. ASSUME ValeRichiediAnalisi(s, msp, tx, R, w) PROVE Continua(s, w, tx)
    <2>1. PICK r \in Reperti, lab \in Laboratori, f \in File :
            /\ AmmetteRichiediAnalisi(s, msp, r) /\ tx \in TxIds
            /\ w = ScritturaRichiediAnalisi(s, tx, msp, r, lab, f)
      BY <1>4 DEF ValeRichiediAnalisi
    <2> DEFINE c == Privato(s, r).caso
               a == registraDocumentoAllegato(tx, msp, c, r, "DECRETO_ACCERTAMENTO", f, lab)
               g == Scrivi(ChiavePrivatoPmLab(r), Privato(s, r))
               h == Scrivi(ChiaveVerbale(s, r, "PM_LAB"), s[ChiaveVerbale(s, r, "PG_PM")])
               p == [Scheda(s, r) EXCEPT !.decreto = tx, !.caso = c, !.lab = lab,
                                         !.stato = "ATTESA_TRASPORTO"]
    <2>2. /\ RepertoExists(s, r) /\ Scheda(s, r) \in RepertoPublic
          /\ Scheda(s, r).stato = "SEQUESTRATO" /\ c \in Casi /\ c = Scheda(s, r).caso
      BY <2>1, InStatoScheda, LettoPerRichiesta DEF AmmetteRichiediAnalisi, CasiNoti
    <2>3. Schede(g) = {} /\ Voci(g) = {} /\ Schede(h) = {} /\ Voci(h) = {}
      BY SchedeEVociGruppi DEF ChiavePrivatoPmLab, ChiaveVerbale, ChiaveFile
    <2>4. w = a ++ (g ++ h) ++ SalvaScheda(r, p)
      BY <2>1, Associa DEF ScritturaRichiediAnalisi
    <2>5. Passo(Scheda(s, r), [tx |-> tx, valore |-> p])
      <3> DEFINE prima == Scheda(s, r)
      <3>1. p = [prima EXCEPT !.decreto = tx, !.caso = prima.caso, !.lab = lab,
                              !.stato = "ATTESA_TRASPORTO"]
        BY <2>2
      <3>2. prima \in RepertoPublic /\ prima.stato = "SEQUESTRATO"
        BY <2>2
      <3> HIDE DEF p, prima
      <3>3. Passo(prima, [tx |-> tx,
                          valore |-> [prima EXCEPT !.decreto = tx, !.caso = prima.caso,
                                                   !.lab = lab, !.stato = "ATTESA_TRASPORTO"]])
        BY <3>2, PassoRichiesta
      <3>4. Passo(prima, [tx |-> tx, valore |-> p])
        BY <3>1, <3>3
      <3> QED  BY <3>4 DEF prima
    <2>6. p.decreto = tx
      BY <2>2 DEF RepertoPublic
    <2> HIDE DEF g, h, p, c
    <2>7. Schede(g ++ h) = {} /\ Voci(g ++ h) = {}
      BY <2>3, SchedeEVociUnione
    <2> DEFINE gh == g ++ h
    <2>8. Schede(gh) = {} /\ Voci(gh) = {} /\ w = a ++ gh ++ SalvaScheda(r, p)
      BY <2>4, <2>7
    <2> HIDE DEF gh
    <2>9. Salva(w, r, p) /\ AllegaA(w, tx, r)
      BY <2>1, <2>2, <2>8, SalvaConAllegato
    <2> QED  BY <2>2, <2>5, <2>6, <2>9 DEF Continua
  <1>5. ASSUME ValeAvviaTrasporto(s, msp, tx, R, w) PROVE Continua(s, w, tx)
    <2>1. PICK r \in Reperti, agente \in Agenti :
            /\ AmmetteAvviaTrasporto(s, msp, r) /\ tx = Nil
            /\ w = ScritturaAvviaTrasporto(s, r, agente)
      BY <1>5 DEF ValeAvviaTrasporto
    <2> DEFINE p == [Scheda(s, r) EXCEPT !.stato = "IN_TRANSITO", !.custode = agente]
    <2>2. /\ RepertoExists(s, r) /\ Scheda(s, r) \in RepertoPublic
          /\ Scheda(s, r).stato \in {"ATTESA_TRASPORTO", "ATTESA_RITIRO"}
      BY <2>1, InStatoScheda DEF AmmetteAvviaTrasporto
    <2>3. Passo(Scheda(s, r), [tx |-> tx, valore |-> p])
      BY <2>2, PassoTrasporto, PassoRitiro
    <2>4. Salva(w, r, p) /\ SenzaAllegato(w, tx)
      BY <2>1, SchedeEVociGruppi DEF ScritturaAvviaTrasporto, SenzaAllegato
    <2> QED  BY <2>2, <2>3, <2>4 DEF Continua
  <1>6. ASSUME ValeRiceviInLaboratorio(s, msp, tx, R, w) PROVE Continua(s, w, tx)
    <2>1. PICK r \in Reperti, lab \in Laboratori :
            /\ AmmetteRiceviInLaboratorio(s, msp, r, lab) /\ tx = Nil
            /\ w = ScritturaRiceviInLaboratorio(s, r, lab)
      BY <1>6 DEF ValeRiceviInLaboratorio
    <2> DEFINE p == [Scheda(s, r) EXCEPT !.stato = "IN_ANALISI", !.custode = lab]
    <2>2. /\ RepertoExists(s, r) /\ Scheda(s, r) \in RepertoPublic
          /\ Scheda(s, r).stato = "IN_TRANSITO"
      BY <2>1, InStatoScheda DEF AmmetteRiceviInLaboratorio
    <2>3. Passo(Scheda(s, r), [tx |-> tx, valore |-> p])
      BY <2>2, PassoArrivo
    <2>4. Salva(w, r, p) /\ SenzaAllegato(w, tx)
      BY <2>1, SchedeEVociGruppi DEF ScritturaRiceviInLaboratorio, SenzaAllegato
    <2> QED  BY <2>2, <2>3, <2>4 DEF Continua
  <1>7. ASSUME ValeCompletaAnalisi(s, msp, tx, R, w) PROVE Continua(s, w, tx)
    <2>1. PICK r \in Reperti, f \in File :
            /\ AmmetteCompletaAnalisi(s, msp, r) /\ tx \in TxIds
            /\ w = ScritturaCompletaAnalisi(s, tx, msp, r, f)
      BY <1>7 DEF ValeCompletaAnalisi
    <2> DEFINE p == [Scheda(s, r) EXCEPT !.relazione = tx, !.stato = "ATTESA_RITIRO"]
    <2>2. /\ RepertoExists(s, r) /\ Scheda(s, r) \in RepertoPublic
          /\ Scheda(s, r).stato = "IN_ANALISI"
      BY <2>1, InStatoScheda DEF AmmetteCompletaAnalisi
    <2>3. Scheda(s, r).caso \in Casi /\ p.relazione = tx
      BY <2>2 DEF RepertoPublic
    <2>4. Passo(Scheda(s, r), [tx |-> tx, valore |-> p])
      BY <2>2, PassoRelazione
    <2>5. Salva(w, r, p) /\ AllegaA(w, tx, r)
      BY <2>1, <2>3, SalvaConAllegato, SchedeEVociUnione DEF ScritturaCompletaAnalisi
    <2> QED  BY <2>2, <2>3, <2>4, <2>5 DEF Continua
  <1>8. ASSUME ValePreparaRiconsegna(s, msp, tx, R, w) PROVE Continua(s, w, tx)
    BY <1>8, SchedeEVociUnione DEF ValePreparaRiconsegna, Continua, SenzaAllegato
  <1>9. ASSUME ValeDepositaInSede(s, msp, tx, R, w) PROVE Continua(s, w, tx)
    <2>1. PICK r \in Reperti, f \in File :
            /\ AmmetteDepositaInSede(s, msp, r) /\ tx \in TxIds
            /\ w = ScritturaDepositaInSede(s, tx, msp, r, f)
      BY <1>9 DEF ValeDepositaInSede
    <2> DEFINE p == [Scheda(s, r) EXCEPT !.riconsegna = tx, !.stato = "SEQUESTRATO",
                                         !.custode = Privato(s, r).distretto]
    <2>2. /\ RepertoExists(s, r) /\ Scheda(s, r) \in RepertoPublic
          /\ Scheda(s, r).stato = "IN_TRANSITO"
          /\ Privato(s, r) \in RepertoPrivate
      BY <2>1, InStatoScheda, SchedaTipata DEF AmmetteDepositaInSede
    <2>3. CasoDelReperto(s, r) \in Casi /\ p.riconsegna = tx
      BY <2>2 DEF RepertoPublic, RepertoPrivate, CasoDelReperto
    <2>4. Passo(Scheda(s, r), [tx |-> tx, valore |-> p])
      BY <2>2, PassoRientro
    <2>5. Salva(w, r, p) /\ AllegaA(w, tx, r)
      BY <2>1, <2>3, SalvaConAllegato, SchedeEVociUnione DEF ScritturaDepositaInSede
    <2> QED  BY <2>2, <2>3, <2>4, <2>5 DEF Continua
  <1> QED  BY <1>1, <1>2, <1>3, <1>4, <1>5, <1>6, <1>7, <1>8, <1>9 DEF ValePer

-----------------------------------------------------------------------------
(* Exhibits.  The history of a card, oldest entry first.                   *)

\* The entries a card may leave.
VociDiScheda == [tx : TxIds \cup {Nil}, valore : RepertoPublic]

\* From the seizure on, each entry is one handover after the one before.
Catena(v) ==
    /\ v \in Seq(VociDiScheda)
    /\ v # <<>> => \E priv \in RepertoPrivate : v[1].valore = SchedaNuova(priv)
    /\ \A i \in 1..(Len(v) - 1) : Passo(v[i].valore, v[i + 1])

\* The histories h of the cards lead to the cards ledger s has.
InOrdine(s, h) ==
    \A r \in Reperti :
        LET v == h[ChiaveReperto(r)]
        IN  /\ Catena(v)
            /\ (v = <<>>) = ~RepertoExists(s, r)
            /\ v # <<>> => v[Len(v)].valore = Scheda(s, r)

\* Entry e attaches document tx to the exhibit.
Attesta(e, tx) ==
    e.tx = tx /\ tx \in {e.valore.decreto, e.valore.relazione, e.valore.riconsegna}

\* An id found in the histories h is in use on ledger s, and a document filed
\* for an exhibit under it is on one entry, the only one with that id.
Attestati(s, h) ==
    \A r \in Reperti : \A tx \in TxIds :
        LET v == h[ChiaveReperto(r)]
        IN  /\ \A i \in DOMAIN v : v[i].tx = tx => ~Assente(s, tx)
            /\ s[ChiaveDocRep(r, tx)] # Nil =>
                \E j \in DOMAIN v :
                    Attesta(v[j], tx) /\ \A i \in DOMAIN v : v[i].tx = tx => i = j

\* A history that starts with the seizure, and one that goes on.
LEMMA CatenaCresce ==
    ASSUME NEW v, Catena(v), NEW e \in VociDiScheda,
           IF v = <<>> THEN \E priv \in RepertoPrivate : e.valore = SchedaNuova(priv)
           ELSE Passo(v[Len(v)].valore, e)
    PROVE  /\ Catena(Append(v, e))
           /\ Append(v, e) # <<>> /\ Append(v, e)[Len(Append(v, e))] = e
  <1> DEFINE w == Append(v, e)
  <1>1. /\ v \in Seq(VociDiScheda) /\ Len(v) \in Nat
        /\ w \in Seq(VociDiScheda) /\ w # <<>> /\ Len(w) = Len(v) + 1
        /\ \A i \in 1..Len(v) : w[i] = v[i]
        /\ w[Len(v) + 1] = e
    BY AppendProperties, LenProperties DEF Catena
  <1> HIDE DEF w
  <1>2. v = <<>> => Len(v) = 0
    OBVIOUS
  <1>3. v # <<>> => Len(v) > 0
    BY <1>1, EmptySeq
  <1>4. \E priv \in RepertoPrivate : w[1].valore = SchedaNuova(priv)
    <2>1. CASE v = <<>>
      BY <1>1, <1>2, <2>1
    <2>2. CASE v # <<>>
      BY <1>1, <1>3, <2>2 DEF Catena
    <2> QED  BY <2>1, <2>2
  <1>5. ASSUME NEW i \in 1..(Len(w) - 1) PROVE Passo(w[i].valore, w[i + 1])
    <2>1. CASE i = Len(v)
      BY <1>1, <1>2, <1>5, <2>1
    <2>2. CASE i # Len(v)
      <3>1. i \in 1..(Len(v) - 1) /\ w[i] = v[i] /\ w[i + 1] = v[i + 1]
        BY <1>1, <2>2
      <3> QED  BY <3>1 DEF Catena
    <2> QED  BY <2>1, <2>2
  <1> QED  BY <1>1, <1>4, <1>5 DEF Catena, w

\* What a commit does, as the histories see it.
LEMMA ConfermaContinua ==
    ASSUME InvFabric, NEW k \in Canali, Conferma(k)
    PROVE  /\ Tipato(stato) /\ Tipata(volo[k].scritture)
           /\ volo[k].tx \in TxIds \cup {Nil}
           /\ volo[k].tx # Nil => Assente(stato, volo[k].tx)
           /\ Continua(stato, volo[k].scritture, volo[k].tx)
           /\ \A x \in Chiavi : stato'[x] = IF x \in DOMAIN volo[k].scritture
                                            THEN volo[k].scritture[x] ELSE stato[x]
  <1> DEFINE w == volo[k].scritture
  <1>1. /\ ChiamataInVolo(stato, volo[k]) /\ Vale(stato, volo[k].tx, volo[k].letture, w)
        /\ stato' = stato ++ w
    BY DEF Conferma, InvFabric, ChiamataInVolo
  <1>2. Tipato(stato) /\ Tipata(w) /\ CasiNoti(stato)
    BY <1>1, BaseNota, CasiBase DEF InvFabric, ChiamataInVolo
  <1>3. Continua(stato, w, volo[k].tx)
    BY <1>1, <1>2, ValeContinua DEF Vale
  <1>4. \A x \in Chiavi : stato'[x] = IF x \in DOMAIN w THEN w[x] ELSE stato[x]
    BY <1>1, <1>2, DopoScritture
  <1> QED  BY <1>1, <1>2, <1>3, <1>4 DEF ChiamataInVolo

\* A commit saves no card, or takes one history one entry further.
LEMMA AnnotaScheda ==
    ASSUME InvFabric, NEW k \in Canali, Conferma(k), Annota(k), NEW r \in Reperti
    PROVE  LET x == ChiaveReperto(r)
               e == [tx |-> volo[k].tx, valore |-> stato'[x]]
           IN  \/ storia'[x] = storia[x] /\ stato'[x] = stato[x]
               \/ /\ storia'[x] = Append(storia[x], e) /\ e \in VociDiScheda
                  /\ IF stato[x] = Nil
                     THEN \E priv \in RepertoPrivate : e.valore = SchedaNuova(priv)
                     ELSE Passo(stato[x], e)
  <1> DEFINE w == volo[k].scritture
             t == volo[k].tx
             x == ChiaveReperto(r)
             e == [tx |-> t, valore |-> stato'[x]]
  <1>1. /\ Tipata(w) /\ t \in TxIds \cup {Nil} /\ Continua(stato, w, t)
        /\ \A y \in Chiavi : stato'[y] = IF y \in DOMAIN w THEN w[y] ELSE stato[y]
    BY ConfermaContinua
  <1>2. x \in Chiavi /\ x \in ChiaviPubbliche /\ ValoriDi(x) = RepertoPublic
    BY ValoriDelleChiavi DEF ChiaviPubbliche, ChiaveReperto
  <1>3. storia'[x] = IF x \in DOMAIN w THEN Append(storia[x], [tx |-> t, valore |-> w[x]])
                     ELSE storia[x]
    BY <1>2 DEF Annota
  <1>4. CASE x \notin DOMAIN w
    BY <1>1, <1>2, <1>3, <1>4
  <1>5. CASE x \in DOMAIN w
    <2>1. /\ stato'[x] = w[x] /\ storia'[x] = Append(storia[x], e)
          /\ w[x] \in RepertoPublic
      BY <1>1, <1>2, <1>3, <1>5 DEF Tipata
    <2>2. e \in VociDiScheda
      BY <1>1, <2>1 DEF VociDiScheda
    <2>3. x \in Schede(w)
      BY <1>5 DEF Schede, ChiaveReperto
    <2>4. \A q \in Reperti : \A p : Salva(w, q, p) => q = r /\ w[x] = p
      BY <2>3 DEF Salva, ChiaveReperto
    <2>5. IF stato[x] = Nil
          THEN \E priv \in RepertoPrivate : e.valore = SchedaNuova(priv)
          ELSE Passo(stato[x], e)
      <3>1. CASE \E q \in Reperti, priv \in RepertoPrivate :
                    ~RepertoExists(stato, q) /\ Salva(w, q, SchedaNuova(priv))
        BY <2>1, <2>4, <3>1 DEF RepertoExists
      <3>2. CASE \E q \in Reperti : \E p :
                    /\ RepertoExists(stato, q) /\ Salva(w, q, p)
                    /\ Passo(Scheda(stato, q), [tx |-> t, valore |-> p])
        BY <2>1, <2>4, <3>2 DEF RepertoExists, Scheda
      <3> QED  BY <1>1, <2>3, <3>1, <3>2 DEF Continua
    <2> QED  BY <2>1, <2>2, <2>5
  <1> QED  BY <1>4, <1>5

\* A step keeps the histories of the cards in order.
LEMMA PassoInOrdine ==
    ASSUME InvFabric, InOrdine(stato, storia), NEW k \in Canali, Conferma(k), Annota(k)
    PROVE  InOrdine(stato', storia')
  <1> SUFFICES ASSUME NEW r \in Reperti
               PROVE  /\ Catena(storia'[ChiaveReperto(r)])
                      /\ (storia'[ChiaveReperto(r)] = <<>>) = (stato'[ChiaveReperto(r)] = Nil)
                      /\ storia'[ChiaveReperto(r)] # <<>> =>
                            storia'[ChiaveReperto(r)][Len(storia'[ChiaveReperto(r)])].valore
                                = stato'[ChiaveReperto(r)]
    BY DEF InOrdine, RepertoExists, Scheda
  <1> DEFINE x == ChiaveReperto(r)
             v == storia[x]
             e == [tx |-> volo[k].tx, valore |-> stato'[x]]
  <1>1. /\ Catena(v) /\ (v = <<>>) = (stato[x] = Nil)
        /\ v # <<>> => v[Len(v)].valore = stato[x]
    BY DEF InOrdine, RepertoExists, Scheda
  <1>2. \/ storia'[x] = v /\ stato'[x] = stato[x]
        \/ /\ storia'[x] = Append(v, e) /\ e \in VociDiScheda
           /\ IF stato[x] = Nil
              THEN \E priv \in RepertoPrivate : e.valore = SchedaNuova(priv)
              ELSE Passo(stato[x], e)
    BY AnnotaScheda
  <1>3. CASE storia'[x] = v /\ stato'[x] = stato[x]
    BY <1>1, <1>3
  <1>4. CASE /\ storia'[x] = Append(v, e) /\ e \in VociDiScheda
             /\ IF stato[x] = Nil
                THEN \E priv \in RepertoPrivate : e.valore = SchedaNuova(priv)
                ELSE Passo(stato[x], e)
    <2>1. e.valore = stato'[x] /\ stato'[x] # Nil
      BY <1>4, NilAssumption DEF VociDiScheda
    <2> HIDE DEF e, v
    <2>2. IF v = <<>> THEN \E priv \in RepertoPrivate : e.valore = SchedaNuova(priv)
          ELSE Passo(v[Len(v)].valore, e)
      BY <1>1, <1>4
    <2>3. /\ Catena(Append(v, e)) /\ Append(v, e) # <<>>
          /\ Append(v, e)[Len(Append(v, e))] = e
      BY <1>1, <1>4, <2>2, CatenaCresce
    <2> QED  BY <1>4, <2>1, <2>3
  <1> QED  BY <1>2, <1>3, <1>4

\* A commit keeps every attached document on the one entry of its transaction.
LEMMA PassoAttestati ==
    ASSUME InvFabric, InOrdine(stato, storia), Attestati(stato, storia),
           NEW k \in Canali, Conferma(k), Annota(k)
    PROVE  Attestati(stato', storia')
  <1> SUFFICES ASSUME NEW r \in Reperti, NEW tx \in TxIds
               PROVE  LET v == storia'[ChiaveReperto(r)]
                      IN  /\ \A i \in DOMAIN v : v[i].tx = tx => ~Assente(stato', tx)
                          /\ stato'[ChiaveDocRep(r, tx)] # Nil =>
                              \E j \in DOMAIN v :
                                Attesta(v[j], tx) /\ \A i \in DOMAIN v : v[i].tx = tx => i = j
    BY DEF Attestati
  <1> DEFINE w == volo[k].scritture
             t == volo[k].tx
             x == ChiaveReperto(r)
             y == ChiaveDocRep(r, tx)
             v == storia[x]
             u == storia'[x]
             e == [tx |-> t, valore |-> stato'[x]]
  <1>1. /\ Tipata(w) /\ t \in TxIds \cup {Nil} /\ (t # Nil => Assente(stato, t))
        /\ Continua(stato, w, t)
        /\ \A z \in Chiavi : stato'[z] = IF z \in DOMAIN w THEN w[z] ELSE stato[z]
    BY ConfermaContinua
  <1>2. /\ \A i \in DOMAIN v : v[i].tx = tx => ~Assente(stato, tx)
        /\ stato[y] # Nil =>
            \E j \in DOMAIN v :
                Attesta(v[j], tx) /\ \A i \in DOMAIN v : v[i].tx = tx => i = j
    BY DEF Attestati
  <1>3. v \in Seq(VociDiScheda)
    BY DEF InOrdine, Catena
  <1>4. ~Assente(stato, tx) => ~Assente(stato', tx)
    <2> SUFFICES ASSUME NEW c \in Casi, stato[ChiaveDocumento(c, tx)] # Nil
                 PROVE  stato'[ChiaveDocumento(c, tx)] # Nil
      BY DEF Assente
    <2>1. /\ ChiaveDocumento(c, tx) \in Chiavi
          /\ ValoriDi(ChiaveDocumento(c, tx)) = FilePublic
      BY ValoriDelleChiavi DEF IdAtto
    <2> QED  BY <1>1, <2>1, NilAssumption DEF Tipata
  <1>5. y \in Chiavi
    BY ValoriDelleChiavi DEF IdAtto
  <1>6. u = v \/ (u = Append(v, e) /\ e \in VociDiScheda)
    BY AnnotaScheda
  <1>7. CASE t = tx /\ y \in DOMAIN w
    <2>1. y \in Voci(w) /\ y[3] = tx
      BY <1>7 DEF Voci, ChiaveDocRep
    <2>2. PICK q \in Reperti : \E p :
            /\ Salva(w, q, p) /\ AllegaA(w, tx, q)
            /\ tx \in {p.decreto, p.relazione, p.riconsegna}
      BY <1>1, <1>7, <2>1 DEF Continua, SenzaAllegato
    <2>3. PICK p : /\ Salva(w, q, p) /\ AllegaA(w, tx, q)
                   /\ tx \in {p.decreto, p.relazione, p.riconsegna}
      BY <2>2
    <2>4. q = r
      BY <2>1, <2>3 DEF AllegaA, ChiaveDocRep
    <2>5. x \in DOMAIN w /\ w[x] = p
      BY <2>3, <2>4 DEF Salva, Schede
    <2>6. x \in Chiavi /\ x \in ChiaviPubbliche
      BY ValoriDelleChiavi DEF ChiaviPubbliche, ChiaveReperto
    <2>7. stato'[x] = p /\ u = Append(v, e)
      BY <1>1, <2>5, <2>6 DEF Annota
    <2>8. Attesta(e, tx)
      BY <1>7, <2>3, <2>7 DEF Attesta
    <2>9. ~Assente(stato', tx)
      <3>1. PICK c \in Casi : ChiaveDocumento(c, tx) \in DOMAIN w
        BY <2>3 DEF AllegaA
      <3>2. /\ ChiaveDocumento(c, tx) \in Chiavi
            /\ ValoriDi(ChiaveDocumento(c, tx)) = FilePublic
        BY ValoriDelleChiavi DEF IdAtto
      <3> QED  BY <1>1, <3>1, <3>2, NilAssumption DEF Tipata, Assente
    <2>10. \A i \in DOMAIN v : v[i].tx # tx
      BY <1>1, <1>2, <1>7, NilAssumption
    <2>11. e \in VociDiScheda
      <3>1. w[x] \in RepertoPublic
        BY <1>1, <2>5, ValoriDelleChiavi DEF Tipata
      <3> QED  BY <1>1, <2>5, <2>7, <3>1 DEF VociDiScheda
    <2> HIDE DEF e, v
    <2>12. /\ Len(v) \in Nat /\ DOMAIN v = 1..Len(v) /\ DOMAIN u = 1..(Len(v) + 1)
           /\ \A i \in 1..Len(v) : u[i] = v[i]
           /\ u[Len(v) + 1] = e
      BY <1>3, <2>7, <2>11, AppendProperties, LenProperties
    <2> HIDE DEF u
    <2>13. \A i \in DOMAIN u : u[i].tx = tx => i = Len(v) + 1
      BY <2>10, <2>12
    <2>14. Len(v) + 1 \in DOMAIN u /\ Attesta(u[Len(v) + 1], tx)
      BY <2>8, <2>12
    <2> QED  BY <2>9, <2>13, <2>14 DEF u
  <1>8. CASE ~(t = tx /\ y \in DOMAIN w)
    <2>1. stato'[y] = stato[y]
      <3>1. y \in DOMAIN w => y \in Voci(w) /\ y[3] = tx
        BY DEF Voci, ChiaveDocRep
      <3>2. \A q : AllegaA(w, t, q) /\ y \in Voci(w) => t = tx
        BY <3>1 DEF AllegaA, ChiaveDocRep
      <3>3. y \notin DOMAIN w
        BY <1>1, <1>8, <3>1, <3>2 DEF Continua, SenzaAllegato
      <3> QED  BY <1>1, <1>5, <3>3
    <2>2. CASE u = v
      BY <1>2, <1>4, <2>1, <2>2
    <2>3. CASE u = Append(v, e) /\ e \in VociDiScheda /\ t # tx
      <3> HIDE DEF e, v
      <3>1. /\ Len(v) \in Nat /\ DOMAIN v = 1..Len(v) /\ DOMAIN u = 1..(Len(v) + 1)
            /\ \A i \in 1..Len(v) : u[i] = v[i]
            /\ u[Len(v) + 1] = e
        BY <1>3, <2>3, AppendProperties, LenProperties
      <3>2. e.tx # tx
        BY <2>3 DEF e
      <3> HIDE DEF u
      <3>3. \A i \in DOMAIN u : u[i].tx = tx => i \in DOMAIN v
        BY <3>1, <3>2
      <3>4. \A i \in DOMAIN u : u[i].tx = tx => i \in DOMAIN v /\ v[i].tx = tx
        BY <3>1, <3>3
      <3>5. \A i \in DOMAIN u : u[i].tx = tx => ~Assente(stato', tx)
        BY <1>2, <1>4, <3>4
      <3>6. ASSUME stato[y] # Nil
            PROVE  \E j \in DOMAIN u :
                        Attesta(u[j], tx) /\ \A i \in DOMAIN u : u[i].tx = tx => i = j
        <4>1. PICK j \in DOMAIN v :
                    Attesta(v[j], tx) /\ \A i \in DOMAIN v : v[i].tx = tx => i = j
          BY <1>2, <3>6
        <4>2. j \in DOMAIN u /\ u[j] = v[j]
          BY <3>1
        <4> QED  BY <3>4, <4>1, <4>2
      <3> QED  BY <2>1, <3>5, <3>6 DEF u
    <2>4. CASE u # v /\ t = tx
      <3>1. x \in DOMAIN w
        <4>1. x \in ChiaviPubbliche
          BY ValoriDelleChiavi DEF ChiaviPubbliche, ChiaveReperto
        <4> QED  BY <2>4, <4>1 DEF Annota
      <3>2. x \in Schede(w)
        BY <3>1 DEF Schede, ChiaveReperto
      <3>3. t # Nil
        BY <2>4, NilAssumption
      <3>4. PICK q \in Reperti : \E p : Salva(w, q, p) /\ AllegaA(w, tx, q)
        BY <1>1, <2>4, <3>2, <3>3 DEF Continua, SenzaAllegato
      <3>5. q = r
        BY <3>2, <3>4 DEF Salva, ChiaveReperto
      <3>6. y \in DOMAIN w
        BY <3>4, <3>5 DEF AllegaA, Voci
      <3> QED  BY <1>8, <2>4, <3>6
    <2> QED  BY <1>6, <2>2, <2>3, <2>4
  <1> QED  BY <1>7, <1>8

\* The cards' histories are in order and complete, whatever is in flight.
LEMMA StorieSempre == SpecStoria => [](InOrdine(stato, storia) /\ Attestati(stato, storia))
  <1>1. InitStoria => InOrdine(stato, storia) /\ Attestati(stato, storia)
    <2> SUFFICES ASSUME InitStoria PROVE InOrdine(stato, storia) /\ Attestati(stato, storia)
      OBVIOUS
    <2>1. ASSUME NEW r \in Reperti
          PROVE  storia[ChiaveReperto(r)] = <<>> /\ stato[ChiaveReperto(r)] = Nil
      BY ValoriDelleChiavi DEF InitStoria, Init, RegistroVuoto, ChiaviPubbliche, ChiaveReperto
    <2>2. ASSUME NEW r \in Reperti, NEW tx \in TxIds PROVE stato[ChiaveDocRep(r, tx)] = Nil
      BY ValoriDelleChiavi DEF InitStoria, Init, RegistroVuoto, IdAtto
    <2>3. Catena(<<>>)
      BY DEF Catena
    <2> QED  BY <2>1, <2>2, <2>3 DEF InOrdine, Attestati, RepertoExists
  <1>2. InvFabric /\ InOrdine(stato, storia) /\ Attestati(stato, storia) /\ [NextStoria]_varsStoria
            => (InOrdine(stato, storia) /\ Attestati(stato, storia))'
    <2> SUFFICES ASSUME InvFabric, InOrdine(stato, storia), Attestati(stato, storia),
                        [NextStoria]_varsStoria
                 PROVE  InOrdine(stato', storia') /\ Attestati(stato', storia')
      OBVIOUS
    <2>1. ASSUME NEW k \in Canali, Chiamata(k) \/ Scarta(k), UNCHANGED storia
          PROVE  InOrdine(stato', storia') /\ Attestati(stato', storia')
      BY <2>1, PassoChiamata, PassoScarta
    <2>2. ASSUME NEW k \in Canali, Conferma(k), Annota(k)
          PROVE  InOrdine(stato', storia') /\ Attestati(stato', storia')
      BY <2>2, PassoInOrdine, PassoAttestati
    <2>3. CASE UNCHANGED varsStoria
      BY <2>3 DEF varsStoria, vars
    <2> QED  BY <2>1, <2>2, <2>3 DEF NextStoria
  <1> QED  BY <1>1, <1>2, StoriaFabric, FabricSempre, PTL DEF SpecStoria

\* Read from the last entry back.
LEMMA RovesciaVoci ==
    ASSUME NEW S, NEW v \in Seq(S)
    PROVE  /\ Len(v) \in Nat /\ DOMAIN Reverse(v) = 1..Len(v) /\ DOMAIN v = 1..Len(v)
           /\ Reverse(v) \in Seq(S) /\ Len(Reverse(v)) = Len(v)
           /\ \A i \in 1..Len(v) : Reverse(v)[i] = v[Len(v) - i + 1]
           /\ (Reverse(v) = <<>>) = (v = <<>>)
           /\ v # <<>> => Head(Reverse(v)) = v[Len(v)] /\ Last(Reverse(v)) = v[1]
  <1>1. Len(v) \in Nat /\ DOMAIN v = 1..Len(v) /\ \A i \in 1..Len(v) : v[i] \in S
    BY LenProperties, ElementOfSeq
  <1>2. /\ Reverse(v) = [i \in 1..Len(v) |-> v[Len(v) - i + 1]]
        /\ \A i \in 1..Len(v) : v[Len(v) - i + 1] \in S
    BY <1>1 DEF Reverse
  <1>3. Reverse(v) \in Seq(S) /\ Len(Reverse(v)) = Len(v) /\ DOMAIN Reverse(v) = 1..Len(v)
    BY <1>1, <1>2
  <1>4. v # <<>> => Len(v) > 0
    BY <1>1, EmptySeq
  <1>5. (Reverse(v) = <<>>) = (v = <<>>)
    BY <1>1, <1>3, <1>4, EmptySeq
  <1>6. ASSUME v # <<>> PROVE Head(Reverse(v)) = v[Len(v)] /\ Last(Reverse(v)) = v[1]
    <2>1. Reverse(v)[1] = v[Len(v)] /\ Reverse(v)[Len(v)] = v[1]
      BY <1>1, <1>2, <1>4, <1>6
    <2>2. Head(Reverse(v)) = Reverse(v)[1]
      BY <1>3, <1>5, <1>6
    <2> QED  BY <1>3, <2>1, <2>2 DEF Last
  <1> QED  BY <1>1, <1>2, <1>3, <1>5, <1>6

\* The history of an exhibit, read from the last entry back, starts with its
\* present card and goes one handover at a time back to the seizure.
THEOREM StoriaSempreContinua == SpecStoria => []StoriaContinua
  <1>1. ASSUME InOrdine(stato, storia), NEW r \in Reperti
        PROVE  LET voci == OttieniStoriaReperto(r)
               IN  /\ (voci = <<>>) = ~RepertoExists(stato, r)
                   /\ voci # <<>> =>
                        /\ Head(voci).valore = Scheda(stato, r)
                        /\ \E priv \in RepertoPrivate : Last(voci).valore = SchedaNuova(priv)
                   /\ \A i \in 1..(Len(voci) - 1) : Passo(voci[i + 1].valore, voci[i])
    <2> DEFINE v == storia[ChiaveReperto(r)]
               voci == OttieniStoriaReperto(r)
    <2>1. /\ Catena(v) /\ v \in Seq(VociDiScheda)
          /\ (v = <<>>) = ~RepertoExists(stato, r)
          /\ v # <<>> => v[Len(v)].valore = Scheda(stato, r)
      BY <1>1 DEF InOrdine, Catena
    <2>2. voci = Reverse(v)
      BY DEF OttieniStoriaReperto
    <2> HIDE DEF v, voci
    <2>3. /\ Len(v) \in Nat /\ Len(voci) = Len(v)
          /\ \A i \in 1..Len(v) : voci[i] = v[Len(v) - i + 1]
          /\ (voci = <<>>) = (v = <<>>)
          /\ v # <<>> => Head(voci) = v[Len(v)] /\ Last(voci) = v[1]
      BY <2>1, <2>2, RovesciaVoci
    <2>4. ASSUME NEW i \in 1..(Len(voci) - 1) PROVE Passo(voci[i + 1].valore, voci[i])
      <3> DEFINE j == Len(v) - i
      <3>1. /\ j \in 1..(Len(v) - 1) /\ i \in 1..Len(v) /\ i + 1 \in 1..Len(v)
            /\ Len(v) - i + 1 = j + 1 /\ Len(v) - (i + 1) + 1 = j
        BY <2>3
      <3>2. voci[i + 1] = v[j] /\ voci[i] = v[j + 1]
        BY <2>3, <3>1
      <3>3. Passo(v[j].valore, v[j + 1])
        BY <2>1, <3>1 DEF Catena
      <3> QED  BY <3>2, <3>3
    <2>5. voci # <<>> => \E priv \in RepertoPrivate : Last(voci).valore = SchedaNuova(priv)
      BY <2>1, <2>3 DEF Catena
    <2> QED  BY <2>1, <2>3, <2>4, <2>5 DEF voci
  <1>2. InOrdine(stato, storia) => StoriaContinua
    BY <1>1 DEF StoriaContinua
  <1> QED  BY <1>2, StorieSempre, PTL

\* Every document a transaction attached to an exhibit is on the card of the
\* one entry that transaction left in the exhibit's history.
THEOREM StoriaSempreCompleta == SpecStoria => []StoriaCompleta
  <1>1. ASSUME InOrdine(stato, storia), Attestati(stato, storia),
               NEW r \in Reperti, NEW tx \in TxIds, stato[ChiaveDocRep(r, tx)] # Nil
        PROVE  LET voci == OttieniStoriaReperto(r)
               IN  Cardinality({i \in DOMAIN voci :
                       /\ voci[i].tx = tx
                       /\ tx \in {voci[i].valore.decreto, voci[i].valore.relazione,
                                  voci[i].valore.riconsegna}}) = 1
    <2> DEFINE v == storia[ChiaveReperto(r)]
               voci == OttieniStoriaReperto(r)
    <2>1. v \in Seq(VociDiScheda)
      BY <1>1 DEF InOrdine, Catena
    <2>2. PICK j \in DOMAIN v : Attesta(v[j], tx) /\ \A i \in DOMAIN v : v[i].tx = tx => i = j
      BY <1>1 DEF Attestati
    <2>3. voci = Reverse(v)
      BY DEF OttieniStoriaReperto
    <2> HIDE DEF v, voci
    <2>4. /\ Len(v) \in Nat /\ DOMAIN voci = 1..Len(v) /\ DOMAIN v = 1..Len(v)
          /\ \A i \in 1..Len(v) : voci[i] = v[Len(v) - i + 1]
      BY <2>1, <2>3, RovesciaVoci
    <2> DEFINE n == Len(v) - j + 1
    <2>5. n \in DOMAIN voci /\ voci[n] = v[j]
      BY <2>4
    <2>6. ASSUME NEW i \in DOMAIN voci, voci[i].tx = tx PROVE i = n
      <3>1. Len(v) - i + 1 \in DOMAIN v /\ voci[i] = v[Len(v) - i + 1]
        BY <2>4
      <3>2. Len(v) - i + 1 = j
        BY <2>2, <2>6, <3>1
      <3> QED  BY <2>4, <3>2
    <2> HIDE DEF n
    <2>7. {i \in DOMAIN voci : Attesta(voci[i], tx)} = {n}
      BY <2>2, <2>5, <2>6 DEF Attesta
    <2>8. Cardinality({i \in DOMAIN voci : Attesta(voci[i], tx)}) = 1
      BY <2>7, FS_Singleton
    <2> QED  BY <2>8 DEF Attesta, voci
  <1>2. InOrdine(stato, storia) /\ Attestati(stato, storia) => StoriaCompleta
    BY <1>1 DEF StoriaCompleta
  <1> QED  BY <1>2, StorieSempre, PTL
=============================================================================
