--------------------------- MODULE ContrattoProofs --------------------------
(***************************************************************************)
(* Lemmas about the operators of Registro and Contratto, for any ledger:   *)
(* what a group of writes leaves under each key, that the writes of each   *)
(* transaction function are well typed, and what each function does to the *)
(* cards of the exhibits and to the documents attached by workflow steps.  *)
(***************************************************************************)
EXTENDS Contratto, TLAPS

-----------------------------------------------------------------------------
(* The key-value map.                                                      *)

\* The writes of a transaction may be applied group by group.
LEMMA Associa ==
    ASSUME NEW s, NEW f, NEW g
    PROVE  s ++ (f ++ g) = (s ++ f) ++ g
  BY DEF ++

\* What each namespace may hold.
LEMMA ValoriDelleChiavi ==
    /\ \A r \in Reperti :
        /\ ChiaveReperto(r) \in Chiavi
        /\ ValoriDi(ChiaveReperto(r)) = RepertoPublic
        /\ ChiavePrivatoReperto(r) \in Chiavi
        /\ ValoriDi(ChiavePrivatoReperto(r)) = RepertoPrivate
        /\ ChiavePrivatoPmLab(r) \in Chiavi
        /\ ValoriDi(ChiavePrivatoPmLab(r)) = RepertoPrivate
    /\ \A c \in Casi, d \in IdAtto :
        /\ ChiaveDocumento(c, d) \in Chiavi
        /\ ValoriDi(ChiaveDocumento(c, d)) = FilePublic
        /\ ChiaveFile("PM_LAB", c, d) \in Chiavi
        /\ ValoriDi(ChiaveFile("PM_LAB", c, d)) = FilePrivate
    /\ \A c \in Casi, id \in Id :
        /\ ChiaveFile("PG_PM", c, id) \in Chiavi
        /\ ValoriDi(ChiaveFile("PG_PM", c, id)) = FilePrivate
    /\ \A c \in Casi, e \in IdEvidenze :
        /\ ChiaveEvidenza(c, e) \in Chiavi
        /\ ValoriDi(ChiaveEvidenza(c, e)) = FilePublic
    /\ \A r \in Reperti, d \in IdAtto :
        /\ ChiaveDocRep(r, d) \in Chiavi
        /\ ValoriDi(ChiaveDocRep(r, d)) = Marcatore
    /\ \A r \in Reperti, e \in IdEvidenze :
        /\ ChiaveEviRep(r, e) \in Chiavi
        /\ ValoriDi(ChiaveEviRep(r, e)) = Marcatore
  <1> USE NilAssumption, IdAssumption DEF ValoriDi, Chiavi, ChiaveReperto,
        ChiavePrivatoReperto, ChiavePrivatoPmLab, ChiaveDocumento, ChiaveFile,
        ChiaveEvidenza, ChiaveDocRep, ChiaveEviRep, Id, IdAtto
  <1>1. \A r \in Reperti :
        /\ ChiaveReperto(r) \in Chiavi
        /\ ValoriDi(ChiaveReperto(r)) = RepertoPublic
        /\ ChiavePrivatoReperto(r) \in Chiavi
        /\ ValoriDi(ChiavePrivatoReperto(r)) = RepertoPrivate
        /\ ChiavePrivatoPmLab(r) \in Chiavi
        /\ ValoriDi(ChiavePrivatoPmLab(r)) = RepertoPrivate
    OBVIOUS
  <1>2. \A c \in Casi, d \in IdAtto :
        /\ ChiaveDocumento(c, d) \in Chiavi
        /\ ValoriDi(ChiaveDocumento(c, d)) = FilePublic
        /\ ChiaveFile("PM_LAB", c, d) \in Chiavi
        /\ ValoriDi(ChiaveFile("PM_LAB", c, d)) = FilePrivate
    OBVIOUS
  <1>3. \A c \in Casi, id \in Id :
        /\ ChiaveFile("PG_PM", c, id) \in Chiavi
        /\ ValoriDi(ChiaveFile("PG_PM", c, id)) = FilePrivate
    OBVIOUS
  <1>4. \A c \in Casi, e \in IdEvidenze :
        /\ ChiaveEvidenza(c, e) \in Chiavi
        /\ ValoriDi(ChiaveEvidenza(c, e)) = FilePublic
    OBVIOUS
  <1>5. \A r \in Reperti, d \in IdAtto :
        /\ ChiaveDocRep(r, d) \in Chiavi
        /\ ValoriDi(ChiaveDocRep(r, d)) = Marcatore
    OBVIOUS
  <1>6. \A r \in Reperti, e \in IdEvidenze :
        /\ ChiaveEviRep(r, e) \in Chiavi
        /\ ValoriDi(ChiaveEviRep(r, e)) = Marcatore
    OBVIOUS
  <1> QED  BY <1>1, <1>2, <1>3, <1>4, <1>5, <1>6

-----------------------------------------------------------------------------
(* Types.                                                                  *)

\* s is a ledger of the right type.
Tipato(s) ==
    /\ s = [k \in Chiavi |-> s[k]]
    /\ \A k \in Chiavi : s[k] \in ValoriDi(k) \cup {Nil}

\* w writes only values of the right type, under keys of the ledger.
Tipata(w) == DOMAIN w \subseteq Chiavi /\ \A k \in DOMAIN w : w[k] \in ValoriDi(k)

\* One write of a value of the key's namespace (PutState, PutPrivateData) is
\* well typed.
LEMMA TipataScrivi ==
    ASSUME NEW k \in Chiavi, NEW v \in ValoriDi(k)
    PROVE  Tipata(Scrivi(k, v))
  BY DEF Tipata, Scrivi

\* A transaction that writes nothing is well typed.
LEMMA TipataNiente == Tipata(Niente)
  BY DEF Tipata, Niente

\* Two groups of writes of one transaction stay well typed together.
LEMMA TipataUnione ==
    ASSUME NEW f, NEW g, Tipata(f), Tipata(g)
    PROVE  Tipata(f ++ g)
  BY DEF Tipata, ++

\* A typed ledger stays typed when a transaction's well-typed writes are
\* applied to it.
LEMMA TipataApplica ==
    ASSUME NEW s, NEW w, Tipato(s), Tipata(w)
    PROVE  Tipato(s ++ w)
  <1>1. DOMAIN s = Chiavi
    BY DEF Tipato
  <1>2. DOMAIN s \cup DOMAIN w = Chiavi
    BY <1>1 DEF Tipata
  <1>3. s ++ w = [x \in Chiavi |-> IF x \in DOMAIN w THEN w[x] ELSE s[x]]
    BY <1>2 DEF ++
  <1> QED  BY <1>3 DEF Tipato, Tipata

\* What a well-typed ledger holds for an exhibit that exists.
LEMMA SchedaTipata ==
    ASSUME NEW s, Tipato(s), NEW r \in Reperti
    PROVE  /\ RepertoExists(s, r) => Scheda(s, r) \in RepertoPublic
           /\ Privato(s, r) # Nil => Privato(s, r) \in RepertoPrivate
  BY ValoriDelleChiavi DEF Tipato, RepertoExists, Scheda, Privato

\* A workflow step is admitted for an exhibit that has a card, in one of the
\* states asked for.
LEMMA InStatoScheda ==
    ASSUME NEW s, Tipato(s), NEW r \in Reperti, NEW S, InStato(s, r, S)
    PROVE  /\ RepertoExists(s, r)
           /\ Scheda(s, r) \in RepertoPublic
           /\ Scheda(s, r).stato \in S
  BY SchedaTipata, NilAssumption DEF InStato, statoEffettivoReperto, RepertoPublic

-----------------------------------------------------------------------------
(* The writes of each function are well typed, where the function is       *)
(* admitted on a typed ledger.                                             *)

\* putDocumento writes the two parts of a document and its index entry, each
\* of the right type.
LEMMA TipataPutDocumento ==
    ASSUME NEW c \in Casi, NEW d \in IdAtto, NEW f \in File,
           NEW priv \in FilePrivate, priv.tipo \in TipiDocumento
    PROVE  Tipata(putDocumento(c, d, f, priv))
  <1> DEFINE pdc == pdcCollectionForTipoDocumento(priv.tipo)
             indice == IF priv.reperto = Nil THEN Niente
                       ELSE Scrivi(ChiaveDocRep(priv.reperto, d), [caso |-> c])
  <1>1. Tipata(Scrivi(ChiaveDocumento(c, d), [cid |-> f]))
    BY ValoriDelleChiavi, TipataScrivi DEF FilePublic
  <1>2. Tipata(Scrivi(ChiaveFile(pdc, c, d), priv))
    <2>1. pdc \in {"PG_PM", "PM_LAB"}
      BY DEF pdcCollectionForTipoDocumento
    <2>2. ChiaveFile(pdc, c, d) \in Chiavi /\ priv \in ValoriDi(ChiaveFile(pdc, c, d))
      BY <2>1, ValoriDelleChiavi DEF Id
    <2> QED  BY <2>2, TipataScrivi
  <1>3. Tipata(indice)
    <2>1. CASE priv.reperto = Nil
      BY <2>1, TipataNiente
    <2>2. CASE priv.reperto # Nil
      <3>1. priv.reperto \in Reperti
        BY <2>2 DEF FilePrivate
      <3> QED  BY <2>2, <3>1, ValoriDelleChiavi, TipataScrivi DEF Marcatore
    <2> QED  BY <2>1, <2>2
  <1>4. putDocumento(c, d, f, priv)
            = Scrivi(ChiaveDocumento(c, d), [cid |-> f])
              ++ Scrivi(ChiaveFile(pdc, c, d), priv) ++ indice
    BY DEF putDocumento
  <1> HIDE DEF pdc, indice
  <1> QED  BY <1>1, <1>2, <1>3, <1>4, TipataUnione

\* A document attached by a workflow step is well typed.
LEMMA TipataAllegato ==
    ASSUME NEW tx \in TxIds, NEW msp \in Msp, NEW c \in Casi, NEW r \in Reperti,
           NEW tipo \in TipiDocumento, NEW f \in File,
           NEW ente \in Laboratori \cup Distretti
    PROVE  Tipata(registraDocumentoAllegato(tx, msp, c, r, tipo, f, ente))
  BY TipataPutDocumento DEF registraDocumentoAllegato, FilePrivate, IdAtto

\* A card written for a known exhibit is well typed.
LEMMA TipataScheda ==
    ASSUME NEW r \in Reperti, NEW p \in RepertoPublic
    PROVE  Tipata(SalvaScheda(r, p))
  BY ValoriDelleChiavi, TipataScrivi DEF SalvaScheda

\* CreaReperto.
LEMMA TipataCreaReperto ==
    ASSUME NEW r \in Reperti, NEW priv \in RepertoPrivate
    PROVE  /\ SchedaNuova(priv) \in RepertoPublic
           /\ Tipata(ScritturaCreaReperto(r, priv))
  <1>1. Tipata(Scrivi(ChiavePrivatoReperto(r), priv))
    BY ValoriDelleChiavi, TipataScrivi
  <1>2. SchedaNuova(priv) \in RepertoPublic
    BY DEF SchedaNuova, RepertoPublic, RepertoPrivate, Stati, AttoONil
  <1> QED  BY <1>1, <1>2, TipataScheda, TipataUnione DEF ScritturaCreaReperto

\* RegistraDocumentoConTransient.
LEMMA TipataRegistraDocumento ==
    ASSUME NEW s, Tipato(s), NEW msp \in Msp, NEW d \in IdDocumenti, NEW c \in Casi,
           NEW tipo \in TipiDocumento, NEW r \in Reperti \cup {Nil}, NEW f \in File,
           AmmetteRegistraDocumento(s, msp, d, c, tipo, r)
    PROVE  Tipata(ScritturaRegistraDocumento(s, msp, d, c, tipo, r, f))
  <1>1. Tipata(putDocumento(c, d, f,
                  [caso |-> c, reperto |-> r, tipo |-> tipo, autore |-> msp,
                   ente |-> Nil, chiave |-> f]))
    BY TipataPutDocumento DEF FilePrivate, IdAtto
  <1>2. Tipata(aggiornaPuntatoreDocumentoSuReperto(s, r, d, tipo))
    <2>1. CASE r = Nil \/ tipo # "VERBALE_SEQUESTRO"
      BY <2>1, TipataNiente DEF aggiornaPuntatoreDocumentoSuReperto
    <2>2. CASE r # Nil /\ tipo = "VERBALE_SEQUESTRO"
      <3>1. r \in Reperti /\ Scheda(s, r) \in RepertoPublic
        BY <2>2, SchedaTipata DEF AmmetteRegistraDocumento
      <3>2. [Scheda(s, r) EXCEPT !.verbale = d] \in RepertoPublic
        BY <3>1 DEF RepertoPublic, AttoONil, IdAtto
      <3> QED  BY <2>2, <3>1, <3>2, TipataScheda
               DEF aggiornaPuntatoreDocumentoSuReperto
    <2> QED  BY <2>1, <2>2
  <1> QED  BY <1>1, <1>2, TipataUnione DEF ScritturaRegistraDocumento

\* RegistraEvidenzaConTransient.
LEMMA TipataRegistraEvidenza ==
    ASSUME NEW msp \in Msp, NEW e \in IdEvidenze, NEW c \in Casi,
           NEW r \in Reperti \cup {Nil}, NEW f \in File
    PROVE  Tipata(ScritturaRegistraEvidenza(msp, e, c, r, f))
  <1> DEFINE priv == [caso |-> c, reperto |-> r, tipo |-> Nil, autore |-> msp,
                      ente |-> Nil, chiave |-> f]
             indice == IF r = Nil THEN Niente
                       ELSE Scrivi(ChiaveEviRep(r, e), [caso |-> c])
  <1>1. Tipata(Scrivi(ChiaveEvidenza(c, e), [cid |-> f]))
    BY ValoriDelleChiavi, TipataScrivi DEF FilePublic
  <1>2. Tipata(Scrivi(ChiaveFile("PG_PM", c, e), priv))
    BY ValoriDelleChiavi, TipataScrivi DEF FilePrivate, Id
  <1>3. Tipata(indice)
    BY ValoriDelleChiavi, TipataScrivi, TipataNiente DEF Marcatore
  <1>4. ScritturaRegistraEvidenza(msp, e, c, r, f)
          = Scrivi(ChiaveEvidenza(c, e), [cid |-> f])
            ++ Scrivi(ChiaveFile("PG_PM", c, e), priv) ++ indice
    BY DEF ScritturaRegistraEvidenza
  <1> HIDE DEF priv, indice
  <1> QED  BY <1>1, <1>2, <1>3, <1>4, TipataUnione

\* What RichiediAnalisi reads where it is admitted.
LEMMA LettoPerRichiesta ==
    ASSUME NEW s, Tipato(s), NEW msp, NEW r \in Reperti, AmmetteRichiediAnalisi(s, msp, r)
    PROVE  /\ Scheda(s, r) \in RepertoPublic /\ Privato(s, r) \in RepertoPrivate
           /\ Privato(s, r).caso \in Casi /\ Scheda(s, r).verbale \in IdAtto
           /\ s[ChiaveVerbale(s, r, "PG_PM")] \in FilePrivate
  <1>1. Scheda(s, r) \in RepertoPublic /\ Privato(s, r) \in RepertoPrivate
    BY SchedaTipata, InStatoScheda DEF AmmetteRichiediAnalisi
  <1>2. Privato(s, r).caso \in Casi /\ Scheda(s, r).verbale \in IdAtto
    BY <1>1 DEF RepertoPrivate, AmmetteRichiediAnalisi, RepertoPublic, AttoONil
  <1>3. s[ChiaveVerbale(s, r, "PG_PM")] \in FilePrivate
    BY <1>2, ValoriDelleChiavi DEF ChiaveVerbale, Tipato, Id, AmmetteRichiediAnalisi
  <1> QED  BY <1>1, <1>2, <1>3

\* The card after a request of analysis.
SchedaRichiesta(s, r, tx, lab) ==
    [Scheda(s, r) EXCEPT !.decreto = tx, !.caso = Privato(s, r).caso, !.lab = lab,
                         !.stato = "ATTESA_TRASPORTO"]

\* RichiediAnalisi.
LEMMA TipataRichiediAnalisi ==
    ASSUME NEW s, Tipato(s), NEW msp \in Msp, NEW tx \in TxIds, NEW r \in Reperti,
           NEW lab \in Laboratori, NEW f \in File, AmmetteRichiediAnalisi(s, msp, r)
    PROVE  /\ SchedaRichiesta(s, r, tx, lab) \in RepertoPublic
           /\ Tipata(ScritturaRichiediAnalisi(s, tx, msp, r, lab, f))
  <1>1. Tipata(registraDocumentoAllegato(tx, msp, Privato(s, r).caso, r,
                                         "DECRETO_ACCERTAMENTO", f, lab))
    BY LettoPerRichiesta, TipataAllegato DEF TipiDocumento
  <1>2. Tipata(Scrivi(ChiavePrivatoPmLab(r), Privato(s, r)))
    BY LettoPerRichiesta, ValoriDelleChiavi, TipataScrivi
  <1>3. Tipata(Scrivi(ChiaveVerbale(s, r, "PM_LAB"), s[ChiaveVerbale(s, r, "PG_PM")]))
    <2>1. ChiaveVerbale(s, r, "PM_LAB") \in Chiavi
          /\ ValoriDi(ChiaveVerbale(s, r, "PM_LAB")) = FilePrivate
      BY LettoPerRichiesta, ValoriDelleChiavi DEF ChiaveVerbale
    <2> QED  BY <2>1, LettoPerRichiesta, TipataScrivi
  <1>4. SchedaRichiesta(s, r, tx, lab) \in RepertoPublic
    <2>1. Scheda(s, r) \in RepertoPublic /\ Privato(s, r).caso \in Casi
      BY LettoPerRichiesta
    <2> QED  BY <2>1 DEF SchedaRichiesta, RepertoPublic, AttoONil, IdAtto, Stati
  <1> QED  BY <1>1, <1>2, <1>3, <1>4, TipataScheda, TipataUnione
           DEF ScritturaRichiediAnalisi, SchedaRichiesta

\* AvviaTrasporto.
LEMMA TipataAvviaTrasporto ==
    ASSUME NEW s, Tipato(s), NEW msp, NEW r \in Reperti, NEW agente \in Agenti,
           AmmetteAvviaTrasporto(s, msp, r)
    PROVE  Tipata(ScritturaAvviaTrasporto(s, r, agente))
  <1>1. Scheda(s, r) \in RepertoPublic
    BY InStatoScheda DEF AmmetteAvviaTrasporto
  <1> QED  BY <1>1, TipataScheda DEF ScritturaAvviaTrasporto, RepertoPublic, Stati

\* RiceviInLaboratorio.
LEMMA TipataRiceviInLaboratorio ==
    ASSUME NEW s, Tipato(s), NEW msp, NEW r \in Reperti, NEW lab \in Laboratori,
           AmmetteRiceviInLaboratorio(s, msp, r, lab)
    PROVE  Tipata(ScritturaRiceviInLaboratorio(s, r, lab))
  <1>1. Scheda(s, r) \in RepertoPublic
    BY InStatoScheda DEF AmmetteRiceviInLaboratorio
  <1> QED  BY <1>1, TipataScheda DEF ScritturaRiceviInLaboratorio, RepertoPublic, Stati

\* CompletaAnalisi, if the custodian on the card is a laboratory.
LEMMA TipataCompletaAnalisi ==
    ASSUME NEW s, Tipato(s), NEW msp \in Msp, NEW tx \in TxIds, NEW r \in Reperti,
           NEW f \in File, AmmetteCompletaAnalisi(s, msp, r),
           Scheda(s, r).custode \in Laboratori
    PROVE  Tipata(ScritturaCompletaAnalisi(s, tx, msp, r, f))
  <1>1. Scheda(s, r) \in RepertoPublic
    BY InStatoScheda DEF AmmetteCompletaAnalisi
  <1>2. Scheda(s, r).caso \in Casi
    BY <1>1 DEF RepertoPublic
  <1>3. Tipata(registraDocumentoAllegato(tx, msp, Scheda(s, r).caso, r,
                   "RELAZIONE_TECNICA", f, Scheda(s, r).custode))
    BY <1>2, TipataAllegato DEF TipiDocumento
  <1>4. [Scheda(s, r) EXCEPT !.relazione = tx, !.stato = "ATTESA_RITIRO"] \in RepertoPublic
    BY <1>1 DEF RepertoPublic, AttoONil, IdAtto, Stati
  <1> QED  BY <1>3, <1>4, TipataScheda, TipataUnione DEF ScritturaCompletaAnalisi

\* DepositaInSede.
LEMMA TipataDepositaInSede ==
    ASSUME NEW s, Tipato(s), NEW msp \in Msp, NEW tx \in TxIds, NEW r \in Reperti,
           NEW f \in File, AmmetteDepositaInSede(s, msp, r)
    PROVE  /\ CasoDelReperto(s, r) \in Casi
           /\ Tipata(ScritturaDepositaInSede(s, tx, msp, r, f))
  <1>1. Scheda(s, r) \in RepertoPublic /\ Privato(s, r) \in RepertoPrivate
    BY SchedaTipata, InStatoScheda DEF AmmetteDepositaInSede
  <1>2. CasoDelReperto(s, r) \in Casi /\ Privato(s, r).distretto \in Distretti
    BY <1>1 DEF CasoDelReperto, RepertoPublic, RepertoPrivate
  <1>3. Tipata(registraDocumentoAllegato(tx, msp, CasoDelReperto(s, r), r,
                   "VERBALE_RICONSEGNA", f, Privato(s, r).distretto))
    BY <1>2, TipataAllegato DEF TipiDocumento, TipiPg
  <1>4. [Scheda(s, r) EXCEPT !.riconsegna = tx, !.stato = "SEQUESTRATO",
              !.custode = Privato(s, r).distretto] \in RepertoPublic
    BY <1>1, <1>2 DEF RepertoPublic, AttoONil, IdAtto, Stati
  <1> QED  BY <1>2, <1>3, <1>4, TipataScheda, TipataUnione DEF ScritturaDepositaInSede

-----------------------------------------------------------------------------
(* What groups of writes leave on a ledger.                                *)

\* Ledgers s and t differ at most under the keys K.
SoloChiavi(s, t, K) == \A k \in Chiavi \ K : t[k] = s[k]

\* After one write.
LEMMA EffettoScrivi ==
    ASSUME NEW s, Tipato(s), NEW k, NEW v
    PROVE  /\ (s ++ Scrivi(k, v))[k] = v
           /\ SoloChiavi(s, s ++ Scrivi(k, v), {k})
  BY DEF SoloChiavi, Tipato, Scrivi, ++

\* After putDocumento.
LEMMA EffettoPutDocumento ==
    ASSUME NEW s, Tipato(s), NEW c \in Casi, NEW d \in IdAtto, NEW f, NEW priv,
           NEW t, t = s ++ putDocumento(c, d, f, priv)
    PROVE  LET kf == ChiaveFile(pdcCollectionForTipoDocumento(priv.tipo), c, d)
           IN  /\ t[ChiaveDocumento(c, d)] = [cid |-> f]
               /\ t[kf] = priv
               /\ priv.reperto # Nil => t[ChiaveDocRep(priv.reperto, d)] = [caso |-> c]
               /\ SoloChiavi(s, t, {ChiaveDocumento(c, d), kf}
                     \cup (IF priv.reperto = Nil THEN {}
                           ELSE {ChiaveDocRep(priv.reperto, d)}))
  <1> DEFINE kf == ChiaveFile(pdcCollectionForTipoDocumento(priv.tipo), c, d)
  <1>1. kf # ChiaveDocumento(c, d) /\ kf # ChiaveDocRep(priv.reperto, d)
    BY DEF ChiaveDocumento, ChiaveDocRep, ChiaveFile, pdcCollectionForTipoDocumento
  <1>2. ChiaveDocRep(priv.reperto, d) # ChiaveDocumento(c, d)
    BY DEF ChiaveDocRep, ChiaveDocumento
  <1>3. DOMAIN s = Chiavi
    BY DEF Tipato
  <1>4. putDocumento(c, d, f, priv)
            = Scrivi(ChiaveDocumento(c, d), [cid |-> f]) ++ Scrivi(kf, priv)
              ++ (IF priv.reperto = Nil THEN Niente
                  ELSE Scrivi(ChiaveDocRep(priv.reperto, d), [caso |-> c]))
    BY DEF putDocumento
  <1> HIDE DEF kf
  <1>5. /\ t[ChiaveDocumento(c, d)] = [cid |-> f]
        /\ t[kf] = priv
        /\ priv.reperto # Nil => t[ChiaveDocRep(priv.reperto, d)] = [caso |-> c]
        /\ SoloChiavi(s, t, {ChiaveDocumento(c, d), kf}
              \cup (IF priv.reperto = Nil THEN {} ELSE {ChiaveDocRep(priv.reperto, d)}))
    BY <1>1, <1>2, <1>3, <1>4 DEF SoloChiavi, Scrivi, Niente, ++
  <1> QED  BY <1>5 DEF kf

\* After RegistraEvidenzaConTransient.
LEMMA EffettoRegistraEvidenza ==
    ASSUME NEW s, Tipato(s), NEW msp, NEW e \in IdEvidenze, NEW c \in Casi, NEW r, NEW f,
           NEW t, t = s ++ ScritturaRegistraEvidenza(msp, e, c, r, f)
    PROVE  /\ t[ChiaveEvidenza(c, e)] = [cid |-> f]
           /\ t[ChiaveFile("PG_PM", c, e)]
                = [caso |-> c, reperto |-> r, tipo |-> Nil, autore |-> msp,
                   ente |-> Nil, chiave |-> f]
           /\ r # Nil => t[ChiaveEviRep(r, e)] = [caso |-> c]
           /\ SoloChiavi(s, t, {ChiaveEvidenza(c, e), ChiaveFile("PG_PM", c, e)}
                               \cup (IF r = Nil THEN {} ELSE {ChiaveEviRep(r, e)}))
  <1>1. /\ ChiaveFile("PG_PM", c, e) # ChiaveEvidenza(c, e)
        /\ ChiaveFile("PG_PM", c, e) # ChiaveEviRep(r, e)
        /\ ChiaveEviRep(r, e) # ChiaveEvidenza(c, e)
    BY DEF ChiaveEvidenza, ChiaveEviRep, ChiaveFile
  <1>2. DOMAIN s = Chiavi
    BY DEF Tipato
  <1> QED  BY <1>1, <1>2
           DEF SoloChiavi, ScritturaRegistraEvidenza, Scrivi, Niente, ++

-----------------------------------------------------------------------------
(* Cards of exhibits and documents attached to them.                       *)

\* No card and no private data of an exhibit differ.
SchedeUguali(s, t) ==
    \A q \in Reperti : Scheda(t, q) = Scheda(s, q) /\ Privato(t, q) = Privato(s, q)

\* Only the card of r differs: it is now p.
CambiaScheda(s, t, r, p) ==
    /\ Scheda(t, r) = p
    /\ \A q \in Reperti \ {r} : Scheda(t, q) = Scheda(s, q)
    /\ \A q \in Reperti : Privato(t, q) = Privato(s, q)

\* The public part, both private parts and the index entries of the document
\* attached by transaction tx do not differ.
AttoUguale(s, t, tx) ==
    /\ \A c \in Casi : /\ t[ChiaveDocumento(c, tx)] = s[ChiaveDocumento(c, tx)]
                       /\ t[ChiaveFile("PG_PM", c, tx)] = s[ChiaveFile("PG_PM", c, tx)]
                       /\ t[ChiaveFile("PM_LAB", c, tx)] = s[ChiaveFile("PM_LAB", c, tx)]
    /\ \A q \in Reperti : t[ChiaveDocRep(q, tx)] = s[ChiaveDocRep(q, tx)]

AttiUguali(s, t) == \A tx \in TxIds : AttoUguale(s, t, tx)

\* Transaction tx has attached the document with private part priv to exhibit
\* r, in case c; nothing else differs among the attached documents.
Allega(s, t, tx, c, r, priv) ==
    LET kf == ChiaveFile(pdcCollectionForTipoDocumento(priv.tipo), c, tx)
    IN  /\ t[ChiaveDocumento(c, tx)] = [cid |-> priv.chiave]
        /\ t[kf] = priv
        /\ t[ChiaveDocRep(r, tx)] = [caso |-> c]
        /\ \A x \in TxIds \ {tx} : AttoUguale(s, t, x)
        /\ \A cc \in Casi \ {c} : t[ChiaveDocumento(cc, tx)] = s[ChiaveDocumento(cc, tx)]
        /\ \A pdc \in {"PG_PM", "PM_LAB"}, cc \in Casi :
              ChiaveFile(pdc, cc, tx) # kf
                => t[ChiaveFile(pdc, cc, tx)] = s[ChiaveFile(pdc, cc, tx)]

\* The private part of an attached document.
PrivatoAllegato(msp, c, r, tipo, f, ente) ==
    [caso |-> c, reperto |-> r, tipo |-> tipo, autore |-> msp, ente |-> ente,
     chiave |-> f]

\* What two groups of writes leave alone.
LEMMA UgualiPoi ==
    ASSUME NEW s, NEW t, NEW u
    PROVE  /\ SchedeUguali(s, t) /\ SchedeUguali(t, u) => SchedeUguali(s, u)
           /\ AttiUguali(s, t) /\ AttiUguali(t, u) => AttiUguali(s, u)
           /\ \A r \in Reperti : \A p :
                SchedeUguali(s, t) /\ CambiaScheda(t, u, r, p) => CambiaScheda(s, u, r, p)
  BY DEF SchedeUguali, AttiUguali, AttoUguale, CambiaScheda

\* What follows an attachment and leaves attached documents alone.
LEMMA AllegaPoi ==
    ASSUME NEW s, NEW t, NEW u, NEW tx \in TxIds, NEW c \in Casi, NEW r \in Reperti,
           NEW priv, Allega(s, t, tx, c, r, priv), AttiUguali(t, u)
    PROVE  Allega(s, u, tx, c, r, priv)
  <1> DEFINE kf == ChiaveFile(pdcCollectionForTipoDocumento(priv.tipo), c, tx)
  <1>1. AttoUguale(t, u, tx)
    BY DEF AttiUguali
  <1>2. \A pdc \in {"PG_PM", "PM_LAB"}, cc \in Casi :
            u[ChiaveFile(pdc, cc, tx)] = t[ChiaveFile(pdc, cc, tx)]
    BY <1>1 DEF AttoUguale
  <1>3. u[kf] = t[kf]
    BY <1>2 DEF pdcCollectionForTipoDocumento
  <1>4. \A x \in TxIds \ {tx} : AttoUguale(s, u, x)
    BY DEF AttiUguali, AttoUguale, Allega
  <1>5. u[ChiaveDocumento(c, tx)] = [cid |-> priv.chiave]
        /\ u[ChiaveDocRep(r, tx)] = [caso |-> c]
    BY <1>1 DEF AttoUguale, Allega
  <1>6. \A pdc \in {"PG_PM", "PM_LAB"}, cc \in Casi :
              ChiaveFile(pdc, cc, tx) # kf
                => u[ChiaveFile(pdc, cc, tx)] = s[ChiaveFile(pdc, cc, tx)]
    BY <1>2 DEF Allega
  <1>7. u[kf] = priv
    BY <1>3 DEF Allega
  <1>8. \A cc \in Casi \ {c} : u[ChiaveDocumento(cc, tx)] = s[ChiaveDocumento(cc, tx)]
    BY <1>1 DEF Allega, AttoUguale
  <1> QED  BY <1>4, <1>5, <1>6, <1>7, <1>8 DEF Allega

\* A card is saved.
LEMMA DopoScheda ==
    ASSUME NEW s, Tipato(s), NEW r \in Reperti, NEW p
    PROVE  /\ CambiaScheda(s, s ++ SalvaScheda(r, p), r, p)
           /\ AttiUguali(s, s ++ SalvaScheda(r, p))
           /\ SoloChiavi(s, s ++ SalvaScheda(r, p), {ChiaveReperto(r)})
  <1> DEFINE t == s ++ SalvaScheda(r, p)
  <1>1. t[ChiaveReperto(r)] = p /\ SoloChiavi(s, t, {ChiaveReperto(r)})
    BY EffettoScrivi DEF SalvaScheda
  <1> HIDE DEF t
  <1>2. CambiaScheda(s, t, r, p)
    <2>1. \A q \in Reperti : /\ ChiavePrivatoReperto(q) # ChiaveReperto(r)
                             /\ q # r => ChiaveReperto(q) # ChiaveReperto(r)
      BY DEF ChiaveReperto, ChiavePrivatoReperto
    <2> QED  BY <1>1, <2>1, ValoriDelleChiavi DEF SoloChiavi, CambiaScheda, Scheda, Privato
  <1>3. AttiUguali(s, t)
    <2>1. \A c, x, pdc : /\ ChiaveReperto(r) # ChiaveDocumento(c, x)
                         /\ pdc # "PUB" => ChiaveReperto(r) # ChiaveFile(pdc, c, x)
                         /\ ChiaveReperto(r) # ChiaveDocRep(c, x)
      BY DEF ChiaveReperto, ChiaveDocumento, ChiaveFile, ChiaveDocRep
    <2> QED  BY <1>1, <2>1, ValoriDelleChiavi DEF SoloChiavi, AttiUguali, AttoUguale, Id, IdAtto
  <1> QED  BY <1>1, <1>2, <1>3 DEF t

\* A document is filed: no card differs.
LEMMA SchedeDopoDocumento ==
    ASSUME NEW s, Tipato(s), NEW c \in Casi, NEW d \in IdAtto, NEW f, NEW priv
    PROVE  SchedeUguali(s, s ++ putDocumento(c, d, f, priv))
  <1> DEFINE t == s ++ putDocumento(c, d, f, priv)
             kf == ChiaveFile(pdcCollectionForTipoDocumento(priv.tipo), c, d)
             K == {ChiaveDocumento(c, d), kf}
                  \cup (IF priv.reperto = Nil THEN {} ELSE {ChiaveDocRep(priv.reperto, d)})
  <1>1. SoloChiavi(s, t, K)
    BY EffettoPutDocumento
  <1>2. d # Nil
    BY NilAssumption DEF IdAtto
  <1>3. \A q \in Reperti : ChiaveReperto(q) \notin K /\ ChiavePrivatoReperto(q) \notin K
    BY <1>2 DEF ChiaveReperto, ChiavePrivatoReperto, ChiaveDocumento, ChiaveFile,
                ChiaveDocRep, pdcCollectionForTipoDocumento
  <1> HIDE DEF t, K
  <1>4. SchedeUguali(s, t)
    BY <1>1, <1>3, ValoriDelleChiavi DEF SoloChiavi, SchedeUguali, Scheda, Privato
  <1> QED  BY <1>4 DEF t

\* A client's document is filed: no attached document differs.
LEMMA AttiDopoDocumento ==
    ASSUME NEW s, Tipato(s), NEW c \in Casi, NEW d \in IdDocumenti, NEW f, NEW priv
    PROVE  AttiUguali(s, s ++ putDocumento(c, d, f, priv))
  <1> DEFINE t == s ++ putDocumento(c, d, f, priv)
             kf == ChiaveFile(pdcCollectionForTipoDocumento(priv.tipo), c, d)
             K == {ChiaveDocumento(c, d), kf}
                  \cup (IF priv.reperto = Nil THEN {} ELSE {ChiaveDocRep(priv.reperto, d)})
  <1>1. SoloChiavi(s, t, K)
    BY EffettoPutDocumento DEF IdAtto
  <1>2. \A tx \in TxIds : tx # d
    BY IdAssumption
  <1>3. \A k \in K : k[3] = d
    BY DEF ChiaveDocumento, ChiaveFile, ChiaveDocRep
  <1>4. \A tx \in TxIds : \A x, y : <<x, y, tx>> \notin K
    BY <1>2, <1>3
  <1> HIDE DEF t, K
  <1>5. AttiUguali(s, t)
    BY <1>1, <1>4, ValoriDelleChiavi
       DEF SoloChiavi, AttiUguali, AttoUguale, Id, IdAtto, ChiaveDocumento, ChiaveFile,
           ChiaveDocRep
  <1> QED  BY <1>5 DEF t

\* A workflow step attaches its document.
LEMMA DopoAllegato ==
    ASSUME NEW s, Tipato(s), NEW tx \in TxIds, NEW msp, NEW c \in Casi, NEW r \in Reperti,
           NEW tipo, NEW f, NEW ente
    PROVE  LET t == s ++ registraDocumentoAllegato(tx, msp, c, r, tipo, f, ente)
           IN  /\ SchedeUguali(s, t)
               /\ Allega(s, t, tx, c, r, PrivatoAllegato(msp, c, r, tipo, f, ente))
  <1> DEFINE priv == PrivatoAllegato(msp, c, r, tipo, f, ente)
             t == s ++ putDocumento(c, tx, f, priv)
             kf == ChiaveFile(pdcCollectionForTipoDocumento(priv.tipo), c, tx)
             K == {ChiaveDocumento(c, tx), kf, ChiaveDocRep(r, tx)}
  <1>1. registraDocumentoAllegato(tx, msp, c, r, tipo, f, ente) = putDocumento(c, tx, f, priv)
    BY DEF registraDocumentoAllegato, PrivatoAllegato
  <1>2. tx \in IdAtto /\ r # Nil
    BY NilAssumption DEF IdAtto
  <1>3. priv.reperto = r /\ priv.chiave = f
    BY DEF PrivatoAllegato
  <1>4. SchedeUguali(s, t)
    BY <1>2, SchedeDopoDocumento
  <1> HIDE DEF priv
  <1>5. /\ t[ChiaveDocumento(c, tx)] = [cid |-> f]
        /\ t[kf] = priv
        /\ t[ChiaveDocRep(r, tx)] = [caso |-> c]
        /\ SoloChiavi(s, t, {ChiaveDocumento(c, tx), kf} \cup {ChiaveDocRep(r, tx)})
    <2>1. t = s ++ putDocumento(c, tx, f, priv)
      OBVIOUS
    <2>2. kf = ChiaveFile(pdcCollectionForTipoDocumento(priv.tipo), c, tx)
      OBVIOUS
    <2> HIDE DEF t, kf
    <2>3. /\ t[ChiaveDocumento(c, tx)] = [cid |-> f]
          /\ t[kf] = priv
          /\ priv.reperto # Nil => t[ChiaveDocRep(priv.reperto, tx)] = [caso |-> c]
          /\ SoloChiavi(s, t, {ChiaveDocumento(c, tx), kf}
                \cup (IF priv.reperto = Nil THEN {} ELSE {ChiaveDocRep(priv.reperto, tx)}))
      BY <1>2, <2>1, <2>2, EffettoPutDocumento
    <2> QED  BY <1>2, <1>3, <2>3
  <1>6. SoloChiavi(s, t, K)
    BY <1>5 DEF SoloChiavi
  <1>7. \A k \in K : k[3] = tx
    BY DEF ChiaveDocumento, ChiaveFile, ChiaveDocRep
  <1>8. \A x \in TxIds \ {tx} : \A y, z : <<y, z, x>> \notin K
    BY <1>7
  <1>9. \A cc \in Casi \ {c} : ChiaveDocumento(cc, tx) \notin K
    BY DEF ChiaveDocumento, ChiaveFile, ChiaveDocRep, pdcCollectionForTipoDocumento
  <1>10. \A pdc \in {"PG_PM", "PM_LAB"}, cc \in Casi :
            ChiaveFile(pdc, cc, tx) # kf => ChiaveFile(pdc, cc, tx) \notin K
    BY DEF ChiaveDocumento, ChiaveFile, ChiaveDocRep
  <1> HIDE DEF t, K
  <1>11. \A x \in TxIds \ {tx} : AttoUguale(s, t, x)
    BY <1>6, <1>8, ValoriDelleChiavi
       DEF SoloChiavi, AttoUguale, Id, IdAtto, ChiaveDocumento, ChiaveFile, ChiaveDocRep
  <1>12. \A cc \in Casi \ {c} : t[ChiaveDocumento(cc, tx)] = s[ChiaveDocumento(cc, tx)]
    BY <1>2, <1>6, <1>9, ValoriDelleChiavi DEF SoloChiavi
  <1>13. \A pdc \in {"PG_PM", "PM_LAB"}, cc \in Casi :
            ChiaveFile(pdc, cc, tx) # kf
                => t[ChiaveFile(pdc, cc, tx)] = s[ChiaveFile(pdc, cc, tx)]
    BY <1>2, <1>6, <1>10, ValoriDelleChiavi DEF SoloChiavi, Id
  <1>14. Allega(s, t, tx, c, r, priv)
    BY <1>3, <1>5, <1>11, <1>12, <1>13 DEF Allega
  <1> QED  BY <1>1, <1>4, <1>14 DEF t, priv

\* The laboratory's copy of a client's document is written.
LEMMA DopoCopia ==
    ASSUME NEW s, Tipato(s), NEW c \in Casi, NEW d \in IdDocumenti, NEW v
    PROVE  LET t == s ++ Scrivi(ChiaveFile("PM_LAB", c, d), v)
           IN  SchedeUguali(s, t) /\ AttiUguali(s, t)
  <1> DEFINE k == ChiaveFile("PM_LAB", c, d)
             t == s ++ Scrivi(k, v)
  <1>1. SoloChiavi(s, t, {k})
    BY EffettoScrivi
  <1>2. \A q \in Reperti : ChiaveReperto(q) # k /\ ChiavePrivatoReperto(q) # k
    BY DEF ChiaveReperto, ChiavePrivatoReperto, ChiaveFile
  <1>3. \A tx \in TxIds : \A x, y : <<x, y, tx>> # k
    BY IdAssumption DEF ChiaveFile
  <1> HIDE DEF t, k
  <1>4. SchedeUguali(s, t)
    BY <1>1, <1>2, ValoriDelleChiavi DEF SoloChiavi, SchedeUguali, Scheda, Privato
  <1>5. AttiUguali(s, t)
    BY <1>1, <1>3, ValoriDelleChiavi
       DEF SoloChiavi, AttiUguali, AttoUguale, Id, IdAtto, ChiaveDocumento, ChiaveFile,
           ChiaveDocRep
  <1> QED  BY <1>4, <1>5 DEF t, k

\* The laboratory's copy of an exhibit's private data is written.
LEMMA DopoPrivatoPmLab ==
    ASSUME NEW s, Tipato(s), NEW r \in Reperti, NEW v
    PROVE  LET t == s ++ Scrivi(ChiavePrivatoPmLab(r), v)
           IN  SchedeUguali(s, t) /\ AttiUguali(s, t)
  <1> DEFINE k == ChiavePrivatoPmLab(r)
             t == s ++ Scrivi(k, v)
  <1>1. SoloChiavi(s, t, {k})
    BY EffettoScrivi
  <1>2. \A q \in Reperti : ChiaveReperto(q) # k /\ ChiavePrivatoReperto(q) # k
    BY DEF ChiaveReperto, ChiavePrivatoReperto, ChiaveFile, ChiavePrivatoPmLab
  <1>3. /\ \A c \in Casi : \A tx, pdc : ChiaveDocumento(c, tx) # k /\ ChiaveFile(pdc, c, tx) # k
        /\ \A q, tx : ChiaveDocRep(q, tx) # k
    BY IdAssumption DEF ChiaveFile, ChiavePrivatoPmLab, ChiaveDocumento, ChiaveDocRep
  <1> HIDE DEF t, k
  <1>4. SchedeUguali(s, t)
    BY <1>1, <1>2, ValoriDelleChiavi DEF SoloChiavi, SchedeUguali, Scheda, Privato
  <1>5. AttiUguali(s, t)
    BY <1>1, <1>3, ValoriDelleChiavi DEF SoloChiavi, AttiUguali, AttoUguale, Id, IdAtto
  <1> QED  BY <1>4, <1>5 DEF t, k

\* RegistraEvidenzaConTransient: neither cards nor attached documents differ.
LEMMA DopoRegistraEvidenza ==
    ASSUME NEW s, Tipato(s), NEW msp, NEW e \in IdEvidenze, NEW c \in Casi, NEW r, NEW f
    PROVE  LET t == s ++ ScritturaRegistraEvidenza(msp, e, c, r, f)
           IN  SchedeUguali(s, t) /\ AttiUguali(s, t)
  <1> DEFINE t == s ++ ScritturaRegistraEvidenza(msp, e, c, r, f)
             K == {ChiaveEvidenza(c, e), ChiaveFile("PG_PM", c, e)}
                    \cup (IF r = Nil THEN {} ELSE {ChiaveEviRep(r, e)})
  <1>1. SoloChiavi(s, t, K)
    BY EffettoRegistraEvidenza
  <1>2. e # Nil /\ \A tx \in TxIds : tx # e
    BY NilAssumption, IdAssumption
  <1>3. \A k \in K : k[3] = e
    BY DEF ChiaveEvidenza, ChiaveFile, ChiaveEviRep
  <1>4. \A q \in Reperti : ChiaveReperto(q) \notin K /\ ChiavePrivatoReperto(q) \notin K
    BY <1>2, <1>3 DEF ChiaveReperto, ChiavePrivatoReperto
  <1>5. \A tx \in TxIds : \A x, y : <<x, y, tx>> \notin K
    BY <1>2, <1>3
  <1> HIDE DEF t, K
  <1>6. SchedeUguali(s, t)
    BY <1>1, <1>4, ValoriDelleChiavi DEF SoloChiavi, SchedeUguali, Scheda, Privato
  <1>7. AttiUguali(s, t)
    BY <1>1, <1>5, ValoriDelleChiavi
       DEF SoloChiavi, AttiUguali, AttoUguale, Id, IdAtto, ChiaveDocumento, ChiaveFile,
           ChiaveDocRep
  <1> QED  BY <1>6, <1>7 DEF t

\* CreaReperto: a new card, with the private data it was made from.
LEMMA DopoCreaReperto ==
    ASSUME NEW s, Tipato(s), NEW r \in Reperti, NEW priv \in RepertoPrivate
    PROVE  LET t == s ++ ScritturaCreaReperto(r, priv)
           IN  /\ Scheda(t, r) = SchedaNuova(priv) /\ Privato(t, r) = priv
               /\ \A q \in Reperti \ {r} : /\ Scheda(t, q) = Scheda(s, q)
                                           /\ Privato(t, q) = Privato(s, q)
               /\ AttiUguali(s, t)
               /\ SoloChiavi(s, t, {ChiaveReperto(r), ChiavePrivatoReperto(r)})
  <1> DEFINE u == s ++ Scrivi(ChiavePrivatoReperto(r), priv)
             t == u ++ SalvaScheda(r, SchedaNuova(priv))
  <1>0. s ++ ScritturaCreaReperto(r, priv) = t
    BY Associa DEF ScritturaCreaReperto
  <1>1. Tipato(u)
    BY ValoriDelleChiavi, TipataScrivi, TipataApplica
  <1>2. /\ u[ChiavePrivatoReperto(r)] = priv
        /\ SoloChiavi(s, u, {ChiavePrivatoReperto(r)})
    BY EffettoScrivi
  <1>3. /\ CambiaScheda(u, t, r, SchedaNuova(priv))
        /\ AttiUguali(u, t)
        /\ SoloChiavi(u, t, {ChiaveReperto(r)})
    BY <1>1, DopoScheda
  <1> HIDE DEF t, u
  <1>4. \A q \in Reperti \ {r} : /\ Scheda(t, q) = Scheda(s, q)
                                 /\ Privato(t, q) = Privato(s, q)
    <2>1. \A q \in Reperti : /\ ChiavePrivatoReperto(r) # ChiaveReperto(q)
                             /\ q # r => ChiavePrivatoReperto(q) # ChiavePrivatoReperto(r)
      BY DEF ChiaveReperto, ChiavePrivatoReperto
    <2> QED  BY <1>2, <1>3, <2>1, ValoriDelleChiavi
             DEF SoloChiavi, CambiaScheda, Scheda, Privato
  <1>5. AttiUguali(s, u)
    <2>1. \A x \in TxIds : \A y, z : <<y, z, x>> # ChiavePrivatoReperto(r)
      BY NilAssumption DEF ChiavePrivatoReperto
    <2> QED  BY <1>2, <2>1, ValoriDelleChiavi
             DEF SoloChiavi, AttiUguali, AttoUguale, Id, IdAtto, ChiaveDocumento,
                 ChiaveFile, ChiaveDocRep
  <1> QED  BY <1>0, <1>2, <1>3, <1>4, <1>5, UgualiPoi
           DEF CambiaScheda, SoloChiavi, Privato

\* RegistraDocumentoConTransient: the first seizure report filed for an
\* exhibit becomes its verbale; no other part of a card differs.
LEMMA DopoRegistraDocumento ==
    ASSUME NEW s, Tipato(s), NEW msp \in Msp, NEW d \in IdDocumenti, NEW c \in Casi,
           NEW tipo \in TipiDocumento, NEW r \in Reperti \cup {Nil}, NEW f \in File,
           AmmetteRegistraDocumento(s, msp, d, c, tipo, r)
    PROVE  LET t == s ++ ScritturaRegistraDocumento(s, msp, d, c, tipo, r, f)
           IN  /\ AttiUguali(s, t)
               /\ \/ SchedeUguali(s, t)
                  \/ /\ r \in Reperti /\ RepertoExists(s, r) /\ Scheda(s, r).verbale = Nil
                     /\ tipo = "VERBALE_SEQUESTRO"
                     /\ CambiaScheda(s, t, r, [Scheda(s, r) EXCEPT !.verbale = d])
  <1> DEFINE priv == PrivatoAllegato(msp, c, r, tipo, f, Nil)
             u == s ++ putDocumento(c, d, f, priv)
             w == aggiornaPuntatoreDocumentoSuReperto(s, r, d, tipo)
             t == u ++ w
  <1>0. s ++ ScritturaRegistraDocumento(s, msp, d, c, tipo, r, f) = t
    BY Associa DEF ScritturaRegistraDocumento, PrivatoAllegato
  <1>1. Tipato(u)
    BY TipataPutDocumento, TipataApplica DEF PrivatoAllegato, FilePrivate, IdAtto
  <1>2. SchedeUguali(s, u) /\ AttiUguali(s, u)
    BY SchedeDopoDocumento, AttiDopoDocumento DEF IdAtto
  <1> HIDE DEF u
  <1>3. CASE r = Nil \/ tipo # "VERBALE_SEQUESTRO"
    <2>1. w = Niente
      BY <1>3 DEF aggiornaPuntatoreDocumentoSuReperto
    <2>2. SchedeUguali(u, t) /\ AttiUguali(u, t)
      <3>1. t = u
        BY <1>1, <2>1 DEF Tipato, ++, Niente
      <3> QED  BY <3>1 DEF SchedeUguali, AttiUguali, AttoUguale
    <2> QED  BY <1>0, <1>2, <2>2, UgualiPoi
  <1>4. CASE r # Nil /\ tipo = "VERBALE_SEQUESTRO"
    <2> DEFINE p == IF Scheda(s, r).verbale = Nil
                    THEN [Scheda(s, r) EXCEPT !.verbale = d] ELSE Scheda(s, r)
    <2>1. r \in Reperti /\ RepertoExists(s, r)
      BY <1>4 DEF AmmetteRegistraDocumento
    <2>2. w = SalvaScheda(r, p)
      BY <1>4 DEF aggiornaPuntatoreDocumentoSuReperto
    <2>3. CambiaScheda(u, t, r, p) /\ AttiUguali(u, t)
      BY <1>1, <2>1, <2>2, DopoScheda
    <2>4. CambiaScheda(s, t, r, p) /\ AttiUguali(s, t)
      BY <1>2, <2>1, <2>3, UgualiPoi
    <2> HIDE DEF t
    <2>5. CASE Scheda(s, r).verbale = Nil
      BY <1>0, <1>4, <2>1, <2>4, <2>5 DEF t
    <2>6. CASE Scheda(s, r).verbale # Nil
      <3>1. SchedeUguali(s, t)
        BY <2>4, <2>6 DEF CambiaScheda, SchedeUguali
      <3> QED  BY <1>0, <2>4, <3>1 DEF t
    <2> QED  BY <2>5, <2>6
  <1> QED  BY <1>3, <1>4

\* AvviaTrasporto.
LEMMA DopoAvviaTrasporto ==
    ASSUME NEW s, Tipato(s), NEW r \in Reperti, NEW agente
    PROVE  LET t == s ++ ScritturaAvviaTrasporto(s, r, agente)
           IN  /\ AttiUguali(s, t)
               /\ CambiaScheda(s, t, r, [Scheda(s, r) EXCEPT !.stato = "IN_TRANSITO",
                                                             !.custode = agente])
  BY DopoScheda DEF ScritturaAvviaTrasporto

\* RiceviInLaboratorio.
LEMMA DopoRiceviInLaboratorio ==
    ASSUME NEW s, Tipato(s), NEW r \in Reperti, NEW lab
    PROVE  LET t == s ++ ScritturaRiceviInLaboratorio(s, r, lab)
           IN  /\ AttiUguali(s, t)
               /\ CambiaScheda(s, t, r, [Scheda(s, r) EXCEPT !.stato = "IN_ANALISI",
                                                             !.custode = lab])
  BY DopoScheda DEF ScritturaRiceviInLaboratorio

\* A document is attached, then the card is saved.
LEMMA DopoAllegatoEScheda ==
    ASSUME NEW s, Tipato(s), NEW tx \in TxIds, NEW msp \in Msp, NEW c \in Casi,
           NEW r \in Reperti, NEW tipo \in TipiDocumento, NEW f \in File,
           NEW ente \in Laboratori \cup Distretti, NEW p
    PROVE  LET t == s ++ (registraDocumentoAllegato(tx, msp, c, r, tipo, f, ente)
                          ++ SalvaScheda(r, p))
           IN  /\ CambiaScheda(s, t, r, p)
               /\ Allega(s, t, tx, c, r, PrivatoAllegato(msp, c, r, tipo, f, ente))
  <1> DEFINE u == s ++ registraDocumentoAllegato(tx, msp, c, r, tipo, f, ente)
             t == u ++ SalvaScheda(r, p)
  <1>1. Tipato(u)
    BY TipataAllegato, TipataApplica
  <1>2. /\ SchedeUguali(s, u)
        /\ Allega(s, u, tx, c, r, PrivatoAllegato(msp, c, r, tipo, f, ente))
    BY DopoAllegato
  <1> HIDE DEF u
  <1>3. CambiaScheda(u, t, r, p) /\ AttiUguali(u, t)
    BY <1>1, DopoScheda
  <1> HIDE DEF t
  <1>4. /\ CambiaScheda(s, t, r, p)
        /\ Allega(s, t, tx, c, r, PrivatoAllegato(msp, c, r, tipo, f, ente))
    BY <1>2, <1>3, UgualiPoi, AllegaPoi
  <1> QED  BY <1>4, Associa DEF t, u

\* CompletaAnalisi.
LEMMA DopoCompletaAnalisi ==
    ASSUME NEW s, Tipato(s), NEW msp \in Msp, NEW tx \in TxIds, NEW r \in Reperti,
           NEW f \in File, AmmetteCompletaAnalisi(s, msp, r),
           Scheda(s, r).custode \in Laboratori
    PROVE  LET t == s ++ ScritturaCompletaAnalisi(s, tx, msp, r, f)
           IN  /\ CambiaScheda(s, t, r, [Scheda(s, r) EXCEPT !.relazione = tx,
                                                             !.stato = "ATTESA_RITIRO"])
               /\ Allega(s, t, tx, Scheda(s, r).caso, r,
                         PrivatoAllegato(msp, Scheda(s, r).caso, r, "RELAZIONE_TECNICA",
                                         f, Scheda(s, r).custode))
  <1>1. Scheda(s, r).caso \in Casi
    BY InStatoScheda DEF AmmetteCompletaAnalisi, RepertoPublic
  <1> QED  BY <1>1, DopoAllegatoEScheda DEF ScritturaCompletaAnalisi, TipiDocumento

\* DepositaInSede.
LEMMA DopoDepositaInSede ==
    ASSUME NEW s, Tipato(s), NEW msp \in Msp, NEW tx \in TxIds, NEW r \in Reperti,
           NEW f \in File, AmmetteDepositaInSede(s, msp, r)
    PROVE  LET t == s ++ ScritturaDepositaInSede(s, tx, msp, r, f)
           IN  /\ CambiaScheda(s, t, r, [Scheda(s, r) EXCEPT
                         !.riconsegna = tx, !.stato = "SEQUESTRATO",
                         !.custode = Privato(s, r).distretto])
               /\ Allega(s, t, tx, CasoDelReperto(s, r), r,
                         PrivatoAllegato(msp, CasoDelReperto(s, r), r, "VERBALE_RICONSEGNA",
                                         f, Privato(s, r).distretto))
  <1>1. CasoDelReperto(s, r) \in Casi
    BY TipataDepositaInSede
  <1>2. Privato(s, r).distretto \in Distretti
    BY SchedaTipata DEF AmmetteDepositaInSede, RepertoPrivate
  <1> QED  BY <1>1, <1>2, DopoAllegatoEScheda
           DEF ScritturaDepositaInSede, TipiDocumento, TipiPg

\* RichiediAnalisi, where the verbale is a document a client filed.
LEMMA DopoRichiediAnalisi ==
    ASSUME NEW s, Tipato(s), NEW msp \in Msp, NEW tx \in TxIds, NEW r \in Reperti,
           NEW lab \in Laboratori, NEW f \in File, AmmetteRichiediAnalisi(s, msp, r),
           Scheda(s, r).verbale \in IdDocumenti
    PROVE  LET t == s ++ ScritturaRichiediAnalisi(s, tx, msp, r, lab, f)
               c == Privato(s, r).caso
           IN  /\ CambiaScheda(s, t, r, SchedaRichiesta(s, r, tx, lab))
               /\ Allega(s, t, tx, c, r,
                         PrivatoAllegato(msp, c, r, "DECRETO_ACCERTAMENTO", f, lab))
               /\ t[ChiavePrivatoPmLab(r)] = Privato(s, r)
               /\ t[ChiaveVerbale(s, r, "PM_LAB")] = s[ChiaveVerbale(s, r, "PG_PM")]
  <1> DEFINE c == Privato(s, r).caso
             d == Scheda(s, r).verbale
             priv == PrivatoAllegato(msp, c, r, "DECRETO_ACCERTAMENTO", f, lab)
             kp == ChiavePrivatoPmLab(r)
             kv == ChiaveFile("PM_LAB", c, d)
             copia == s[ChiaveFile("PG_PM", c, d)]
             p == SchedaRichiesta(s, r, tx, lab)
             u == s ++ registraDocumentoAllegato(tx, msp, c, r, "DECRETO_ACCERTAMENTO", f, lab)
             v == u ++ Scrivi(kp, Privato(s, r))
             w == v ++ Scrivi(kv, copia)
             t == w ++ SalvaScheda(r, p)
  <1>0. s ++ ScritturaRichiediAnalisi(s, tx, msp, r, lab, f) = t
    BY Associa DEF ScritturaRichiediAnalisi, SchedaRichiesta, ChiaveVerbale
  <1>1. /\ c \in Casi /\ d \in IdDocumenti /\ copia \in FilePrivate
        /\ Privato(s, r) \in RepertoPrivate
    BY LettoPerRichiesta DEF ChiaveVerbale
  <1>2. /\ kp \in Chiavi /\ ValoriDi(kp) = RepertoPrivate
        /\ kv \in Chiavi /\ ValoriDi(kv) = FilePrivate
        /\ kp # kv /\ kp # ChiaveReperto(r) /\ kv # ChiaveReperto(r)
    BY <1>1, ValoriDelleChiavi, IdAssumption
       DEF IdAtto, ChiavePrivatoPmLab, ChiaveFile, ChiaveReperto
  <1>3. SchedeUguali(s, u) /\ Allega(s, u, tx, c, r, priv)
    BY <1>1, DopoAllegato
  <1>4. Tipato(u)
    BY <1>1, TipataAllegato, TipataApplica DEF TipiDocumento
  <1> HIDE DEF u, priv, copia, c, d
  <1>5. /\ SchedeUguali(u, v) /\ AttiUguali(u, v)
        /\ v[kp] = Privato(s, r)
    <2> DEFINE x == Privato(s, r)
    <2>1. v = u ++ Scrivi(ChiavePrivatoPmLab(r), x)
      OBVIOUS
    <2> HIDE DEF v, x
    <2>2. SchedeUguali(u, v) /\ AttiUguali(u, v)
      BY <1>4, <2>1, DopoPrivatoPmLab
    <2>3. v[kp] = x
      BY <2>1 DEF Scrivi, ++
    <2> QED  BY <2>2, <2>3 DEF x
  <1>6. Tipato(v)
    BY <1>1, <1>2, <1>4, TipataScrivi, TipataApplica
  <1> HIDE DEF v
  <1>7. /\ SchedeUguali(v, w) /\ AttiUguali(v, w)
        /\ w[kv] = copia /\ w[kp] = v[kp]
    <2>1. w[kv] = copia /\ SoloChiavi(v, w, {kv})
      BY <1>6, EffettoScrivi
    <2> QED  BY <1>1, <1>2, <1>6, <2>1, DopoCopia DEF SoloChiavi
  <1>8. Tipato(w)
    BY <1>1, <1>2, <1>6, TipataScrivi, TipataApplica
  <1> HIDE DEF w, p
  <1>9. /\ CambiaScheda(w, t, r, p) /\ AttiUguali(w, t)
        /\ t[kv] = w[kv] /\ t[kp] = w[kp]
    BY <1>2, <1>8, DopoScheda DEF SoloChiavi
  <1> HIDE DEF t
  <1>10. SchedeUguali(s, w)
    BY <1>3, <1>5, <1>7, UgualiPoi
  <1>11. CambiaScheda(s, t, r, p)
    BY <1>9, <1>10, UgualiPoi
  <1>12. AttiUguali(u, t)
    BY <1>5, <1>7, <1>9, UgualiPoi
  <1>13. Allega(s, t, tx, c, r, priv)
    BY <1>1, <1>3, <1>12, AllegaPoi
  <1>14. t[kp] = Privato(s, r) /\ t[kv] = copia
    BY <1>5, <1>7, <1>9
  <1> QED  BY <1>0, <1>11, <1>13, <1>14 DEF p, c, d, priv, kp, kv, copia, ChiaveVerbale

-----------------------------------------------------------------------------
(* Calls.  ValeF: on ledger s a client of msp is admitted to a call of F   *)
(* that reads the keys R and writes w as transaction tx.                   *)

ValeCreaReperto(s, msp, tx, R, w) ==
    \E r \in Reperti, priv \in RepertoPrivate :
        /\ AmmetteCreaReperto(s, msp, r)
        /\ tx = Nil /\ R = LetturaCreaReperto(r)
        /\ w = ScritturaCreaReperto(r, priv)

ValeRegistraDocumento(s, msp, tx, R, w) ==
    \E d \in IdDocumenti, c \in Casi, tipo \in TipiDocumento,
       r \in Reperti \cup {Nil}, f \in File :
        /\ AmmetteRegistraDocumento(s, msp, d, c, tipo, r)
        /\ tx = Nil /\ R = LetturaRegistraDocumento(d, c, r)
        /\ w = ScritturaRegistraDocumento(s, msp, d, c, tipo, r, f)

ValeRegistraEvidenza(s, msp, tx, R, w) ==
    \E e \in IdEvidenze, c \in Casi, r \in Reperti \cup {Nil}, f \in File :
        /\ AmmetteRegistraEvidenza(s, msp, e, c, r)
        /\ tx = Nil /\ R = LetturaRegistraEvidenza(e, c, r)
        /\ w = ScritturaRegistraEvidenza(msp, e, c, r, f)

ValeRichiediAnalisi(s, msp, tx, R, w) ==
    \E r \in Reperti, lab \in Laboratori, f \in File :
        /\ AmmetteRichiediAnalisi(s, msp, r)
        /\ tx \in TxIds /\ R = LetturaRichiediAnalisi(s, r)
        /\ w = ScritturaRichiediAnalisi(s, tx, msp, r, lab, f)

ValeAvviaTrasporto(s, msp, tx, R, w) ==
    \E r \in Reperti, agente \in Agenti :
        /\ AmmetteAvviaTrasporto(s, msp, r)
        /\ tx = Nil /\ R = LetturaScheda(r)
        /\ w = ScritturaAvviaTrasporto(s, r, agente)

ValeRiceviInLaboratorio(s, msp, tx, R, w) ==
    \E r \in Reperti, lab \in Laboratori :
        /\ AmmetteRiceviInLaboratorio(s, msp, r, lab)
        /\ tx = Nil /\ R = LetturaScheda(r)
        /\ w = ScritturaRiceviInLaboratorio(s, r, lab)

ValeCompletaAnalisi(s, msp, tx, R, w) ==
    \E r \in Reperti, f \in File :
        /\ AmmetteCompletaAnalisi(s, msp, r)
        /\ tx \in TxIds /\ R = LetturaScheda(r)
        /\ w = ScritturaCompletaAnalisi(s, tx, msp, r, f)

ValePreparaRiconsegna(s, msp, tx, R, w) ==
    \E r \in Reperti :
        /\ AmmettePreparaRiconsegna(s, msp, r)
        /\ tx = Nil /\ R = LetturaScheda(r) /\ w = Niente

ValeDepositaInSede(s, msp, tx, R, w) ==
    \E r \in Reperti, f \in File :
        /\ AmmetteDepositaInSede(s, msp, r)
        /\ tx \in TxIds /\ R = LetturaDepositaInSede(r)
        /\ w = ScritturaDepositaInSede(s, tx, msp, r, f)

ValePer(s, msp, tx, R, w) ==
    \/ ValeCreaReperto(s, msp, tx, R, w)
    \/ ValeRegistraDocumento(s, msp, tx, R, w)
    \/ ValeRegistraEvidenza(s, msp, tx, R, w)
    \/ ValeRichiediAnalisi(s, msp, tx, R, w)
    \/ ValeAvviaTrasporto(s, msp, tx, R, w)
    \/ ValeRiceviInLaboratorio(s, msp, tx, R, w)
    \/ ValeCompletaAnalisi(s, msp, tx, R, w)
    \/ ValePreparaRiconsegna(s, msp, tx, R, w)
    \/ ValeDepositaInSede(s, msp, tx, R, w)

Vale(s, tx, R, w) == \E msp \in Msp : ValePer(s, msp, tx, R, w)

\* A call of any function depends on nothing but the keys it reads: where they
\* hold the same values it is admitted again, with the same writes.
LEMMA LetturaDiOgnuna ==
    ASSUME NEW s, NEW t, NEW msp, NEW tx, NEW R, NEW w,
           \A k \in R : t[k] = s[k]
    PROVE  /\ ValeCreaReperto(s, msp, tx, R, w) => ValeCreaReperto(t, msp, tx, R, w)
           /\ ValeRegistraDocumento(s, msp, tx, R, w) => ValeRegistraDocumento(t, msp, tx, R, w)
           /\ ValeRegistraEvidenza(s, msp, tx, R, w) => ValeRegistraEvidenza(t, msp, tx, R, w)
           /\ ValeRichiediAnalisi(s, msp, tx, R, w) => ValeRichiediAnalisi(t, msp, tx, R, w)
           /\ ValeAvviaTrasporto(s, msp, tx, R, w) => ValeAvviaTrasporto(t, msp, tx, R, w)
           /\ ValeRiceviInLaboratorio(s, msp, tx, R, w)
                => ValeRiceviInLaboratorio(t, msp, tx, R, w)
           /\ ValeCompletaAnalisi(s, msp, tx, R, w) => ValeCompletaAnalisi(t, msp, tx, R, w)
           /\ ValePreparaRiconsegna(s, msp, tx, R, w) => ValePreparaRiconsegna(t, msp, tx, R, w)
           /\ ValeDepositaInSede(s, msp, tx, R, w) => ValeDepositaInSede(t, msp, tx, R, w)
  <1>1. ASSUME NEW r, ChiaveReperto(r) \in R
        PROVE  /\ Scheda(t, r) = Scheda(s, r) /\ RepertoExists(t, r) = RepertoExists(s, r)
               /\ \A S : InStato(t, r, S) = InStato(s, r, S)
    BY <1>1 DEF Scheda, RepertoExists, InStato
  <1>2. ASSUME NEW r, ChiavePrivatoReperto(r) \in R PROVE Privato(t, r) = Privato(s, r)
    BY <1>2 DEF Privato
  <1>3. ASSUME ValeCreaReperto(s, msp, tx, R, w) PROVE ValeCreaReperto(t, msp, tx, R, w)
    BY <1>1, <1>3 DEF ValeCreaReperto, AmmetteCreaReperto, LetturaCreaReperto
  <1>4. ASSUME ValeRegistraDocumento(s, msp, tx, R, w)
        PROVE  ValeRegistraDocumento(t, msp, tx, R, w)
    <2>1. PICK d \in IdDocumenti, c \in Casi, tipo \in TipiDocumento,
               r \in Reperti \cup {Nil}, f \in File :
            /\ AmmetteRegistraDocumento(s, msp, d, c, tipo, r)
            /\ tx = Nil /\ R = LetturaRegistraDocumento(d, c, r)
            /\ w = ScritturaRegistraDocumento(s, msp, d, c, tipo, r, f)
      BY <1>4 DEF ValeRegistraDocumento
    <2>2. /\ t[ChiaveDocumento(c, d)] = s[ChiaveDocumento(c, d)]
          /\ r # Nil => /\ Scheda(t, r) = Scheda(s, r)
                        /\ RepertoExists(t, r) = RepertoExists(s, r)
      BY <1>1, <2>1 DEF LetturaRegistraDocumento
    <2>3. AmmetteRegistraDocumento(t, msp, d, c, tipo, r)
      BY <2>1, <2>2 DEF AmmetteRegistraDocumento
    <2>4. aggiornaPuntatoreDocumentoSuReperto(t, r, d, tipo)
            = aggiornaPuntatoreDocumentoSuReperto(s, r, d, tipo)
      BY <2>2 DEF aggiornaPuntatoreDocumentoSuReperto
    <2>5. w = ScritturaRegistraDocumento(t, msp, d, c, tipo, r, f)
      BY <2>1, <2>4 DEF ScritturaRegistraDocumento
    <2> QED  BY <2>1, <2>3, <2>5 DEF ValeRegistraDocumento
  <1>5. ASSUME ValeRegistraEvidenza(s, msp, tx, R, w)
        PROVE  ValeRegistraEvidenza(t, msp, tx, R, w)
    BY <1>1, <1>5 DEF ValeRegistraEvidenza, AmmetteRegistraEvidenza, LetturaRegistraEvidenza
  <1>6. ASSUME ValeRichiediAnalisi(s, msp, tx, R, w)
        PROVE  ValeRichiediAnalisi(t, msp, tx, R, w)
    <2>1. PICK r \in Reperti, lab \in Laboratori, f \in File :
            /\ AmmetteRichiediAnalisi(s, msp, r)
            /\ tx \in TxIds /\ R = LetturaRichiediAnalisi(s, r)
            /\ w = ScritturaRichiediAnalisi(s, tx, msp, r, lab, f)
      BY <1>6 DEF ValeRichiediAnalisi
    <2>2. /\ Scheda(t, r) = Scheda(s, r) /\ Privato(t, r) = Privato(s, r)
          /\ \A S : InStato(t, r, S) = InStato(s, r, S)
      BY <1>1, <1>2, <2>1 DEF LetturaRichiediAnalisi
    <2>3. \A pdc : ChiaveVerbale(t, r, pdc) = ChiaveVerbale(s, r, pdc)
      BY <2>2 DEF ChiaveVerbale
    <2>4. t[ChiaveVerbale(t, r, "PG_PM")] = s[ChiaveVerbale(s, r, "PG_PM")]
      BY <2>1, <2>3 DEF LetturaRichiediAnalisi
    <2>5. AmmetteRichiediAnalisi(t, msp, r)
      BY <2>1, <2>2, <2>4 DEF AmmetteRichiediAnalisi
    <2>6. R = LetturaRichiediAnalisi(t, r)
      BY <2>1, <2>3 DEF LetturaRichiediAnalisi
    <2>7. ScritturaRichiediAnalisi(t, tx, msp, r, lab, f)
            = ScritturaRichiediAnalisi(s, tx, msp, r, lab, f)
      BY <2>2, <2>3, <2>4 DEF ScritturaRichiediAnalisi
    <2> QED  BY <2>1, <2>5, <2>6, <2>7 DEF ValeRichiediAnalisi
  <1>7. ASSUME ValeAvviaTrasporto(s, msp, tx, R, w)
        PROVE  ValeAvviaTrasporto(t, msp, tx, R, w)
    BY <1>1, <1>7 DEF ValeAvviaTrasporto, AmmetteAvviaTrasporto, LetturaScheda,
                      ScritturaAvviaTrasporto
  <1>8. ASSUME ValeRiceviInLaboratorio(s, msp, tx, R, w)
        PROVE  ValeRiceviInLaboratorio(t, msp, tx, R, w)
    BY <1>1, <1>8 DEF ValeRiceviInLaboratorio, AmmetteRiceviInLaboratorio, LetturaScheda,
                      ScritturaRiceviInLaboratorio
  <1>9. ASSUME ValeCompletaAnalisi(s, msp, tx, R, w)
        PROVE  ValeCompletaAnalisi(t, msp, tx, R, w)
    BY <1>1, <1>9 DEF ValeCompletaAnalisi, AmmetteCompletaAnalisi, LetturaScheda,
                      ScritturaCompletaAnalisi
  <1>10. ASSUME ValePreparaRiconsegna(s, msp, tx, R, w)
         PROVE  ValePreparaRiconsegna(t, msp, tx, R, w)
    BY <1>1, <1>10 DEF ValePreparaRiconsegna, AmmettePreparaRiconsegna, LetturaScheda
  <1>11. ASSUME ValeDepositaInSede(s, msp, tx, R, w)
         PROVE  ValeDepositaInSede(t, msp, tx, R, w)
    BY <1>1, <1>2, <1>11 DEF ValeDepositaInSede, AmmetteDepositaInSede, CasoDelReperto,
                             LetturaDepositaInSede, ScritturaDepositaInSede
  <1> QED  BY <1>3, <1>4, <1>5, <1>6, <1>7, <1>8, <1>9, <1>10, <1>11

\* The same, whichever function is called.
LEMMA BastaLaLettura ==
    ASSUME NEW s, NEW t, NEW msp, NEW tx, NEW R, NEW w,
           \A k \in R : t[k] = s[k],
           ValePer(s, msp, tx, R, w)
    PROVE  ValePer(t, msp, tx, R, w)
  BY LetturaDiOgnuna DEF ValePer

\* The laboratory that completes an analysis is a laboratory.
CustodiNoti(s) ==
    \A r \in Reperti : InStato(s, r, {"IN_ANALISI"}) => Scheda(s, r).custode \in Laboratori

\* A call reads keys of the ledger and writes values of their namespaces.
LEMMA ValeTipata ==
    ASSUME NEW s, Tipato(s), CustodiNoti(s), NEW msp \in Msp, NEW tx, NEW R, NEW w,
           ValePer(s, msp, tx, R, w)
    PROVE  tx \in TxIds \cup {Nil} /\ R \subseteq Chiavi /\ Tipata(w)
  <1>1. ASSUME ValeCreaReperto(s, msp, tx, R, w)
        PROVE  tx \in TxIds \cup {Nil} /\ R \subseteq Chiavi /\ Tipata(w)
    BY <1>1, TipataCreaReperto, ValoriDelleChiavi DEF ValeCreaReperto, LetturaCreaReperto
  <1>2. ASSUME ValeRegistraDocumento(s, msp, tx, R, w)
        PROVE  tx \in TxIds \cup {Nil} /\ R \subseteq Chiavi /\ Tipata(w)
    BY <1>2, TipataRegistraDocumento, ValoriDelleChiavi
       DEF ValeRegistraDocumento, LetturaRegistraDocumento, IdAtto
  <1>3. ASSUME ValeRegistraEvidenza(s, msp, tx, R, w)
        PROVE  tx \in TxIds \cup {Nil} /\ R \subseteq Chiavi /\ Tipata(w)
    BY <1>3, TipataRegistraEvidenza, ValoriDelleChiavi
       DEF ValeRegistraEvidenza, LetturaRegistraEvidenza
  <1>4. ASSUME ValeRichiediAnalisi(s, msp, tx, R, w)
        PROVE  tx \in TxIds \cup {Nil} /\ R \subseteq Chiavi /\ Tipata(w)
    <2>1. \A c \in Casi, d \in IdAtto : ChiaveFile("PG_PM", c, d) \in Chiavi
      BY ValoriDelleChiavi DEF Id
    <2> QED  BY <1>4, <2>1, TipataRichiediAnalisi, LettoPerRichiesta, ValoriDelleChiavi
                DEF ValeRichiediAnalisi, LetturaRichiediAnalisi, ChiaveVerbale
  <1>5. ASSUME ValeAvviaTrasporto(s, msp, tx, R, w)
        PROVE  tx \in TxIds \cup {Nil} /\ R \subseteq Chiavi /\ Tipata(w)
    BY <1>5, TipataAvviaTrasporto, ValoriDelleChiavi DEF ValeAvviaTrasporto, LetturaScheda
  <1>6. ASSUME ValeRiceviInLaboratorio(s, msp, tx, R, w)
        PROVE  tx \in TxIds \cup {Nil} /\ R \subseteq Chiavi /\ Tipata(w)
    BY <1>6, TipataRiceviInLaboratorio, ValoriDelleChiavi
       DEF ValeRiceviInLaboratorio, LetturaScheda
  <1>7. ASSUME ValeCompletaAnalisi(s, msp, tx, R, w)
        PROVE  tx \in TxIds \cup {Nil} /\ R \subseteq Chiavi /\ Tipata(w)
    BY <1>7, TipataCompletaAnalisi, ValoriDelleChiavi
       DEF ValeCompletaAnalisi, LetturaScheda, AmmetteCompletaAnalisi, CustodiNoti
  <1>8. ASSUME ValePreparaRiconsegna(s, msp, tx, R, w)
        PROVE  tx \in TxIds \cup {Nil} /\ R \subseteq Chiavi /\ Tipata(w)
    BY <1>8, TipataNiente, ValoriDelleChiavi DEF ValePreparaRiconsegna, LetturaScheda
  <1>9. ASSUME ValeDepositaInSede(s, msp, tx, R, w)
        PROVE  tx \in TxIds \cup {Nil} /\ R \subseteq Chiavi /\ Tipata(w)
    BY <1>9, TipataDepositaInSede, ValoriDelleChiavi
       DEF ValeDepositaInSede, LetturaDepositaInSede
  <1> QED  BY <1>1, <1>2, <1>3, <1>4, <1>5, <1>6, <1>7, <1>8, <1>9 DEF ValePer
=============================================================================
