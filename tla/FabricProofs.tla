---------------------------- MODULE FabricProofs ----------------------------
(***************************************************************************)
(* Proofs about calls in flight, for every value of the constants: the     *)
(* read sets are enough for Fabric to serialize the calls of the contract, *)
(* so what is proved of one call at a time holds under concurrency.        *)
(***************************************************************************)
EXTENDS Fabric, ContrattoProofs

\* The contract one call at a time, with what is proved of it.
P == INSTANCE FascicoloProofs

-----------------------------------------------------------------------------
(* Which documents and evidence a call registers.                          *)

\* The keys of public parts of documents and evidence among those w writes.
Registrati(w) == {k \in DOMAIN w : k[1] \in {"DOC", "EVI"}}

\* Groups of writes, put together or one by one.
LEMMA RegistratiUnione ==
    /\ \A f, g : Registrati(f ++ g) = Registrati(f) \cup Registrati(g)
    /\ \A k, v : Registrati(Scrivi(k, v)) = IF k[1] \in {"DOC", "EVI"} THEN {k} ELSE {}
    /\ Registrati(Niente) = {}
  BY DEF Registrati, ++, Scrivi, Niente

\* Writes that register nothing, and those that register a document.
LEMMA RegistratiGruppi ==
    /\ \A r, p : Registrati(SalvaScheda(r, p)) = {}
    /\ \A k, v : k[1] \in {"PG_PM", "PM_LAB"} => Registrati(Scrivi(k, v)) = {}
    /\ \A c, d, f, priv : Registrati(putDocumento(c, d, f, priv)) = {ChiaveDocumento(c, d)}
    /\ \A tx, msp, c, r, tipo, f, ente :
          Registrati(registraDocumentoAllegato(tx, msp, c, r, tipo, f, ente))
            = {ChiaveDocumento(c, tx)}
  <1>1. \A r, p : Registrati(SalvaScheda(r, p)) = {}
    BY RegistratiUnione DEF SalvaScheda, ChiaveReperto
  <1>2. \A k, v : k[1] \in {"PG_PM", "PM_LAB"} => Registrati(Scrivi(k, v)) = {}
    BY RegistratiUnione
  <1>3. ASSUME NEW c, NEW d, NEW f, NEW priv
        PROVE  Registrati(putDocumento(c, d, f, priv)) = {ChiaveDocumento(c, d)}
    <2>1. Registrati(Scrivi(ChiaveDocumento(c, d), [cid |-> f])) = {ChiaveDocumento(c, d)}
      BY RegistratiUnione DEF ChiaveDocumento
    <2>2. Registrati(Scrivi(ChiaveFile(pdcCollectionForTipoDocumento(priv.tipo), c, d), priv)) = {}
      BY <1>2 DEF ChiaveFile, pdcCollectionForTipoDocumento
    <2>3. Registrati(IF priv.reperto = Nil THEN Niente
                     ELSE Scrivi(ChiaveDocRep(priv.reperto, d), [caso |-> c])) = {}
      BY RegistratiUnione DEF ChiaveDocRep
    <2> QED  BY <2>1, <2>2, <2>3, RegistratiUnione DEF putDocumento
  <1>4. \A tx, msp, c, r, tipo, f, ente :
            Registrati(registraDocumentoAllegato(tx, msp, c, r, tipo, f, ente))
                = {ChiaveDocumento(c, tx)}
    BY <1>3 DEF registraDocumentoAllegato
  <1> QED  BY <1>1, <1>2, <1>3, <1>4

\* A call registers what was not registered before under an id of a client, or
\* a document under the id of its own transaction.
LEMMA ValeRegistra ==
    ASSUME NEW s, Tipato(s), NEW msp, NEW tx, NEW R, NEW w, ValePer(s, msp, tx, R, w),
           NEW k \in Registrati(w)
    PROVE  \/ tx = Nil /\ s[k] = Nil /\ k[3] \in IdDocumenti \cup IdEvidenze
           \/ tx \in TxIds /\ \E c \in Casi : k = ChiaveDocumento(c, tx)
  <1> DEFINE Nuovo == \/ tx = Nil /\ s[k] = Nil /\ k[3] \in IdDocumenti \cup IdEvidenze
                      \/ tx \in TxIds /\ \E c \in Casi : k = ChiaveDocumento(c, tx)
  <1>1. ASSUME ValeCreaReperto(s, msp, tx, R, w) PROVE Nuovo
    BY <1>1, RegistratiUnione, RegistratiGruppi
       DEF ValeCreaReperto, ScritturaCreaReperto, ChiavePrivatoReperto
  <1>2. ASSUME ValeRegistraDocumento(s, msp, tx, R, w) PROVE Nuovo
    <2>1. PICK d \in IdDocumenti, c \in Casi, tipo \in TipiDocumento,
               r \in Reperti \cup {Nil}, f \in File :
            /\ AmmetteRegistraDocumento(s, msp, d, c, tipo, r)
            /\ tx = Nil /\ R = LetturaRegistraDocumento(d, c, r)
            /\ w = ScritturaRegistraDocumento(s, msp, d, c, tipo, r, f)
      BY <1>2 DEF ValeRegistraDocumento
    <2>2. Registrati(aggiornaPuntatoreDocumentoSuReperto(s, r, d, tipo)) = {}
      BY RegistratiUnione, RegistratiGruppi DEF aggiornaPuntatoreDocumentoSuReperto
    <2>3. k = ChiaveDocumento(c, d)
      BY <2>1, <2>2, RegistratiUnione, RegistratiGruppi DEF ScritturaRegistraDocumento
    <2> QED  BY <2>1, <2>3 DEF AmmetteRegistraDocumento, ChiaveDocumento
  <1>3. ASSUME ValeRegistraEvidenza(s, msp, tx, R, w) PROVE Nuovo
    <2>1. PICK e \in IdEvidenze, c \in Casi, r \in Reperti \cup {Nil}, f \in File :
            /\ AmmetteRegistraEvidenza(s, msp, e, c, r)
            /\ tx = Nil /\ R = LetturaRegistraEvidenza(e, c, r)
            /\ w = ScritturaRegistraEvidenza(msp, e, c, r, f)
      BY <1>3 DEF ValeRegistraEvidenza
    <2>2. Registrati(IF r = Nil THEN Niente
                     ELSE Scrivi(ChiaveEviRep(r, e), [caso |-> c])) = {}
      BY RegistratiUnione DEF ChiaveEviRep
    <2>3. Registrati(Scrivi(ChiaveEvidenza(c, e), [cid |-> f])) = {ChiaveEvidenza(c, e)}
      BY RegistratiUnione DEF ChiaveEvidenza
    <2>4. \A v : Registrati(Scrivi(ChiaveFile("PG_PM", c, e), v)) = {}
      BY RegistratiGruppi DEF ChiaveFile
    <2>5. k = ChiaveEvidenza(c, e)
      BY <2>1, <2>2, <2>3, <2>4, RegistratiUnione DEF ScritturaRegistraEvidenza
    <2> QED  BY <2>1, <2>5 DEF AmmetteRegistraEvidenza, ChiaveEvidenza
  <1>4. ASSUME ValeRichiediAnalisi(s, msp, tx, R, w) PROVE Nuovo
    <2>1. PICK r \in Reperti, lab \in Laboratori, f \in File :
            /\ AmmetteRichiediAnalisi(s, msp, r) /\ tx \in TxIds
            /\ w = ScritturaRichiediAnalisi(s, tx, msp, r, lab, f)
      BY <1>4 DEF ValeRichiediAnalisi
    <2>2. Privato(s, r).caso \in Casi
      BY <2>1, LettoPerRichiesta
    <2>3. \A v : /\ Registrati(Scrivi(ChiavePrivatoPmLab(r), v)) = {}
                 /\ Registrati(Scrivi(ChiaveVerbale(s, r, "PM_LAB"), v)) = {}
      BY RegistratiGruppi DEF ChiaveFile, ChiavePrivatoPmLab, ChiaveVerbale
    <2>4. k = ChiaveDocumento(Privato(s, r).caso, tx)
      BY <2>1, <2>3, RegistratiUnione, RegistratiGruppi DEF ScritturaRichiediAnalisi
    <2> QED  BY <2>1, <2>2, <2>4
  <1>5. ASSUME ValeAvviaTrasporto(s, msp, tx, R, w) PROVE Nuovo
    BY <1>5, RegistratiGruppi DEF ValeAvviaTrasporto, ScritturaAvviaTrasporto
  <1>6. ASSUME ValeRiceviInLaboratorio(s, msp, tx, R, w) PROVE Nuovo
    BY <1>6, RegistratiGruppi DEF ValeRiceviInLaboratorio, ScritturaRiceviInLaboratorio
  <1>7. ASSUME ValeCompletaAnalisi(s, msp, tx, R, w) PROVE Nuovo
    <2>1. PICK r \in Reperti, f \in File :
            /\ AmmetteCompletaAnalisi(s, msp, r) /\ tx \in TxIds
            /\ w = ScritturaCompletaAnalisi(s, tx, msp, r, f)
      BY <1>7 DEF ValeCompletaAnalisi
    <2>2. Scheda(s, r).caso \in Casi
      <3>1. Scheda(s, r) \in RepertoPublic
        BY <2>1, InStatoScheda DEF AmmetteCompletaAnalisi
      <3> QED  BY <3>1 DEF RepertoPublic
    <2>3. k = ChiaveDocumento(Scheda(s, r).caso, tx)
      BY <2>1, RegistratiUnione, RegistratiGruppi DEF ScritturaCompletaAnalisi
    <2> QED  BY <2>1, <2>2, <2>3
  <1>8. ASSUME ValePreparaRiconsegna(s, msp, tx, R, w) PROVE Nuovo
    BY <1>8, RegistratiUnione DEF ValePreparaRiconsegna
  <1>9. ASSUME ValeDepositaInSede(s, msp, tx, R, w) PROVE Nuovo
    <2>1. PICK r \in Reperti, f \in File :
            /\ AmmetteDepositaInSede(s, msp, r) /\ tx \in TxIds
            /\ w = ScritturaDepositaInSede(s, tx, msp, r, f)
      BY <1>9 DEF ValeDepositaInSede
    <2>2. CasoDelReperto(s, r) \in Casi
      <3>1. Scheda(s, r) \in RepertoPublic /\ Privato(s, r) \in RepertoPrivate
        BY <2>1, InStatoScheda, SchedaTipata DEF AmmetteDepositaInSede
      <3> QED  BY <3>1 DEF CasoDelReperto, RepertoPublic, RepertoPrivate
    <2>3. k = ChiaveDocumento(CasoDelReperto(s, r), tx)
      BY <2>1, RegistratiUnione, RegistratiGruppi DEF ScritturaDepositaInSede
    <2> QED  BY <2>1, <2>2, <2>3
  <1> QED  BY <1>1, <1>2, <1>3, <1>4, <1>5, <1>6, <1>7, <1>8, <1>9 DEF ValePer

-----------------------------------------------------------------------------
(* Which cards and which entries of the index of documents a call writes.  *)

\* Of the writes w: the keys of cards, those of the index of documents.
Schede(w) == {k \in DOMAIN w : k[1] = "PUB"}
Voci(w) == {k \in DOMAIN w : k[1] = "DOCREP"}

\* Card p of exhibit r is saved, and no other.
Salva(w, r, p) == Schede(w) = {ChiaveReperto(r)} /\ w[ChiaveReperto(r)] = p

\* No document is filed under the id of a transaction.
SenzaAllegato(w, tx) == tx = Nil /\ \A k \in Voci(w) : k[3] \notin TxIds

\* Transaction tx attaches a document to exhibit r.
AllegaA(w, tx, r) ==
    /\ tx \in TxIds
    /\ Voci(w) = {ChiaveDocRep(r, tx)}
    /\ \E c \in Casi : ChiaveDocumento(c, tx) \in DOMAIN w

\* Groups of writes, put together or one by one.
LEMMA SchedeEVociUnione ==
    /\ \A f, g : Schede(f ++ g) = Schede(f) \cup Schede(g)
    /\ \A f, g : Voci(f ++ g) = Voci(f) \cup Voci(g)
    /\ \A k, v : Schede(Scrivi(k, v)) = IF k[1] = "PUB" THEN {k} ELSE {}
    /\ \A k, v : Voci(Scrivi(k, v)) = IF k[1] = "DOCREP" THEN {k} ELSE {}
    /\ Schede(Niente) = {} /\ Voci(Niente) = {}
  BY DEF Schede, Voci, ++, Scrivi, Niente

\* Writes to collections, a filed document, a saved card.
LEMMA SchedeEVociGruppi ==
    /\ \A k, v : k[1] \in {"PG_PM", "PM_LAB"}
            => Schede(Scrivi(k, v)) = {} /\ Voci(Scrivi(k, v)) = {}
    /\ \A c, d, f, priv :
            /\ Schede(putDocumento(c, d, f, priv)) = {}
            /\ Voci(putDocumento(c, d, f, priv))
                    = IF priv.reperto = Nil THEN {} ELSE {ChiaveDocRep(priv.reperto, d)}
    /\ \A f, r, p : Schede(f) = {} => /\ Salva(f ++ SalvaScheda(r, p), r, p)
                                      /\ Voci(f ++ SalvaScheda(r, p)) = Voci(f)
    /\ \A r, p : Salva(SalvaScheda(r, p), r, p) /\ Voci(SalvaScheda(r, p)) = {}
  <1>1. \A k, v : k[1] \in {"PG_PM", "PM_LAB"}
            => Schede(Scrivi(k, v)) = {} /\ Voci(Scrivi(k, v)) = {}
    BY SchedeEVociUnione
  <1>2. ASSUME NEW c, NEW d, NEW f, NEW priv
        PROVE  /\ Schede(putDocumento(c, d, f, priv)) = {}
               /\ Voci(putDocumento(c, d, f, priv))
                    = IF priv.reperto = Nil THEN {} ELSE {ChiaveDocRep(priv.reperto, d)}
    <2> DEFINE a == Scrivi(ChiaveDocumento(c, d), [cid |-> f])
               b == Scrivi(ChiaveFile(pdcCollectionForTipoDocumento(priv.tipo), c, d), priv)
               e == IF priv.reperto = Nil THEN Niente
                    ELSE Scrivi(ChiaveDocRep(priv.reperto, d), [caso |-> c])
    <2>1. Schede(a) = {} /\ Voci(a) = {}
      BY SchedeEVociUnione DEF ChiaveDocumento
    <2>2. Schede(b) = {} /\ Voci(b) = {}
      BY <1>1 DEF ChiaveFile, pdcCollectionForTipoDocumento
    <2>3. /\ Schede(e) = {}
          /\ Voci(e) = IF priv.reperto = Nil THEN {} ELSE {ChiaveDocRep(priv.reperto, d)}
      BY SchedeEVociUnione DEF ChiaveDocRep
    <2>4. putDocumento(c, d, f, priv) = a ++ b ++ e
      BY DEF putDocumento
    <2> HIDE DEF a, b, e
    <2> QED  BY <2>1, <2>2, <2>3, <2>4, SchedeEVociUnione
  <1>3. ASSUME NEW f, NEW r, NEW p, Schede(f) = {}
        PROVE  Salva(f ++ SalvaScheda(r, p), r, p) /\ Voci(f ++ SalvaScheda(r, p)) = Voci(f)
    <2>1. (f ++ SalvaScheda(r, p))[ChiaveReperto(r)] = p
      BY DEF ++, SalvaScheda, Scrivi
    <2>2. Schede(SalvaScheda(r, p)) = {ChiaveReperto(r)} /\ Voci(SalvaScheda(r, p)) = {}
      BY SchedeEVociUnione DEF SalvaScheda, ChiaveReperto
    <2> DEFINE g == SalvaScheda(r, p)
    <2>3. Schede(f ++ g) = {ChiaveReperto(r)} /\ Voci(f ++ g) = Voci(f)
      <3>1. Schede(g) = {ChiaveReperto(r)} /\ Voci(g) = {}
        BY <2>2
      <3> HIDE DEF g
      <3>2. Schede(f ++ g) = Schede(f) \cup Schede(g) /\ Voci(f ++ g) = Voci(f) \cup Voci(g)
        BY SchedeEVociUnione
      <3> QED  BY <1>3, <3>1, <3>2
    <2> QED  BY <2>1, <2>3 DEF Salva
  <1>4. ASSUME NEW r, NEW p
        PROVE  Salva(SalvaScheda(r, p), r, p) /\ Voci(SalvaScheda(r, p)) = {}
    <2>1. SalvaScheda(r, p)[ChiaveReperto(r)] = p
      BY DEF SalvaScheda, Scrivi
    <2> QED  BY <2>1, SchedeEVociUnione DEF Salva, SalvaScheda, ChiaveReperto
  <1> QED  BY <1>1, <1>2, <1>3, <1>4

\* A workflow step: a document attached to r, other private data, the card.
LEMMA SalvaConAllegato ==
    ASSUME NEW tx \in TxIds, NEW msp, NEW c \in Casi, NEW r \in Reperti, NEW tipo, NEW f,
           NEW ente, NEW g, Schede(g) = {}, Voci(g) = {}, NEW p
    PROVE  LET a == registraDocumentoAllegato(tx, msp, c, r, tipo, f, ente)
           IN  /\ Salva(a ++ SalvaScheda(r, p), r, p) /\ AllegaA(a ++ SalvaScheda(r, p), tx, r)
               /\ Salva(a ++ g ++ SalvaScheda(r, p), r, p)
               /\ AllegaA(a ++ g ++ SalvaScheda(r, p), tx, r)
  <1> DEFINE a == registraDocumentoAllegato(tx, msp, c, r, tipo, f, ente)
  <1>1. r # Nil
    BY NilAssumption
  <1>2. Schede(a) = {} /\ Voci(a) = {ChiaveDocRep(r, tx)}
    BY <1>1, SchedeEVociGruppi DEF registraDocumentoAllegato
  <1>3. ChiaveDocumento(c, tx) \in DOMAIN a
    BY DEF registraDocumentoAllegato, putDocumento, ++, Scrivi
  <1> HIDE DEF a
  <1>4. \A h : DOMAIN a \subseteq DOMAIN (a ++ h)
    BY DEF ++
  <1>5. Schede(a ++ g) = {} /\ Voci(a ++ g) = {ChiaveDocRep(r, tx)}
    BY <1>2, SchedeEVociUnione
  <1>6. DOMAIN a \subseteq DOMAIN ((a ++ g) ++ SalvaScheda(r, p))
    BY DEF ++
  <1> QED  BY <1>2, <1>3, <1>4, <1>5, <1>6, SchedeEVociGruppi DEF AllegaA, a

-----------------------------------------------------------------------------
(* Calls one at a time.  The operators of Custodia, alone or with what is  *)
(* proved of it, are those of the contract: each unfolds to the same.      *)

\* The contract in Atomica.
LEMMA StesseAtomica ==
    /\ \A s, msp, r, priv :
        /\ Atomica!AmmetteCreaReperto(s, msp, r) <=> AmmetteCreaReperto(s, msp, r)
        /\ Atomica!ScritturaCreaReperto(r, priv) = ScritturaCreaReperto(r, priv)
    /\ \A s, msp, d, c, tipo, r, f :
        /\ Atomica!AmmetteRegistraDocumento(s, msp, d, c, tipo, r)
                  <=> AmmetteRegistraDocumento(s, msp, d, c, tipo, r)
        /\ Atomica!ScritturaRegistraDocumento(s, msp, d, c, tipo, r, f)
                 = ScritturaRegistraDocumento(s, msp, d, c, tipo, r, f)
    /\ \A s, msp, e, c, r, f :
        /\ Atomica!AmmetteRegistraEvidenza(s, msp, e, c, r)
                  <=> AmmetteRegistraEvidenza(s, msp, e, c, r)
        /\ Atomica!ScritturaRegistraEvidenza(msp, e, c, r, f)
                 = ScritturaRegistraEvidenza(msp, e, c, r, f)
    /\ \A s, tx, msp, r, lab, f :
        /\ Atomica!AmmetteRichiediAnalisi(s, msp, r) <=> AmmetteRichiediAnalisi(s, msp, r)
        /\ Atomica!ScritturaRichiediAnalisi(s, tx, msp, r, lab, f)
                 = ScritturaRichiediAnalisi(s, tx, msp, r, lab, f)
    /\ \A s, msp, r, agente :
        /\ Atomica!AmmetteAvviaTrasporto(s, msp, r) <=> AmmetteAvviaTrasporto(s, msp, r)
        /\ Atomica!ScritturaAvviaTrasporto(s, r, agente)
                 = ScritturaAvviaTrasporto(s, r, agente)
    /\ \A s, msp, r, lab :
        /\ Atomica!AmmetteRiceviInLaboratorio(s, msp, r, lab)
                  <=> AmmetteRiceviInLaboratorio(s, msp, r, lab)
        /\ Atomica!ScritturaRiceviInLaboratorio(s, r, lab)
                 = ScritturaRiceviInLaboratorio(s, r, lab)
    /\ \A s, tx, msp, r, f :
        /\ Atomica!AmmetteCompletaAnalisi(s, msp, r) <=> AmmetteCompletaAnalisi(s, msp, r)
        /\ Atomica!ScritturaCompletaAnalisi(s, tx, msp, r, f)
                 = ScritturaCompletaAnalisi(s, tx, msp, r, f)
    /\ \A s, tx, msp, r, f :
        /\ Atomica!AmmetteDepositaInSede(s, msp, r) <=> AmmetteDepositaInSede(s, msp, r)
        /\ Atomica!ScritturaDepositaInSede(s, tx, msp, r, f)
                 = ScritturaDepositaInSede(s, tx, msp, r, f)
    /\ \A s, msp, r : Atomica!AmmettePreparaRiconsegna(s, msp, r)
              <=> AmmettePreparaRiconsegna(s, msp, r)
    /\ \A f, g : Atomica!++(f, g) = f ++ g
    /\ \A c, d : Atomica!ChiaveDocumento(c, d) = ChiaveDocumento(c, d)
    /\ Atomica!Msp = Msp /\ Atomica!TipiDocumento = TipiDocumento
    /\ Atomica!RepertoPrivate = RepertoPrivate
  BY DEF AmmetteCreaReperto, RepertoExists, ChiaveReperto, ScritturaCreaReperto,
         ChiavePrivatoReperto, Scrivi, SalvaScheda, SchedaNuova, AmmetteRegistraDocumento,
         ChiaveDocumento, requireMSPForTipoDocumento, TipiPg, validateDocumentoShape,
         ScritturaRegistraDocumento, putDocumento, ChiaveDocRep, ChiaveFile, Niente,
         pdcCollectionForTipoDocumento, aggiornaPuntatoreDocumentoSuReperto, Scheda,
         AmmetteRegistraEvidenza, ChiaveEvidenza, ScritturaRegistraEvidenza, ChiaveEviRep,
         AmmetteRichiediAnalisi, Privato, InStato, statoEffettivoReperto, ChiaveVerbale,
         ScritturaRichiediAnalisi, ChiavePrivatoPmLab, PrefissoPmLab, registraDocumentoAllegato,
         AmmetteAvviaTrasporto, ScritturaAvviaTrasporto, AmmetteRiceviInLaboratorio,
         ScritturaRiceviInLaboratorio, AmmetteCompletaAnalisi, ScritturaCompletaAnalisi,
         AmmetteDepositaInSede, CasoDelReperto, ScritturaDepositaInSede, TipiDocumento, Msp,
         RepertoPrivate, ++, AmmettePreparaRiconsegna, Atomica!AmmetteCreaReperto,
         Atomica!RepertoExists, Atomica!ChiaveReperto, Atomica!ScritturaCreaReperto,
         Atomica!ChiavePrivatoReperto, Atomica!Scrivi, Atomica!SalvaScheda, Atomica!SchedaNuova,
         Atomica!AmmetteRegistraDocumento, Atomica!ChiaveDocumento,
         Atomica!requireMSPForTipoDocumento, Atomica!TipiPg, Atomica!validateDocumentoShape,
         Atomica!ScritturaRegistraDocumento, Atomica!putDocumento, Atomica!ChiaveDocRep,
         Atomica!ChiaveFile, Atomica!Niente, Atomica!pdcCollectionForTipoDocumento,
         Atomica!aggiornaPuntatoreDocumentoSuReperto, Atomica!Scheda,
         Atomica!AmmetteRegistraEvidenza, Atomica!ChiaveEvidenza,
         Atomica!ScritturaRegistraEvidenza, Atomica!ChiaveEviRep,
         Atomica!AmmetteRichiediAnalisi, Atomica!Privato, Atomica!InStato,
         Atomica!statoEffettivoReperto, Atomica!ChiaveVerbale, Atomica!ScritturaRichiediAnalisi,
         Atomica!ChiavePrivatoPmLab, Atomica!PrefissoPmLab, Atomica!registraDocumentoAllegato,
         Atomica!AmmetteAvviaTrasporto, Atomica!ScritturaAvviaTrasporto,
         Atomica!AmmetteRiceviInLaboratorio, Atomica!ScritturaRiceviInLaboratorio,
         Atomica!AmmetteCompletaAnalisi, Atomica!ScritturaCompletaAnalisi,
         Atomica!AmmetteDepositaInSede, Atomica!CasoDelReperto, Atomica!ScritturaDepositaInSede,
         Atomica!TipiDocumento, Atomica!Msp, Atomica!RepertoPrivate, Atomica!++,
         Atomica!AmmettePreparaRiconsegna

\* The contract in P.
LEMMA StesseP ==
    /\ \A s, msp, r, priv :
        /\ P!AmmetteCreaReperto(s, msp, r) <=> AmmetteCreaReperto(s, msp, r)
        /\ P!ScritturaCreaReperto(r, priv) = ScritturaCreaReperto(r, priv)
    /\ \A s, msp, d, c, tipo, r, f :
        /\ P!AmmetteRegistraDocumento(s, msp, d, c, tipo, r)
                  <=> AmmetteRegistraDocumento(s, msp, d, c, tipo, r)
        /\ P!ScritturaRegistraDocumento(s, msp, d, c, tipo, r, f)
                 = ScritturaRegistraDocumento(s, msp, d, c, tipo, r, f)
    /\ \A s, msp, e, c, r, f :
        /\ P!AmmetteRegistraEvidenza(s, msp, e, c, r)
                  <=> AmmetteRegistraEvidenza(s, msp, e, c, r)
        /\ P!ScritturaRegistraEvidenza(msp, e, c, r, f)
                 = ScritturaRegistraEvidenza(msp, e, c, r, f)
    /\ \A s, tx, msp, r, lab, f :
        /\ P!AmmetteRichiediAnalisi(s, msp, r) <=> AmmetteRichiediAnalisi(s, msp, r)
        /\ P!ScritturaRichiediAnalisi(s, tx, msp, r, lab, f)
                 = ScritturaRichiediAnalisi(s, tx, msp, r, lab, f)
    /\ \A s, msp, r, agente :
        /\ P!AmmetteAvviaTrasporto(s, msp, r) <=> AmmetteAvviaTrasporto(s, msp, r)
        /\ P!ScritturaAvviaTrasporto(s, r, agente) = ScritturaAvviaTrasporto(s, r, agente)
    /\ \A s, msp, r, lab :
        /\ P!AmmetteRiceviInLaboratorio(s, msp, r, lab)
                  <=> AmmetteRiceviInLaboratorio(s, msp, r, lab)
        /\ P!ScritturaRiceviInLaboratorio(s, r, lab)
                 = ScritturaRiceviInLaboratorio(s, r, lab)
    /\ \A s, tx, msp, r, f :
        /\ P!AmmetteCompletaAnalisi(s, msp, r) <=> AmmetteCompletaAnalisi(s, msp, r)
        /\ P!ScritturaCompletaAnalisi(s, tx, msp, r, f)
                 = ScritturaCompletaAnalisi(s, tx, msp, r, f)
    /\ \A s, tx, msp, r, f :
        /\ P!AmmetteDepositaInSede(s, msp, r) <=> AmmetteDepositaInSede(s, msp, r)
        /\ P!ScritturaDepositaInSede(s, tx, msp, r, f)
                 = ScritturaDepositaInSede(s, tx, msp, r, f)
    /\ \A s, msp, r : P!AmmettePreparaRiconsegna(s, msp, r)
              <=> AmmettePreparaRiconsegna(s, msp, r)
    /\ \A f, g : P!++(f, g) = f ++ g
    /\ \A c, d : P!ChiaveDocumento(c, d) = ChiaveDocumento(c, d)
    /\ P!Msp = Msp /\ P!TipiDocumento = TipiDocumento
    /\ P!RepertoPrivate = RepertoPrivate
  <1>1. \A s, msp, r, priv :
        /\ P!AmmetteCreaReperto(s, msp, r) <=> AmmetteCreaReperto(s, msp, r)
        /\ P!ScritturaCreaReperto(r, priv) = ScritturaCreaReperto(r, priv)
    BY DEF AmmetteCreaReperto, ScritturaCreaReperto, RepertoExists, Scrivi,
           ChiavePrivatoReperto, ++, SalvaScheda, SchedaNuova, ChiaveReperto,
           P!AmmetteCreaReperto, P!ScritturaCreaReperto, P!RepertoExists, P!Scrivi,
           P!ChiavePrivatoReperto, P!++, P!SalvaScheda, P!SchedaNuova, P!ChiaveReperto
  <1>2. \A s, msp, d, c, tipo, r, f :
        /\ P!AmmetteRegistraDocumento(s, msp, d, c, tipo, r)
                  <=> AmmetteRegistraDocumento(s, msp, d, c, tipo, r)
        /\ P!ScritturaRegistraDocumento(s, msp, d, c, tipo, r, f)
                 = ScritturaRegistraDocumento(s, msp, d, c, tipo, r, f)
    BY DEF AmmetteRegistraDocumento, ScritturaRegistraDocumento, ChiaveDocumento,
           requireMSPForTipoDocumento, validateDocumentoShape, RepertoExists, putDocumento, ++,
           aggiornaPuntatoreDocumentoSuReperto, TipiPg, ChiaveReperto, Scrivi, ChiaveFile,
           pdcCollectionForTipoDocumento, Niente, ChiaveDocRep, SalvaScheda, Scheda,
           P!AmmetteRegistraDocumento, P!ScritturaRegistraDocumento, P!ChiaveDocumento,
           P!requireMSPForTipoDocumento, P!validateDocumentoShape, P!RepertoExists,
           P!putDocumento, P!++, P!aggiornaPuntatoreDocumentoSuReperto, P!TipiPg,
           P!ChiaveReperto, P!Scrivi, P!ChiaveFile, P!pdcCollectionForTipoDocumento, P!Niente,
           P!ChiaveDocRep, P!SalvaScheda, P!Scheda
  <1>3. \A s, msp, e, c, r, f :
        /\ P!AmmetteRegistraEvidenza(s, msp, e, c, r)
                  <=> AmmetteRegistraEvidenza(s, msp, e, c, r)
        /\ P!ScritturaRegistraEvidenza(msp, e, c, r, f)
                 = ScritturaRegistraEvidenza(msp, e, c, r, f)
    BY DEF AmmetteRegistraEvidenza, ScritturaRegistraEvidenza, ChiaveEvidenza, RepertoExists,
           Scrivi, ++, ChiaveFile, Niente, ChiaveEviRep, ChiaveReperto,
           P!AmmetteRegistraEvidenza, P!ScritturaRegistraEvidenza, P!ChiaveEvidenza,
           P!RepertoExists, P!Scrivi, P!++, P!ChiaveFile, P!Niente, P!ChiaveEviRep,
           P!ChiaveReperto
  <1>4. \A s, tx, msp, r, lab, f :
        /\ P!AmmetteRichiediAnalisi(s, msp, r) <=> AmmetteRichiediAnalisi(s, msp, r)
        /\ P!ScritturaRichiediAnalisi(s, tx, msp, r, lab, f)
                 = ScritturaRichiediAnalisi(s, tx, msp, r, lab, f)
    BY DEF AmmetteRichiediAnalisi, ScritturaRichiediAnalisi, InStato, Privato, Scheda,
           ChiaveVerbale, registraDocumentoAllegato, ++, Scrivi, ChiavePrivatoPmLab,
           SalvaScheda, RepertoExists, statoEffettivoReperto, ChiavePrivatoReperto,
           ChiaveReperto, ChiaveFile, putDocumento, PrefissoPmLab, ChiaveDocumento,
           pdcCollectionForTipoDocumento, Niente, ChiaveDocRep, TipiPg,
           P!AmmetteRichiediAnalisi, P!ScritturaRichiediAnalisi, P!InStato, P!Privato, P!Scheda,
           P!ChiaveVerbale, P!registraDocumentoAllegato, P!++, P!Scrivi, P!ChiavePrivatoPmLab,
           P!SalvaScheda, P!RepertoExists, P!statoEffettivoReperto, P!ChiavePrivatoReperto,
           P!ChiaveReperto, P!ChiaveFile, P!putDocumento, P!PrefissoPmLab, P!ChiaveDocumento,
           P!pdcCollectionForTipoDocumento, P!Niente, P!ChiaveDocRep, P!TipiPg
  <1>5. \A s, msp, r, agente :
        /\ P!AmmetteAvviaTrasporto(s, msp, r) <=> AmmetteAvviaTrasporto(s, msp, r)
        /\ P!ScritturaAvviaTrasporto(s, r, agente) = ScritturaAvviaTrasporto(s, r, agente)
    BY DEF AmmetteAvviaTrasporto, ScritturaAvviaTrasporto, InStato, SalvaScheda, Scheda,
           RepertoExists, statoEffettivoReperto, Scrivi, ChiaveReperto, P!AmmetteAvviaTrasporto,
           P!ScritturaAvviaTrasporto, P!InStato, P!SalvaScheda, P!Scheda, P!RepertoExists,
           P!statoEffettivoReperto, P!Scrivi, P!ChiaveReperto
  <1>6. \A s, msp, r, lab :
        /\ P!AmmetteRiceviInLaboratorio(s, msp, r, lab)
                  <=> AmmetteRiceviInLaboratorio(s, msp, r, lab)
        /\ P!ScritturaRiceviInLaboratorio(s, r, lab)
                 = ScritturaRiceviInLaboratorio(s, r, lab)
    BY DEF AmmetteRiceviInLaboratorio, ScritturaRiceviInLaboratorio, InStato, Scheda,
           SalvaScheda, RepertoExists, statoEffettivoReperto, ChiaveReperto, Scrivi,
           P!AmmetteRiceviInLaboratorio, P!ScritturaRiceviInLaboratorio, P!InStato, P!Scheda,
           P!SalvaScheda, P!RepertoExists, P!statoEffettivoReperto, P!ChiaveReperto, P!Scrivi
  <1>7. \A s, tx, msp, r, f :
        /\ P!AmmetteCompletaAnalisi(s, msp, r) <=> AmmetteCompletaAnalisi(s, msp, r)
        /\ P!ScritturaCompletaAnalisi(s, tx, msp, r, f)
                 = ScritturaCompletaAnalisi(s, tx, msp, r, f)
    BY DEF AmmetteCompletaAnalisi, ScritturaCompletaAnalisi, InStato, Scheda,
           registraDocumentoAllegato, ++, SalvaScheda, RepertoExists, statoEffettivoReperto,
           ChiaveReperto, putDocumento, Scrivi, ChiaveDocumento, ChiaveFile,
           pdcCollectionForTipoDocumento, Niente, ChiaveDocRep, TipiPg,
           P!AmmetteCompletaAnalisi, P!ScritturaCompletaAnalisi, P!InStato, P!Scheda,
           P!registraDocumentoAllegato, P!++, P!SalvaScheda, P!RepertoExists,
           P!statoEffettivoReperto, P!ChiaveReperto, P!putDocumento, P!Scrivi,
           P!ChiaveDocumento, P!ChiaveFile, P!pdcCollectionForTipoDocumento, P!Niente,
           P!ChiaveDocRep, P!TipiPg
  <1>8. \A s, tx, msp, r, f :
        /\ P!AmmetteDepositaInSede(s, msp, r) <=> AmmetteDepositaInSede(s, msp, r)
        /\ P!ScritturaDepositaInSede(s, tx, msp, r, f)
                 = ScritturaDepositaInSede(s, tx, msp, r, f)
    BY DEF AmmetteDepositaInSede, ScritturaDepositaInSede, InStato, Privato, CasoDelReperto,
           registraDocumentoAllegato, ++, SalvaScheda, Scheda, RepertoExists,
           statoEffettivoReperto, ChiavePrivatoReperto, putDocumento, Scrivi, ChiaveReperto,
           ChiaveDocumento, ChiaveFile, pdcCollectionForTipoDocumento, Niente, ChiaveDocRep,
           TipiPg, P!AmmetteDepositaInSede, P!ScritturaDepositaInSede, P!InStato, P!Privato,
           P!CasoDelReperto, P!registraDocumentoAllegato, P!++, P!SalvaScheda, P!Scheda,
           P!RepertoExists, P!statoEffettivoReperto, P!ChiavePrivatoReperto, P!putDocumento,
           P!Scrivi, P!ChiaveReperto, P!ChiaveDocumento, P!ChiaveFile,
           P!pdcCollectionForTipoDocumento, P!Niente, P!ChiaveDocRep, P!TipiPg
  <1>9. \A s, msp, r : P!AmmettePreparaRiconsegna(s, msp, r)
              <=> AmmettePreparaRiconsegna(s, msp, r)
    BY DEF AmmettePreparaRiconsegna, InStato, RepertoExists, statoEffettivoReperto, Scheda,
           ChiaveReperto, P!AmmettePreparaRiconsegna, P!InStato, P!RepertoExists,
           P!statoEffettivoReperto, P!Scheda, P!ChiaveReperto
  <1>10. \A f, g : P!++(f, g) = f ++ g
    BY DEF ++, P!++
  <1>11. \A c, d : P!ChiaveDocumento(c, d) = ChiaveDocumento(c, d)
    BY DEF ChiaveDocumento, P!ChiaveDocumento
  <1>12. P!Msp = Msp /\ P!TipiDocumento = TipiDocumento
    BY DEF Msp, TipiDocumento, TipiPg, P!Msp, P!TipiDocumento, P!TipiPg
  <1>13. P!RepertoPrivate = RepertoPrivate
    BY DEF RepertoPrivate, P!RepertoPrivate
  <1> QED  BY <1>1, <1>2, <1>3, <1>4, <1>5, <1>6, <1>7, <1>8, <1>9, <1>10, <1>11, <1>12, <1>13

\* A call that is admitted on the ledger as it is, with an id nobody used, is
\* a step of the contract when its writes are applied.
LEMMA PassoAtomico ==
    ASSUME Tipato(stato), NEW msp \in Msp, NEW tx, NEW R, NEW w,
           ValePer(stato, msp, tx, R, w),
           tx # Nil => \A c \in Casi : stato[ChiaveDocumento(c, tx)] = Nil,
           stato' = stato ++ w
    PROVE  Atomica!Next /\ P!Next
  <1>ns. w = Niente => stato' = stato
    BY DEF ++, Niente, Tipato
  <1>1. ASSUME ValeCreaReperto(stato, msp, tx, R, w) PROVE Atomica!Next /\ P!Next
    <2>1. PICK r \in Reperti, priv \in RepertoPrivate :
            /\ AmmetteCreaReperto(stato, msp, r) /\ tx = Nil
            /\ w = ScritturaCreaReperto(r, priv)
      BY <1>1 DEF ValeCreaReperto
    <2>2. Atomica!CreaReperto(msp, r, priv) /\ P!CreaReperto(msp, r, priv)
      BY <2>1, StesseAtomica, StesseP DEF Atomica!CreaReperto, P!CreaReperto
    <2> QED  BY <2>1, <2>2, StesseAtomica, StesseP DEF Atomica!Next, P!Next
  <1>2. ASSUME ValeRegistraDocumento(stato, msp, tx, R, w) PROVE Atomica!Next /\ P!Next
    <2>1. PICK d \in IdDocumenti, c \in Casi, tipo \in TipiDocumento,
               r \in Reperti \cup {Nil}, f \in File :
            /\ AmmetteRegistraDocumento(stato, msp, d, c, tipo, r) /\ tx = Nil
            /\ w = ScritturaRegistraDocumento(stato, msp, d, c, tipo, r, f)
      BY <1>2 DEF ValeRegistraDocumento
    <2>2. /\ Atomica!RegistraDocumento(msp, d, c, tipo, r, f)
          /\ P!RegistraDocumento(msp, d, c, tipo, r, f)
      BY <2>1, StesseAtomica, StesseP DEF Atomica!RegistraDocumento, P!RegistraDocumento
    <2> QED  BY <2>1, <2>2, StesseAtomica, StesseP DEF Atomica!Next, P!Next
  <1>3. ASSUME ValeRegistraEvidenza(stato, msp, tx, R, w) PROVE Atomica!Next /\ P!Next
    <2>1. PICK e \in IdEvidenze, c \in Casi, r \in Reperti \cup {Nil}, f \in File :
            /\ AmmetteRegistraEvidenza(stato, msp, e, c, r) /\ tx = Nil
            /\ w = ScritturaRegistraEvidenza(msp, e, c, r, f)
      BY <1>3 DEF ValeRegistraEvidenza
    <2>2. Atomica!RegistraEvidenza(msp, e, c, r, f) /\ P!RegistraEvidenza(msp, e, c, r, f)
      BY <2>1, StesseAtomica, StesseP DEF Atomica!RegistraEvidenza, P!RegistraEvidenza
    <2> QED  BY <2>1, <2>2, StesseAtomica, StesseP DEF Atomica!Next, P!Next
  <1>4. ASSUME ValeRichiediAnalisi(stato, msp, tx, R, w) PROVE Atomica!Next /\ P!Next
    <2>1. PICK r \in Reperti, lab \in Laboratori, f \in File :
            /\ AmmetteRichiediAnalisi(stato, msp, r) /\ tx \in TxIds
            /\ w = ScritturaRichiediAnalisi(stato, tx, msp, r, lab, f)
      BY <1>4 DEF ValeRichiediAnalisi
    <2>2. Atomica!RichiediAnalisi(tx, msp, r, lab, f) /\ P!RichiediAnalisi(tx, msp, r, lab, f)
      BY <2>1, StesseAtomica, StesseP, NilAssumption
         DEF Atomica!RichiediAnalisi, P!RichiediAnalisi, Atomica!TxNuova, P!TxNuova
    <2> QED  BY <2>1, <2>2, StesseAtomica, StesseP DEF Atomica!Next, P!Next
  <1>5. ASSUME ValeAvviaTrasporto(stato, msp, tx, R, w) PROVE Atomica!Next /\ P!Next
    <2>1. PICK r \in Reperti, agente \in Agenti :
            /\ AmmetteAvviaTrasporto(stato, msp, r) /\ tx = Nil
            /\ w = ScritturaAvviaTrasporto(stato, r, agente)
      BY <1>5 DEF ValeAvviaTrasporto
    <2>2. Atomica!AvviaTrasporto(msp, r, agente) /\ P!AvviaTrasporto(msp, r, agente)
      BY <2>1, StesseAtomica, StesseP DEF Atomica!AvviaTrasporto, P!AvviaTrasporto
    <2> QED  BY <2>1, <2>2, StesseAtomica, StesseP DEF Atomica!Next, P!Next
  <1>6. ASSUME ValeRiceviInLaboratorio(stato, msp, tx, R, w) PROVE Atomica!Next /\ P!Next
    <2>1. PICK r \in Reperti, lab \in Laboratori :
            /\ AmmetteRiceviInLaboratorio(stato, msp, r, lab) /\ tx = Nil
            /\ w = ScritturaRiceviInLaboratorio(stato, r, lab)
      BY <1>6 DEF ValeRiceviInLaboratorio
    <2>2. Atomica!RiceviInLaboratorio(msp, r, lab) /\ P!RiceviInLaboratorio(msp, r, lab)
      BY <2>1, StesseAtomica, StesseP DEF Atomica!RiceviInLaboratorio, P!RiceviInLaboratorio
    <2> QED  BY <2>1, <2>2, StesseAtomica, StesseP DEF Atomica!Next, P!Next
  <1>7. ASSUME ValeCompletaAnalisi(stato, msp, tx, R, w) PROVE Atomica!Next /\ P!Next
    <2>1. PICK r \in Reperti, f \in File :
            /\ AmmetteCompletaAnalisi(stato, msp, r) /\ tx \in TxIds
            /\ w = ScritturaCompletaAnalisi(stato, tx, msp, r, f)
      BY <1>7 DEF ValeCompletaAnalisi
    <2>2. Atomica!CompletaAnalisi(tx, msp, r, f) /\ P!CompletaAnalisi(tx, msp, r, f)
      BY <2>1, StesseAtomica, StesseP, NilAssumption
         DEF Atomica!CompletaAnalisi, P!CompletaAnalisi, Atomica!TxNuova, P!TxNuova
    <2> QED  BY <2>1, <2>2, StesseAtomica, StesseP DEF Atomica!Next, P!Next
  <1>8. ASSUME ValePreparaRiconsegna(stato, msp, tx, R, w) PROVE Atomica!Next /\ P!Next
    <2>1. PICK r \in Reperti :
            /\ AmmettePreparaRiconsegna(stato, msp, r) /\ tx = Nil
            /\ w = Niente
      BY <1>8 DEF ValePreparaRiconsegna
    <2>2. Atomica!PreparaRiconsegna(msp, r) /\ P!PreparaRiconsegna(msp, r)
      BY <2>1, <1>ns, StesseAtomica, StesseP DEF Atomica!PreparaRiconsegna, P!PreparaRiconsegna
    <2> QED  BY <2>1, <2>2, StesseAtomica, StesseP DEF Atomica!Next, P!Next
  <1>9. ASSUME ValeDepositaInSede(stato, msp, tx, R, w) PROVE Atomica!Next /\ P!Next
    <2>1. PICK r \in Reperti, f \in File :
            /\ AmmetteDepositaInSede(stato, msp, r) /\ tx \in TxIds
            /\ w = ScritturaDepositaInSede(stato, tx, msp, r, f)
      BY <1>9 DEF ValeDepositaInSede
    <2>2. Atomica!DepositaInSede(tx, msp, r, f) /\ P!DepositaInSede(tx, msp, r, f)
      BY <2>1, StesseAtomica, StesseP, NilAssumption
         DEF Atomica!DepositaInSede, P!DepositaInSede, Atomica!TxNuova, P!TxNuova
    <2> QED  BY <2>1, <2>2, StesseAtomica, StesseP DEF Atomica!Next, P!Next
  <1> QED  BY <1>1, <1>2, <1>3, <1>4, <1>5, <1>6, <1>7, <1>8, <1>9 DEF ValePer

-----------------------------------------------------------------------------
(* Calls in flight.                                                        *)

\* The assumptions on the constants, as P states them.
LEMMA StesseIpotesi == P!IdAssumption /\ P!NilAssumption
  <1>1. P!IdAssumption
    BY IdAssumption DEF P!IdAssumption, P!PrefissoPmLab, PrefissoPmLab
  <1>2. P!NilAssumption
    BY NilAssumption
       DEF P!NilAssumption, P!Stati, P!TipiDocumento, P!Msp, P!RepertoPublic, P!RepertoPrivate,
           P!FilePublic, P!FilePrivate, P!Marcatore, P!TipiPg, P!AttoONil, P!IdAtto,
           Stati, TipiDocumento, Msp, RepertoPublic, RepertoPrivate, FilePublic, FilePrivate,
           Marcatore, TipiPg, AttoONil, IdAtto
  <1> QED  BY <1>1, <1>2

\* Transaction id tx is not on ledger s.
Assente(s, tx) == \A c \in Casi : s[ChiaveDocumento(c, tx)] = Nil

\* Call v in flight over ledger s: as long as nothing it read was written, it
\* still is a call the contract admits on s; its id is still unused.
ChiamataInVolo(s, v) ==
    /\ v = [tx |-> v.tx, letture |-> v.letture, scritture |-> v.scritture,
            fresca |-> v.fresca]
    /\ v.tx \in TxIds \cup {Nil} /\ v.letture \subseteq Chiavi /\ Tipata(v.scritture)
    /\ v.fresca \in BOOLEAN
    /\ v.fresca => Vale(s, v.tx, v.letture, v.scritture)
    /\ v.tx # Nil => Assente(s, v.tx)

\* No two calls in flight attach documents under one id.
IdDistinti ==
    \A j \in Canali, k \in Canali :
        j # k /\ volo[j] # Nil /\ volo[k] # Nil /\ volo[j].tx # Nil => volo[j].tx # volo[k].tx

InvFabric ==
    /\ P!Base
    /\ volo = [k \in Canali |-> volo[k]]
    /\ \A k \in Canali : volo[k] # Nil => ChiamataInVolo(stato, volo[k])
    /\ IdDistinti

\* The keys of the ledger.
LEMMA StesseChiavi == P!Chiavi = Chiavi /\ Atomica!Chiavi = Chiavi
  BY DEF Chiavi, ChiaveReperto, ChiavePrivatoReperto, ChiavePrivatoPmLab, PrefissoPmLab,
         ChiaveDocumento, ChiaveEvidenza, ChiaveDocRep, ChiaveEviRep, ChiaveFile, IdAtto, Id,
         P!Chiavi, P!ChiaveReperto, P!ChiavePrivatoReperto, P!ChiavePrivatoPmLab,
         P!PrefissoPmLab, P!ChiaveDocumento, P!ChiaveEvidenza, P!ChiaveDocRep, P!ChiaveEviRep,
         P!ChiaveFile, P!IdAtto, P!Id, Atomica!Chiavi, Atomica!ChiaveReperto,
         Atomica!ChiavePrivatoReperto, Atomica!ChiavePrivatoPmLab, Atomica!PrefissoPmLab,
         Atomica!ChiaveDocumento, Atomica!ChiaveEvidenza, Atomica!ChiaveDocRep,
         Atomica!ChiaveEviRep, Atomica!ChiaveFile, Atomica!IdAtto, Atomica!Id

\* What P knows of the ledger, in the terms of the contract.
LEMMA BaseNota == P!Base => Tipato(stato) /\ CustodiNoti(stato)
  <1> SUFFICES ASSUME P!Base PROVE Tipato(stato) /\ CustodiNoti(stato)
    OBVIOUS
  <1>1. Tipato(stato)
    <2>1. \A k : P!ValoriDi(k) = ValoriDi(k)
      BY DEF ValoriDi, RepertoPublic, Stati, AttoONil, IdAtto, RepertoPrivate, FilePublic,
             FilePrivate, TipiDocumento, TipiPg, Msp, Marcatore, PrefissoPmLab, P!ValoriDi,
             P!RepertoPublic, P!Stati, P!AttoONil, P!IdAtto, P!RepertoPrivate, P!FilePublic,
             P!FilePrivate, P!TipiDocumento, P!TipiPg, P!Msp, P!Marcatore, P!PrefissoPmLab
    <2> QED  BY <2>1, StesseChiavi DEF P!Base, P!Tipato, Tipato
  <1>2. CustodiNoti(stato)
    BY DEF P!Base, P!SchedeInOrdine, P!CustodiaDi, P!RepertoExists, P!Scheda, P!ChiaveReperto,
           CustodiNoti, InStato, statoEffettivoReperto, RepertoExists, Scheda, ChiaveReperto
  <1> QED  BY <1>1, <1>2

\* A call goes in flight with what it read and what it writes.
LEMMA ChiamataVale ==
    ASSUME NEW k, Chiamata(k)
    PROVE  \E msp \in Msp : \E tx, R, w :
                /\ ValePer(stato, msp, tx, R, w)
                /\ tx # Nil => TxNuova(tx)
                /\ Approva(k, tx, R, w)
  <1> DEFINE Parte == \E msp \in Msp : \E tx, R, w :
                        /\ ValePer(stato, msp, tx, R, w)
                        /\ tx # Nil => TxNuova(tx)
                        /\ Approva(k, tx, R, w)
  <1>1. ASSUME NEW msp \in Msp, NEW r \in Reperti, NEW priv \in RepertoPrivate,
               CreaReperto(k, msp, r, priv)
        PROVE  Parte
    <2>1. ValeCreaReperto(stato, msp, Nil, LetturaCreaReperto(r),
              ScritturaCreaReperto(r, priv))
      BY <1>1 DEF CreaReperto, ValeCreaReperto
    <2> QED  BY <1>1, <2>1 DEF CreaReperto, ValePer
  <1>2. ASSUME NEW msp \in Msp, NEW d \in IdDocumenti, NEW c \in Casi,
               NEW tipo \in TipiDocumento, NEW r \in Reperti \cup {Nil}, NEW f \in File,
               RegistraDocumento(k, msp, d, c, tipo, r, f)
        PROVE  Parte
    <2>1. ValeRegistraDocumento(stato, msp, Nil, LetturaRegistraDocumento(d, c, r),
              ScritturaRegistraDocumento(stato, msp, d, c, tipo, r, f))
      BY <1>2 DEF RegistraDocumento, ValeRegistraDocumento
    <2> QED  BY <1>2, <2>1 DEF RegistraDocumento, ValePer
  <1>3. ASSUME NEW msp \in Msp, NEW e \in IdEvidenze, NEW c \in Casi,
               NEW r \in Reperti \cup {Nil}, NEW f \in File,
               RegistraEvidenza(k, msp, e, c, r, f)
        PROVE  Parte
    <2>1. ValeRegistraEvidenza(stato, msp, Nil, LetturaRegistraEvidenza(e, c, r),
              ScritturaRegistraEvidenza(msp, e, c, r, f))
      BY <1>3 DEF RegistraEvidenza, ValeRegistraEvidenza
    <2> QED  BY <1>3, <2>1 DEF RegistraEvidenza, ValePer
  <1>4. ASSUME NEW msp \in Msp, NEW tx \in TxIds, NEW r \in Reperti,
               NEW lab \in Laboratori, NEW f \in File,
               RichiediAnalisi(k, tx, msp, r, lab, f)
        PROVE  Parte
    <2>1. ValeRichiediAnalisi(stato, msp, tx, LetturaRichiediAnalisi(stato, r),
              ScritturaRichiediAnalisi(stato, tx, msp, r, lab, f))
      BY <1>4 DEF RichiediAnalisi, ValeRichiediAnalisi
    <2> QED  BY <1>4, <2>1 DEF RichiediAnalisi, ValePer
  <1>5. ASSUME NEW msp \in Msp, NEW r \in Reperti, NEW agente \in Agenti,
               AvviaTrasporto(k, msp, r, agente)
        PROVE  Parte
    <2>1. ValeAvviaTrasporto(stato, msp, Nil, LetturaScheda(r),
              ScritturaAvviaTrasporto(stato, r, agente))
      BY <1>5 DEF AvviaTrasporto, ValeAvviaTrasporto
    <2> QED  BY <1>5, <2>1 DEF AvviaTrasporto, ValePer
  <1>6. ASSUME NEW msp \in Msp, NEW r \in Reperti, NEW lab \in Laboratori,
               RiceviInLaboratorio(k, msp, r, lab)
        PROVE  Parte
    <2>1. ValeRiceviInLaboratorio(stato, msp, Nil, LetturaScheda(r),
              ScritturaRiceviInLaboratorio(stato, r, lab))
      BY <1>6 DEF RiceviInLaboratorio, ValeRiceviInLaboratorio
    <2> QED  BY <1>6, <2>1 DEF RiceviInLaboratorio, ValePer
  <1>7. ASSUME NEW msp \in Msp, NEW tx \in TxIds, NEW r \in Reperti, NEW f \in File,
               CompletaAnalisi(k, tx, msp, r, f)
        PROVE  Parte
    <2>1. ValeCompletaAnalisi(stato, msp, tx, LetturaScheda(r),
              ScritturaCompletaAnalisi(stato, tx, msp, r, f))
      BY <1>7 DEF CompletaAnalisi, ValeCompletaAnalisi
    <2> QED  BY <1>7, <2>1 DEF CompletaAnalisi, ValePer
  <1>8. ASSUME NEW msp \in Msp, NEW r \in Reperti,
               PreparaRiconsegna(k, msp, r)
        PROVE  Parte
    <2>1. ValePreparaRiconsegna(stato, msp, Nil, LetturaScheda(r),
              Niente)
      BY <1>8 DEF PreparaRiconsegna, ValePreparaRiconsegna
    <2> QED  BY <1>8, <2>1 DEF PreparaRiconsegna, ValePer
  <1>9. ASSUME NEW msp \in Msp, NEW tx \in TxIds, NEW r \in Reperti, NEW f \in File,
               DepositaInSede(k, tx, msp, r, f)
        PROVE  Parte
    <2>1. ValeDepositaInSede(stato, msp, tx, LetturaDepositaInSede(r),
              ScritturaDepositaInSede(stato, tx, msp, r, f))
      BY <1>9 DEF DepositaInSede, ValeDepositaInSede
    <2> QED  BY <1>9, <2>1 DEF DepositaInSede, ValePer
  <1> QED  BY <1>1, <1>2, <1>3, <1>4, <1>5, <1>6, <1>7, <1>8, <1>9 DEF Chiamata

-----------------------------------------------------------------------------
(* The invariant of the calls in flight, and the refinement.               *)

\* Nothing is on the ledger and nothing is in flight.
LEMMA InizioFabric == Init => InvFabric /\ Atomica!Init /\ P!Init
  <1> SUFFICES ASSUME Init PROVE InvFabric /\ Atomica!Init /\ P!Init
    OBVIOUS
  <1>1. P!Init /\ Atomica!Init
    BY StesseChiavi
       DEF Init, P!Init, Atomica!Init, RegistroVuoto, P!RegistroVuoto, Atomica!RegistroVuoto
  <1>2. P!Base
    BY <1>1, StesseIpotesi, P!InizioBase
  <1> QED  BY <1>1, <1>2 DEF Init, InvFabric, IdDistinti

\* A call goes in flight: it was admitted, and its id is not in use.
LEMMA PassoChiamata ==
    ASSUME InvFabric, NEW k \in Canali, Chiamata(k)
    PROVE  InvFabric' /\ stato' = stato
  <1>1. PICK msp \in Msp : \E tx, R, w :
            ValePer(stato, msp, tx, R, w) /\ (tx # Nil => TxNuova(tx)) /\ Approva(k, tx, R, w)
    BY ChiamataVale
  <1>2. PICK tx, R, w :
            ValePer(stato, msp, tx, R, w) /\ (tx # Nil => TxNuova(tx)) /\ Approva(k, tx, R, w)
    BY <1>1
  <1> DEFINE v == [tx |-> tx, letture |-> R, scritture |-> w, fresca |-> TRUE]
  <1>3. /\ stato' = stato /\ volo[k] = Nil /\ volo' = [volo EXCEPT ![k] = v]
        /\ volo = [j \in Canali |-> volo[j]]
    BY <1>2 DEF Approva, InvFabric
  <1>4. volo' = [j \in Canali |-> IF j = k THEN v ELSE volo[j]]
    BY <1>3
  <1>5. P!Base'
    BY <1>3, StesseIpotesi, P!PassoBase DEF InvFabric, P!vars
  <1>6. ChiamataInVolo(stato', v)
    <2>1. tx \in TxIds \cup {Nil} /\ R \subseteq Chiavi /\ Tipata(w)
      BY <1>2, BaseNota, ValeTipata DEF InvFabric
    <2>2. Vale(stato, tx, R, w)
      BY <1>2 DEF Vale
    <2> QED  BY <1>2, <1>3, <2>1, <2>2 DEF ChiamataInVolo, TxNuova, Assente
  <1>7. \A j \in Canali : volo'[j] # Nil => ChiamataInVolo(stato', volo'[j])
    BY <1>3, <1>4, <1>6 DEF InvFabric
  <1>8. IdDistinti'
    BY <1>2, <1>4 DEF InvFabric, IdDistinti, TxNuova
  <1> QED  BY <1>3, <1>4, <1>5, <1>7, <1>8 DEF InvFabric

\* A call is lost or refused: one less in flight.
LEMMA PassoScarta ==
    ASSUME InvFabric, NEW k \in Canali, Scarta(k)
    PROVE  InvFabric' /\ stato' = stato
  <1>1. stato' = stato /\ volo' = [j \in Canali |-> IF j = k THEN Nil ELSE volo[j]]
    BY DEF Scarta, InvFabric
  <1>2. P!Base'
    BY <1>1, StesseIpotesi, P!PassoBase DEF InvFabric, P!vars
  <1>3. \A j \in Canali : volo'[j] # Nil => ChiamataInVolo(stato', volo'[j])
    BY <1>1 DEF InvFabric
  <1>4. IdDistinti'
    BY <1>1 DEF InvFabric, IdDistinti
  <1> QED  BY <1>1, <1>2, <1>3, <1>4 DEF InvFabric

\* What the writes of a call leave as it was.
LEMMA DopoScritture ==
    ASSUME NEW s, Tipato(s), NEW w, Tipata(w), NEW x \in Chiavi
    PROVE  /\ x \in DOMAIN w => (s ++ w)[x] = w[x]
           /\ x \notin DOMAIN w => (s ++ w)[x] = s[x]
  BY DEF ++, Tipato, Tipata

\* A call that is committed attaches nothing under the id of another.
LEMMA AssenteDopo ==
    ASSUME InvFabric, NEW k \in Canali, Conferma(k), NEW t \in TxIds, t # volo[k].tx,
           Assente(stato, t)
    PROVE  Assente(stato', t)
  <1> DEFINE tx == volo[k].tx
             w == volo[k].scritture
  <1>1. /\ volo[k] # Nil /\ ChiamataInVolo(stato, volo[k])
        /\ Vale(stato, tx, volo[k].letture, w)
        /\ stato' = stato ++ w
    BY DEF Conferma, InvFabric, ChiamataInVolo
  <1>2. Tipato(stato) /\ Tipata(w) /\ tx \in TxIds \cup {Nil}
    BY <1>1, BaseNota DEF InvFabric, ChiamataInVolo
  <1>3. PICK msp \in Msp : ValePer(stato, msp, tx, volo[k].letture, w)
    BY <1>1 DEF Vale
  <1> SUFFICES ASSUME NEW c \in Casi PROVE stato'[ChiaveDocumento(c, t)] = Nil
    BY DEF Assente
  <1> DEFINE x == ChiaveDocumento(c, t)
  <1>4. stato[x] = Nil /\ x \in Chiavi
    BY ValoriDelleChiavi DEF Assente, IdAtto
  <1>5. x \notin DOMAIN w
    <2> SUFFICES ASSUME x \in Registrati(w) PROVE FALSE
      BY DEF Registrati, ChiaveDocumento
    <2>1. \/ x[3] \in IdDocumenti \cup IdEvidenze
          \/ \E cc \in Casi : x = ChiaveDocumento(cc, tx)
      BY <1>2, <1>3, ValeRegistra
    <2> QED  BY <2>1, IdAssumption DEF ChiaveDocumento
  <1> QED  BY <1>1, <1>2, <1>4, <1>5, DopoScritture

\* A call is committed.  It is a step of the contract, as nothing it read was
\* written; a call in flight it leaves fresh still reads what it read.
LEMMA PassoConferma ==
    ASSUME InvFabric, NEW k \in Canali, Conferma(k)
    PROVE  InvFabric' /\ Atomica!Next /\ P!Next
  <1> DEFINE tx == volo[k].tx
             w == volo[k].scritture
  <1>1. /\ volo[k] # Nil /\ ChiamataInVolo(stato, volo[k])
        /\ Vale(stato, tx, volo[k].letture, w)
        /\ stato' = stato ++ w
        /\ volo' = [j \in Canali |->
                    IF j = k \/ volo[j] = Nil THEN Nil
                    ELSE [volo[j] EXCEPT
                            !.fresca = volo[j].fresca /\ volo[j].letture \cap DOMAIN w = {}]]
    BY DEF Conferma, DopoConferma, InvFabric, ChiamataInVolo
  <1>2. Tipato(stato) /\ Tipata(w) /\ tx \in TxIds \cup {Nil} /\ (tx # Nil => Assente(stato, tx))
    BY <1>1, BaseNota DEF InvFabric, ChiamataInVolo
  <1>3. PICK msp \in Msp : ValePer(stato, msp, tx, volo[k].letture, w)
    BY <1>1 DEF Vale
  <1>4. Atomica!Next /\ P!Next
    BY <1>1, <1>2, <1>3, PassoAtomico DEF Assente
  <1>5. P!Base'
    BY <1>4, StesseIpotesi, P!PassoBase DEF InvFabric
  <1>6. ASSUME NEW j \in Canali, volo'[j] # Nil
        PROVE  ChiamataInVolo(stato', volo'[j])
    <2> DEFINE u == volo[j]
               libera == u.fresca /\ u.letture \cap DOMAIN w = {}
    <2>1. j # k /\ u # Nil /\ volo'[j] = [u EXCEPT !.fresca = libera]
      BY <1>1, <1>6
    <2>2. ChiamataInVolo(stato, u)
      BY <2>1 DEF InvFabric
    <2>3. volo'[j] = [tx |-> u.tx, letture |-> u.letture, scritture |-> u.scritture,
                      fresca |-> libera]
      BY <2>1, <2>2 DEF ChiamataInVolo
    <2>4. ASSUME libera PROVE Vale(stato', u.tx, u.letture, u.scritture)
      <3>1. PICK m \in Msp : ValePer(stato, m, u.tx, u.letture, u.scritture)
        BY <2>2, <2>4 DEF ChiamataInVolo, Vale
      <3>2. \A x \in u.letture : stato'[x] = stato[x]
        BY <1>1, <1>2, <2>2, <2>4, DopoScritture DEF ChiamataInVolo
      <3>3. ValePer(stato', m, u.tx, u.letture, u.scritture)
        BY <3>1, <3>2, BastaLaLettura
      <3> QED  BY <3>3 DEF Vale
    <2>5. ASSUME u.tx # Nil PROVE Assente(stato', u.tx)
      <3>1. u.tx \in TxIds /\ Assente(stato, u.tx)
        BY <2>2, <2>5 DEF ChiamataInVolo
      <3>2. u.tx # tx
        BY <1>1, <2>1, <2>5 DEF InvFabric, IdDistinti
      <3> QED  BY <3>1, <3>2, AssenteDopo
    <2>6. libera \in BOOLEAN
      BY <2>2 DEF ChiamataInVolo
    <2> HIDE DEF libera
    <2> QED  BY <2>2, <2>3, <2>4, <2>5, <2>6 DEF ChiamataInVolo
  <1>7. IdDistinti'
    <2>1. \A j \in Canali : volo'[j] # Nil => volo[j] # Nil /\ volo'[j].tx = volo[j].tx
      BY <1>1 DEF InvFabric, ChiamataInVolo
    <2> QED  BY <2>1 DEF InvFabric, IdDistinti
  <1> QED  BY <1>1, <1>4, <1>5, <1>6, <1>7 DEF InvFabric

\* Every step keeps the invariant and is a step of the contract or none.
LEMMA PassoFabric ==
    InvFabric /\ [Next]_vars => InvFabric' /\ [Atomica!Next]_(Atomica!vars) /\ [P!Next]_(P!vars)
  <1> SUFFICES ASSUME InvFabric, [Next]_vars
               PROVE  InvFabric' /\ [Atomica!Next]_(Atomica!vars) /\ [P!Next]_(P!vars)
    OBVIOUS
  <1>1. ASSUME NEW k \in Canali, Chiamata(k) \/ Scarta(k)
        PROVE  InvFabric' /\ [Atomica!Next]_(Atomica!vars) /\ [P!Next]_(P!vars)
    BY <1>1, PassoChiamata, PassoScarta DEF Atomica!vars, P!vars
  <1>2. ASSUME NEW k \in Canali, Conferma(k)
        PROVE  InvFabric' /\ [Atomica!Next]_(Atomica!vars) /\ [P!Next]_(P!vars)
    BY <1>2, PassoConferma
  <1>3. CASE UNCHANGED vars
    <2>1. stato' = stato /\ volo' = volo
      BY <1>3 DEF vars
    <2>2. P!Base'
      BY <2>1, StesseIpotesi, P!PassoBase DEF InvFabric, P!vars
    <2> QED  BY <2>1, <2>2 DEF InvFabric, IdDistinti, Atomica!vars, P!vars
  <1> QED  BY <1>1, <1>2, <1>3 DEF Next

\* The invariant always holds, and the ledger takes the steps of the contract.
LEMMA FabricSempre == Spec => []InvFabric /\ Atomica!Spec /\ P!Spec
  BY InizioFabric, PassoFabric, PTL DEF Spec, Atomica!Spec, P!Spec

\* What is on the ledger and what is in flight is typed.
THEOREM VoloTipato == Spec => []TypeOK
  <1>1. InvFabric => TypeOK
    BY BaseNota DEF InvFabric, TypeOK, ChiamataInVolo, Tipato, Tipata
  <1> QED  BY <1>1, FabricSempre, PTL

\* However calls overlap, are repeated, reordered or lost, the ledger takes the
\* steps of one call at a time.
THEOREM SempreSerializzabile == Spec => Serializzabile
  BY FabricSempre DEF Serializzabile

-----------------------------------------------------------------------------
(* What is proved of one call at a time holds whatever is in flight.       *)

\* With calls in flight custody still agrees with the life cycle, the way back
\* of an exhibit is open, its card leads to complete documents, the reports that
\* end an analysis have a mandate and returns balance.
THEOREM CustodiaInVolo ==
    Spec => [](P!CustodiaCoerente /\ P!PercorsoAperto /\ P!PuntatoriRisolti
               /\ P!RelazioneConMandato /\ P!BilancioRiconsegne)
  <1>1. P!Spec => []P!CustodiaCoerente
    BY StesseIpotesi, P!CustodiaSempreCoerente
  <1>2. P!Spec => []P!PercorsoAperto
    BY StesseIpotesi, P!PercorsoSempreAperto
  <1>3. P!Spec => []P!PuntatoriRisolti
    BY StesseIpotesi, P!PuntatoriSempreRisolti
  <1>4. P!Spec => []P!RelazioneConMandato
    BY StesseIpotesi, P!RelazioneSempreConMandato
  <1>5. P!Spec => []P!BilancioRiconsegne
    BY StesseIpotesi, P!BilancioSempre
  <1> QED  BY <1>1, <1>2, <1>3, <1>4, <1>5, FabricSempre, PTL

\* With calls in flight the dossier on the ledger is still immutable and can be
\* opened, and the laboratory still has its copies there, can read what it has
\* to and no more, with every private record delivered.
THEOREM FascicoloInVolo ==
    ASSUME P!IdSeparati
    PROVE  Spec => /\ [](P!CopiaPerLaboratorio /\ P!FascicoloDecifrabile /\ P!ElenchiIntegri
                         /\ P!LaboratorioDiscreto /\ P!LaboratorioInformato)
                   /\ P!FascicoloImmutabile
  <1>1. P!Spec => []P!CopiaPerLaboratorio
    BY StesseIpotesi, P!CopiaSempre
  <1>2. P!Spec => []P!FascicoloDecifrabile
    BY StesseIpotesi, P!FascicoloSempreDecifrabile
  <1>3. P!Spec => []P!ElenchiIntegri
    BY StesseIpotesi, P!ElenchiSempreIntegri
  <1>4. P!Spec => []P!LaboratorioDiscreto
    BY StesseIpotesi, P!LaboratorioSempreDiscreto
  <1>5. P!Spec => []P!LaboratorioInformato
    BY StesseIpotesi, P!LaboratorioSempreInformato
  <1>6. P!Spec => P!FascicoloImmutabile
    BY StesseIpotesi, P!FascicoloSempreImmutabile
  <1> QED  BY <1>1, <1>2, <1>3, <1>4, <1>5, <1>6, FabricSempre, PTL
=============================================================================
