--------------------------- MODULE Consultazione ----------------------------
(***************************************************************************)
(* The queries of the contract, as what a client of an organisation gets   *)
(* when it asks the peer of an organisation.  A record of a private        *)
(* collection is found only if the collection admits both: the reader      *)
(* (memberOnlyRead) and the peer, which otherwise has only its hash.  The  *)
(* contract then goes on as if the record were not there.                  *)
(***************************************************************************)
EXTENDS Custodia

\* The organisations of each collection.
Membri == [PG_PM |-> {"PGMSP", "PMMSP"}, PM_LAB |-> {"PMMSP", "LABMSP"}]

\* The organisation whose peer a client asks, by its own.
PeerWorkflow == [PGMSP |-> "PGMSP", PMMSP |-> "PGMSP", LABMSP |-> "LABMSP"]
PeerDownload == [msp \in Msp |-> "PGMSP"]

\* GetPrivateData, with the errors that pdcIgnorabileInLettura ignores.
Trova(s, pdc, k, msp, peer) ==
    IF {msp, peer} \subseteq Membri[pdc] THEN s[k] ELSE Nil

-----------------------------------------------------------------------------
(* Documents and evidence.  Errore is a query that returns an error.       *)

Errore == [errore |-> TRUE]

tryLoadDocumentoPrivate(s, msp, peer, c, d) ==
    LET pgpm == Trova(s, "PG_PM", ChiaveFile("PG_PM", c, d), msp, peer)
    IN  IF pgpm # Nil THEN pgpm
        ELSE Trova(s, "PM_LAB", ChiaveFile("PM_LAB", c, d), msp, peer)

loadEvidenzaPrivate(s, msp, peer, c, e) ==
    Trova(s, "PG_PM", ChiaveFile("PG_PM", c, e), msp, peer)

\* The public part and the private record, if that was found; an error if
\* there is no public part or the record is of another case.
Unito(pub, priv, c) ==
    IF pub = Nil \/ (priv # Nil /\ priv.caso # c) THEN Errore
    ELSE [cid |-> pub.cid, privato |-> priv]

loadDocumentoMerged(s, msp, peer, c, d) ==
    Unito(s[ChiaveDocumento(c, d)], tryLoadDocumentoPrivate(s, msp, peer, c, d), c)

loadEvidenzaMerged(s, msp, peer, c, e) ==
    Unito(s[ChiaveEvidenza(c, e)], loadEvidenzaPrivate(s, msp, peer, c, e), c)

\* What was found is returned, be it without type and key.
LeggiDocumento_Parziale(s, msp, peer, c, d) == loadDocumentoMerged(s, msp, peer, c, d)

\* A document without a type is one whose private record was not found.
LeggiDocumento(s, msp, peer, c, d) ==
    LET doc == loadDocumentoMerged(s, msp, peer, c, d)
    IN  IF doc = Errore THEN Errore
        ELSE IF doc.privato = Nil \/ doc.privato.tipo = Nil THEN Errore ELSE doc

LeggiEvidenza(s, msp, peer, c, e) ==
    LET evi == loadEvidenzaMerged(s, msp, peer, c, e)
    IN  IF evi = Errore THEN Errore
        ELSE IF evi.privato = Nil THEN Errore ELSE evi

\* The entries of a list.  The query fails if one of them does.
ListaDocumentiCaso(s, msp, peer, c) ==
    {loadDocumentoMerged(s, msp, peer, c, d) :
        d \in {d \in IdAtto : s[ChiaveDocumento(c, d)] # Nil}}

ListaEvidenzeCaso(s, msp, peer, c) ==
    {loadEvidenzaMerged(s, msp, peer, c, e) :
        e \in {e \in IdEvidenze : s[ChiaveEvidenza(c, e)] # Nil}}

ListaDocumentiReperto(s, msp, peer, r) ==
    {loadDocumentoMerged(s, msp, peer, s[ChiaveDocRep(r, d)].caso, d) :
        d \in {d \in IdAtto : s[ChiaveDocRep(r, d)] # Nil}}

ListaEvidenzeReperto(s, msp, peer, r) ==
    {loadEvidenzaMerged(s, msp, peer, s[ChiaveEviRep(r, e)].caso, e) :
        e \in {e \in IdEvidenze : s[ChiaveEviRep(r, e)] # Nil}}

\* decodeCIDAndKey: the key the client got opens the file the CID names.
Apre(doc) == doc # Errore /\ doc.privato.chiave = doc.cid

-----------------------------------------------------------------------------
(* The card of an exhibit: the public part, completed by the private data  *)
(* the reader's organisation may find.                                     *)

ReadReperto(s, msp, peer, r) ==
    LET priv == IF msp = "LABMSP"
                THEN Trova(s, "PM_LAB", ChiavePrivatoPmLab(r), msp, peer)
                ELSE Trova(s, "PG_PM", ChiavePrivatoReperto(r), msp, peer)
    IN  IF ~RepertoExists(s, r) THEN Errore
        ELSE [pubblica |-> [Scheda(s, r) EXCEPT
                              !.stato = statoEffettivoReperto(Scheda(s, r)),
                              !.caso = IF priv = Nil THEN @ ELSE priv.caso],
              sede |-> IF priv = Nil THEN Nil ELSE priv.distretto]

-----------------------------------------------------------------------------
(* Properties.                                                             *)

\* No list fails as a whole because of one entry, whoever asks whomever:
\* every index entry leads to a document or evidence that is there.
ElenchiIntegri ==
    \A msp \in Msp, peer \in Msp :
        /\ \A c \in Casi :
            Errore \notin ListaDocumentiCaso(stato, msp, peer, c)
                            \cup ListaEvidenzeCaso(stato, msp, peer, c)
        /\ \A r \in Reperti :
            Errore \notin ListaDocumentiReperto(stato, msp, peer, r)
                            \cup ListaEvidenzeReperto(stato, msp, peer, r)

\* From the request of analysis on, the committed ledger holds all that LAB
\* needs in collections LAB and its peer belong to: with every private record
\* delivered, LAB reads through its own peer the same card PG and PM read
\* through theirs, and the seizure report and the decree with a key that opens
\* them.  (What LAB reads before that is LaboratorioServito of Propagazione.)
LaboratorioInformato ==
    \A r \in RepertiNoti :
        LET p == Scheda(stato, r)
            Leggi(d) == LeggiDocumento(stato, "LABMSP", PeerWorkflow["LABMSP"],
                                       p.caso, d)
        IN  p.decreto # Nil =>
                /\ \A msp \in Msp :
                    ReadReperto(stato, msp, PeerWorkflow[msp], r)
                        = ReadReperto(stato, "LABMSP", PeerWorkflow["LABMSP"], r)
                /\ Apre(Leggi(p.verbale))
                /\ Apre(Leggi(p.decreto))

\* The laboratory reads a document of PG only if the verbale pointer of an
\* exhibit whose analysis was requested leads to it, whichever peer it asks.
LaboratorioDiscreto ==
    \A c \in Casi, d \in IdAtto, peer \in Msp :
        LET doc == LeggiDocumento(stato, "LABMSP", peer, c, d)
        IN  doc # Errore =>
                \/ doc.privato.tipo \notin TipiPg
                \/ \E r \in RepertiNoti :
                    /\ Scheda(stato, r).decreto # Nil
                    /\ Scheda(stato, r).verbale = d /\ Scheda(stato, r).caso = c

-----------------------------------------------------------------------------
(* What the repository says and the clients do not do.                     *)

\* "Fabric evaluates the access to a collection on the signer's MSP": what an
\* organisation may read, it can fetch with cmd/download.
ScaricabileDaiDestinatari ==
    \A msp \in Msp, c \in Casi, d \in IdAtto, pdc \in {"PG_PM", "PM_LAB"} :
        /\ msp \in Membri[pdc]
        /\ stato[ChiaveFile(pdc, c, d)] # Nil
        => LeggiDocumento(stato, msp, PeerDownload[msp], c, d) # Errore
=============================================================================
