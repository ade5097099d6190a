------------------------------ MODULE Custodia ------------------------------
(***************************************************************************)
(* The chain of custody as the contract promises it: one ledger, on which  *)
(* every transaction executes atomically.  There is one action per         *)
(* transaction function; a call the contract rejects leaves the ledger     *)
(* unchanged and is a stuttering step.                                     *)
(***************************************************************************)
EXTENDS Contratto

VARIABLE stato   \* the ledger: world state and private collections

vars == stato

\* A transaction id occurs on the ledger only as the id of the document that
\* the transaction attached.
TxNuova(s, tx) == \A c \in Casi : s[ChiaveDocumento(c, tx)] = Nil

Init == stato = RegistroVuoto

CreaReperto(msp, r, priv) ==
    /\ AmmetteCreaReperto(stato, msp, r)
    /\ stato' = stato ++ ScritturaCreaReperto(r, priv)

RegistraDocumento(msp, d, c, tipo, r, f) ==
    /\ AmmetteRegistraDocumento(stato, msp, d, c, tipo, r)
    /\ stato' = stato ++ ScritturaRegistraDocumento(stato, msp, d, c, tipo, r, f)

RegistraEvidenza(msp, e, c, r, f) ==
    /\ AmmetteRegistraEvidenza(stato, msp, e, c, r)
    /\ stato' = stato ++ ScritturaRegistraEvidenza(msp, e, c, r, f)

RichiediAnalisi(tx, msp, r, lab, f) ==
    /\ TxNuova(stato, tx)
    /\ AmmetteRichiediAnalisi(stato, msp, r)
    /\ stato' = stato ++ ScritturaRichiediAnalisi(stato, tx, msp, r, lab, f)

AvviaTrasporto(msp, r, agente) ==
    /\ AmmetteAvviaTrasporto(stato, msp, r)
    /\ stato' = stato ++ ScritturaAvviaTrasporto(stato, r, agente)

RiceviInLaboratorio(msp, r, lab) ==
    /\ AmmetteRiceviInLaboratorio(stato, msp, r, lab)
    /\ stato' = stato ++ ScritturaRiceviInLaboratorio(stato, r, lab)

CompletaAnalisi(tx, msp, r, f) ==
    /\ TxNuova(stato, tx)
    /\ AmmetteCompletaAnalisi(stato, msp, r)
    /\ stato' = stato ++ ScritturaCompletaAnalisi(stato, tx, msp, r, f)

\* A transaction with no writes: on the ledger it is a stuttering step.
PreparaRiconsegna(msp, r) ==
    /\ AmmettePreparaRiconsegna(stato, msp, r)
    /\ UNCHANGED stato

DepositaInSede(tx, msp, r, f) ==
    /\ TxNuova(stato, tx)
    /\ AmmetteDepositaInSede(stato, msp, r)
    /\ stato' = stato ++ ScritturaDepositaInSede(stato, tx, msp, r, f)

\* The calls of one client of organisation msp.
Next ==
    \E msp \in Msp :
        \/ \E r \in Reperti, priv \in RepertoPrivate : CreaReperto(msp, r, priv)
        \/ \E d \in IdDocumenti, c \in Casi, tipo \in TipiDocumento,
              r \in Reperti \cup {Nil}, f \in File :
                RegistraDocumento(msp, d, c, tipo, r, f)
        \/ \E e \in IdEvidenze, c \in Casi, r \in Reperti \cup {Nil},
              f \in File : RegistraEvidenza(msp, e, c, r, f)
        \/ \E tx \in TxIds, r \in Reperti, lab \in Laboratori, f \in File :
                RichiediAnalisi(tx, msp, r, lab, f)
        \/ \E r \in Reperti, agente \in Agenti : AvviaTrasporto(msp, r, agente)
        \/ \E r \in Reperti, lab \in Laboratori :
                RiceviInLaboratorio(msp, r, lab)
        \/ \E tx \in TxIds, r \in Reperti, f \in File :
                CompletaAnalisi(tx, msp, r, f)
        \/ \E r \in Reperti : PreparaRiconsegna(msp, r)
        \/ \E tx \in TxIds, r \in Reperti, f \in File :
                DepositaInSede(tx, msp, r, f)

Spec == Init /\ [][Next]_vars

-----------------------------------------------------------------------------
(* Properties.                                                             *)

\* Every key holds nothing or a value of its namespace (the structs of
\* chaincode/internal/model).
TypeOK ==
    /\ DOMAIN stato = Chiavi
    /\ \A k \in Chiavi : stato[k] \in ValoriDi(k) \cup {Nil}

RepertiNoti == {r \in Reperti : RepertoExists(stato, r)}

\* The public card p and the private data priv of one exhibit agree on who
\* has it and on its case.
CustodiaDi(p, priv) ==
    /\ priv # Nil
    /\ p.caso = priv.caso
    /\ p.stato \in {"SEQUESTRATO", "ATTESA_TRASPORTO"} => p.custode = priv.distretto
    /\ p.stato = "IN_TRANSITO" => p.custode \in Agenti
    /\ p.stato \in {"IN_ANALISI", "ATTESA_RITIRO"}
            => p.custode = p.lab /\ p.lab \in Laboratori

\* Who has the exhibit agrees with where the life cycle says it is: in its
\* district while seized or waiting to leave, with an agent in transit, in
\* the laboratory the decree names while under analysis or waiting for the
\* return.  Every exhibit has its private data, of the same case.
CustodiaCoerente ==
    \A r \in RepertiNoti : CustodiaDi(Scheda(stato, r), Privato(stato, r))

\* Document id of case c, attached by a workflow step to exhibit r, is
\* complete: public part, private part in the collection of its type with the
\* key of that very file, author of the organisation that may write it, and
\* the index entry that lists it under the exhibit.
AttoCompleto(c, r, id, tipo) ==
    LET pdc == pdcCollectionForTipoDocumento(tipo)
        priv == stato[ChiaveFile(pdc, c, id)]
    IN  /\ priv # Nil
        /\ priv.caso = c /\ priv.reperto = r /\ priv.tipo = tipo
        /\ requireMSPForTipoDocumento(priv.autore, tipo)
        /\ stato[ChiaveDocumento(c, id)] = [cid |-> priv.chiave]
        /\ stato[ChiaveDocRep(r, id)] = [caso |-> c]

\* The decree, report and return ids on an exhibit's card always lead to the
\* complete document of that type, in the case of the exhibit.
PuntatoriRisolti ==
    \A r \in RepertiNoti :
        LET p == Scheda(stato, r)
        IN  /\ p.decreto # Nil
                    => AttoCompleto(p.caso, r, p.decreto, "DECRETO_ACCERTAMENTO")
            /\ p.relazione # Nil
                    => AttoCompleto(p.caso, r, p.relazione, "RELAZIONE_TECNICA")
            /\ p.riconsegna # Nil
                    => AttoCompleto(p.caso, r, p.riconsegna, "VERBALE_RICONSEGNA")

\* From the request of analysis on, LAB finds in collezione_PM_LAB what PG and
\* PM have in collezione_PG_PM: the private data of the exhibit and the record
\* its verbale pointer leads to.
CopiaPerLaboratorio ==
    \A r \in RepertiNoti :
        LET p == Scheda(stato, r)
        IN  p.decreto # Nil =>
                /\ stato[ChiavePrivatoPmLab(r)] = Privato(stato, r)
                /\ p.verbale # Nil
                /\ stato[ChiaveVerbale(stato, r, "PM_LAB")] # Nil
                /\ stato[ChiaveVerbale(stato, r, "PM_LAB")]
                        = stato[ChiaveVerbale(stato, r, "PG_PM")]

\* The file records attached to exhibit r by workflow steps, by type.
Allegati(r, tipo) ==
    {x \in Casi \X TxIds :
        LET priv == stato[ChiaveFile(pdcCollectionForTipoDocumento(tipo),
                                     x[1], x[2])]
        IN  priv # Nil /\ priv.tipo = tipo /\ priv.reperto = r}

\* Decrees and return reports balance: an exhibit away from its district (or
\* about to leave) has exactly one decree whose return is not yet recorded,
\* one that is seized has none.
BilancioRiconsegne ==
    \A r \in RepertiNoti :
        Cardinality(Allegati(r, "DECRETO_ACCERTAMENTO"))
            = Cardinality(Allegati(r, "VERBALE_RICONSEGNA"))
              + (IF Scheda(stato, r).stato = "SEQUESTRATO" THEN 0 ELSE 1)

\* Every report CompletaAnalisi attached names a laboratory that some decree
\* for that exhibit had appointed.  (Those LAB registers with RegistraDocumento
\* name none, and need no decree.)
RelazioneConMandato ==
    \A r \in Reperti : \A x \in Allegati(r, "RELAZIONE_TECNICA") :
        \E y \in Allegati(r, "DECRETO_ACCERTAMENTO") :
            stato[ChiaveFile("PM_LAB", x[1], x[2])].ente
                = stato[ChiaveFile("PM_LAB", y[1], y[2])].ente

\* Once an exhibit has left the state SEQUESTRATO no step of its way back is
\* refused for missing data: whatever is recorded, PG, the appointed
\* laboratory and PG again can always go on.
PercorsoAperto ==
    \A r \in RepertiNoti :
        LET p == Scheda(stato, r)
        IN  /\ p.stato = "IN_TRANSITO" =>
                /\ AmmetteDepositaInSede(stato, "PGMSP", r)
                /\ AmmetteRiceviInLaboratorio(stato, "LABMSP", r, p.lab)
            /\ p.stato = "IN_ANALISI" => AmmetteCompletaAnalisi(stato, "LABMSP", r)

\* tryLoadDocumentoPrivate: collezione_PG_PM first, then collezione_PM_LAB.
PrivatoDocumento(s, c, d) ==
    IF s[ChiaveFile("PG_PM", c, d)] # Nil
    THEN s[ChiaveFile("PG_PM", c, d)] ELSE s[ChiaveFile("PM_LAB", c, d)]

\* Every document and every evidence on the ledger can be opened: the private
\* record a reader finds for it holds the key of the file its CID names, and a
\* document's record has the document's type.
FascicoloDecifrabile ==
    \A c \in Casi :
        /\ \A d \in IdAtto : stato[ChiaveDocumento(c, d)] # Nil =>
            LET priv == PrivatoDocumento(stato, c, d)
            IN  /\ priv # Nil
                /\ priv.caso = c /\ priv.tipo # Nil
                /\ stato[ChiaveDocumento(c, d)] = [cid |-> priv.chiave]
        /\ \A e \in IdEvidenze : stato[ChiaveEvidenza(c, e)] # Nil =>
            LET priv == stato[ChiaveFile("PG_PM", c, e)]
            IN  /\ priv # Nil
                /\ priv.caso = c
                /\ stato[ChiaveEvidenza(c, e)] = [cid |-> priv.chiave]

\* Keys whose value, once written, is never replaced by another: the public
\* and private parts of documents and evidence, the private data of exhibits.
ChiaviImmutabili ==
    Chiavi \ ({ChiaveReperto(r) : r \in Reperti}
              \cup {ChiaveDocRep(r, d) : r \in Reperti, d \in IdAtto}
              \cup {ChiaveEviRep(r, e) : r \in Reperti, e \in IdEvidenze})

\* No transaction rewrites or deletes a registered file's record, nor the
\* private data of an exhibit, nor repoints an exhibit to another seizure
\* report: what is in the dossier stays as it was filed.
FascicoloImmutabile ==
    [][/\ \A k \in ChiaviImmutabili : stato[k] # Nil => stato'[k] = stato[k]
       /\ \A r \in RepertiNoti :
            /\ RepertoExists(stato', r)
            /\ Scheda(stato, r).verbale # Nil
                    => Scheda(stato', r).verbale = Scheda(stato, r).verbale]_vars

-----------------------------------------------------------------------------
(* What the repository says and the contract does not keep.                *)

\* The life cycle of the README: the exhibit goes back to its seat after the
\* analysis, so a return report comes with a laboratory report.
RiconsegnaDopoRelazione ==
    \A r \in RepertiNoti :
        Scheda(stato, r).riconsegna # Nil => Scheda(stato, r).relazione # Nil

\* What RichiediAnalisi copies for LAB is a seizure report of that exhibit.
CopiaDelVerbale ==
    \A r \in RepertiNoti :
        LET copia == stato[ChiaveVerbale(stato, r, "PM_LAB")]
        IN  Scheda(stato, r).decreto # Nil =>
                copia.tipo = "VERBALE_SEQUESTRO" /\ copia.reperto = r

\* The DOCREP index finds every document linked to an exhibit.
IndiceCompleto ==
    \A r \in Reperti, c \in Casi, d \in IdAtto :
        LET priv == PrivatoDocumento(stato, c, d)
        IN  priv # Nil /\ priv.reperto = r
                => stato[ChiaveDocRep(r, d)] = [caso |-> c]
=============================================================================
