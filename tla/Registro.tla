------------------------------ MODULE Registro ------------------------------
(***************************************************************************)
(* The data of the chain of custody as it lies on the Fabric ledger: the   *)
(* public world state and the two private data collections, seen as one    *)
(* map from keys to values, with the key and value layout of               *)
(* chaincode/internal/contract and chaincode/internal/model.               *)
(*                                                                         *)
(* Identifiers, CIDs and AES keys are opaque values.  A File stands for a  *)
(* pair (CID on IPFS, AES key that opens it): two equal Files are one      *)
(* ciphertext and its key.  Nil stands for the empty string in a field     *)
(* and for "no value" (GetState = nil) at a key.                           *)
(***************************************************************************)
EXTENDS Naturals, FiniteSets

CONSTANTS
    Reperti,      \* ids of exhibits
    Casi,         \* ids of judicial cases
    IdDocumenti,  \* ids given by clients to documents
    IdEvidenze,   \* ids given by clients to generic evidence files
    TxIds,        \* Fabric transaction ids, used as ids of attached documents
    Distretti,    \* PG districts, the seats where exhibits are kept
    Agenti,       \* PG agents that carry an exhibit
    Laboratori,   \* laboratories
    File,         \* (CID, AES key) pairs
    Nil           \* the empty string, the absent value

\* Prefix of the key of the copy of an exhibit's private data in
\* collezione_PM_LAB: the same "prefix/id" form as the key of a file.
PrefissoPmLab == "reperto_privato_pm_lab"

\* A transaction id is the hash of a proposal: no client gives it as an id.
\* No case is called like the key prefix.
ASSUME IdAssumption ==
    /\ TxIds \cap (IdDocumenti \cup IdEvidenze) = {}
    /\ PrefissoPmLab \notin Casi

Msp == {"PGMSP", "PMMSP", "LABMSP"}

Stati == {"SEQUESTRATO", "ATTESA_TRASPORTO", "IN_TRANSITO", "IN_ANALISI",
          "ATTESA_RITIRO"}

TipiPg == {"VERBALE_SOPRALLUOGO", "VERBALE_SEQUESTRO", "VERBALE_RICONSEGNA"}

TipiDocumento == TipiPg \cup {"DECRETO_ACCERTAMENTO", "RELAZIONE_TECNICA"}

-----------------------------------------------------------------------------
(* Keys.  All are triples; the first member tells the namespace.           *)

\* Ids of documents: a client's, or the transaction's for an attached one.
IdAtto == IdDocumenti \cup TxIds

Id == IdAtto \cup IdEvidenze

ChiaveReperto(r) == <<"PUB", r, Nil>>
ChiavePrivatoReperto(r) == <<"PG_PM", r, Nil>>
ChiaveDocumento(c, d) == <<"DOC", c, d>>
ChiaveDocRep(r, d) == <<"DOCREP", r, d>>
ChiaveEvidenza(c, e) == <<"EVI", c, e>>
ChiaveEviRep(r, e) == <<"EVIREP", r, e>>

\* filePrivDataKey in collection pdc: documents and evidence share it.
ChiaveFile(pdc, c, id) == <<pdc, c, id>>

\* The copy of an exhibit's private data that PM leaves for LAB.
ChiavePrivatoPmLab(r) == ChiaveFile("PM_LAB", PrefissoPmLab, r)

Chiavi ==
    {ChiaveReperto(r) : r \in Reperti}
    \cup {ChiavePrivatoReperto(r) : r \in Reperti}
    \cup {ChiavePrivatoPmLab(r) : r \in Reperti}
    \cup {ChiaveDocumento(c, d) : c \in Casi, d \in IdAtto}
    \cup {ChiaveEvidenza(c, e) : c \in Casi, e \in IdEvidenze}
    \cup {ChiaveDocRep(r, d) : r \in Reperti, d \in IdAtto}
    \cup {ChiaveEviRep(r, e) : r \in Reperti, e \in IdEvidenze}
    \cup {ChiaveFile("PG_PM", c, id) : c \in Casi, id \in Id}
    \cup {ChiaveFile("PM_LAB", c, d) : c \in Casi, d \in IdAtto}

-----------------------------------------------------------------------------
(* Values.                                                                 *)

AttoONil == IdAtto \cup {Nil}

\* The public card of an exhibit.
RepertoPublic ==
    [stato : Stati, custode : Distretti \cup Agenti \cup Laboratori,
     caso : Casi, lab : Laboratori \cup {Nil},
     verbale : AttoONil, decreto : AttoONil, relazione : AttoONil,
     riconsegna : AttoONil]

RepertoPrivate == [caso : Casi, distretto : Distretti]

FilePublic == [cid : File]

\* DocumentoPrivate and EvidenzaPrivate: the latter has no tipo and no ente.
FilePrivate ==
    [caso : Casi, reperto : Reperti \cup {Nil}, tipo : TipiDocumento \cup {Nil},
     autore : Msp, ente : Laboratori \cup Distretti \cup {Nil}, chiave : File]

Marcatore == [caso : Casi]

\* The values key k may hold.
ValoriDi(k) ==
    CASE k[1] = "PUB" -> RepertoPublic
      [] k[1] \in {"DOC", "EVI"} -> FilePublic
      [] k[1] \in {"DOCREP", "EVIREP"} -> Marcatore
      [] k[1] = "PG_PM" -> IF k[3] = Nil THEN RepertoPrivate ELSE FilePrivate
      [] k[1] = "PM_LAB" ->
            IF k[2] = PrefissoPmLab THEN RepertoPrivate ELSE FilePrivate

\* Nothing the contract requires as an argument is empty, and the absent
\* value is none of the values.
ASSUME NilAssumption ==
    /\ Nil \notin Reperti \cup Casi \cup IdDocumenti \cup IdEvidenze \cup TxIds
    /\ Nil \notin Distretti \cup Agenti \cup Laboratori \cup File
    /\ Nil \notin Stati \cup TipiDocumento \cup Msp
    /\ Nil \notin RepertoPublic \cup RepertoPrivate
    /\ Nil \notin FilePublic \cup FilePrivate \cup Marcatore

-----------------------------------------------------------------------------
(* The key-value map.                                                      *)

RegistroVuoto == [k \in Chiavi |-> Nil]

\* One write, and the map f after the writes g (the later write wins).
Scrivi(k, v) == [x \in {k} |-> v]

f ++ g == [x \in DOMAIN f \cup DOMAIN g |->
              IF x \in DOMAIN g THEN g[x] ELSE f[x]]

Niente == [x \in {} |-> Nil]
=============================================================================
