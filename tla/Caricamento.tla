----------------------------- MODULE Caricamento ----------------------------
(***************************************************************************)
(* One upload: uploadEncryptedToIPFS of cmd/upload.  Three processes in a  *)
(* row, joined by two synchronous pipes: a goroutine encrypts the file     *)
(* into the outer pipe, a second one (AddReader) copies it as a multipart  *)
(* form into the inner pipe, the HTTP transport sends that to IPFS.  The   *)
(* caller waits for the answer, then for the result of the encryption.     *)
(*                                                                         *)
(* What flows is counted in units: the head of the EV2 format, then one    *)
(* per block.  A process whose write nobody has taken yet is blocked.      *)
(***************************************************************************)
EXTENDS Flusso

VARIABLES
    cifra,      \* encryption: prepara (the next unit), scrive (it), finita
    cifrati,    \* units taken from the encryption
    esterna,    \* write end of the outer pipe: aperta, EOF, errore
    risultato,  \* encResCh and encErrCh: vuoto, cifratura, errore
    modulo,     \* multipart goroutine: apre, legge, scrive, chiude, finito
    interna,    \* write end of the inner pipe: aperta, EOF, errore
    invio,      \* the request: connette, invia, fallito, risposto
    ricevuti,   \* units IPFS has received
    chiusura,   \* IPFS has received the closing boundary of the form
    cid,        \* what the CID IPFS answered stands for: its units, or Nessuno
    esito       \* of the call: in_corso, ok, errore

vars == <<cifra, cifrati, esterna, risultato, modulo, interna, invio, ricevuti,
          chiusura, cid, esito>>

Cifratura == <<cifra, cifrati, esterna, risultato>>
Modulo == <<modulo, interna>>
Ipfs == <<invio, ricevuti, chiusura, cid>>

Lunghezza == 1 + NBlocchi
Nessuno == -1

Init ==
    /\ cifra = "prepara" /\ cifrati = 0 /\ esterna = "aperta"
    /\ risultato = "vuoto"
    /\ modulo = "apre" /\ interna = "aperta"
    /\ invio = "connette" /\ ricevuti = 0 /\ chiusura = FALSE
    /\ cid = Nessuno /\ esito = "in_corso"

-----------------------------------------------------------------------------
(* EncryptFileToWriter and the goroutine around it.                        *)

\* The next unit is ready and its write begins.
CifraUnita ==
    /\ cifra = "prepara"
    /\ cifrati < Lunghezza
    /\ cifra' = "scrive"
    /\ UNCHANGED <<cifrati, esterna, risultato, Modulo, Ipfs, esito>>

\* A read error is taken for the end of the file.
CifraturaFallita_ComeFine ==
    /\ cifra = "prepara"
    /\ cifra' = "finita" /\ esterna' = "EOF" /\ risultato' = "cifratura"
    /\ UNCHANGED <<cifrati, Modulo, Ipfs, esito>>

\* The file cannot be opened or read, or there is no randomness:
\* CloseWithError, then the error.
CifraturaFallita ==
    /\ cifra = "prepara"
    /\ cifra' = "finita" /\ esterna' = "errore" /\ risultato' = "errore"
    /\ UNCHANGED <<cifrati, Modulo, Ipfs, esito>>

\* The result of the encryption is not sent.
CifraturaFinita_Muta ==
    /\ cifra = "prepara"
    /\ cifrati = Lunghezza
    /\ cifra' = "finita" /\ esterna' = "EOF"
    /\ UNCHANGED <<cifrati, risultato, Modulo, Ipfs, esito>>

\* The result with the key, then Close.
CifraturaFinita ==
    /\ cifra = "prepara"
    /\ cifrati = Lunghezza
    /\ cifra' = "finita" /\ esterna' = "EOF" /\ risultato' = "cifratura"
    /\ UNCHANGED <<cifrati, Modulo, Ipfs, esito>>

-----------------------------------------------------------------------------
(* The multipart goroutine of AddReader.                                   *)

\* io.Copy reads: the unit the encryption is writing is taken.
LeggiUnita ==
    /\ modulo = "legge" /\ cifra = "scrive"
    /\ cifrati' = cifrati + 1 /\ cifra' = "prepara"
    /\ modulo' = "scrive"
    /\ UNCHANGED <<esterna, risultato, interna, Ipfs, esito>>

\* The copy ends: w.Close writes the closing boundary.
FineCopia ==
    /\ modulo = "legge" /\ esterna = "EOF"
    /\ modulo' = "chiude"
    /\ UNCHANGED <<Cifratura, interna, Ipfs, esito>>

\* The error is dropped: the deferred w.Close completes the form.
CopiaFallita_Ignorata ==
    /\ modulo = "legge" /\ esterna = "errore"
    /\ modulo' = "chiude"
    /\ UNCHANGED <<Cifratura, interna, Ipfs, esito>>

\* The copy fails: CloseWithError comes before the deferred w.Close, whose
\* boundary no longer gets through, and before the deferred Close.
CopiaFallita ==
    /\ modulo = "legge" /\ esterna = "errore"
    /\ modulo' = "finito" /\ interna' = "errore"
    /\ UNCHANGED <<Cifratura, Ipfs, esito>>

\* A write to the inner pipe fails: the transport has closed the read end.
ScritturaRotta ==
    /\ modulo \in {"apre", "scrive", "chiude"}
    /\ invio = "fallito"
    /\ modulo' = "finito" /\ interna' = "errore"
    /\ UNCHANGED <<Cifratura, Ipfs, esito>>

-----------------------------------------------------------------------------
(* The request: transport, network and the IPFS node.                      *)

Connetti ==
    /\ invio = "connette"
    /\ invio' = "invia"
    /\ UNCHANGED <<Cifratura, Modulo, ricevuti, chiusura, cid, esito>>

\* The head of the form's only part.
RiceviTesta ==
    /\ invio = "invia" /\ modulo = "apre"
    /\ modulo' = "legge"
    /\ UNCHANGED <<Cifratura, interna, Ipfs, esito>>

\* The unit is sent again.
RiceviUnita_Ripetuta ==
    /\ invio = "invia" /\ modulo = "scrive"
    /\ ricevuti' = ricevuti + 1
    /\ UNCHANGED <<Cifratura, Modulo, invio, chiusura, cid, esito>>

\* The transport takes the unit the goroutine is writing.
RiceviUnita ==
    /\ invio = "invia" /\ modulo = "scrive"
    /\ ricevuti' = ricevuti + 1
    /\ modulo' = "legge"
    /\ UNCHANGED <<Cifratura, interna, invio, chiusura, cid, esito>>

\* The closing boundary, after which the goroutine closes the pipe.
RiceviChiusura ==
    /\ invio = "invia" /\ modulo = "chiude"
    /\ chiusura' = TRUE
    /\ modulo' = "finito" /\ interna' = "EOF"
    /\ UNCHANGED <<Cifratura, invio, ricevuti, cid, esito>>

\* IPFS answers with a CID when it has the whole form.
Rispondi ==
    /\ invio = "invia" /\ chiusura
    /\ invio' = "risposto" /\ cid' = ricevuti
    /\ UNCHANGED <<Cifratura, Modulo, ricevuti, chiusura, esito>>

\* No connection, a cut, an error status or answer, the timeout of the
\* client, or the body ends with an error: no CID, and the body is closed.
InvioFallito ==
    /\ invio \in {"connette", "invia"}
    /\ invio' = "fallito"
    /\ UNCHANGED <<Cifratura, Modulo, ricevuti, chiusura, cid, esito>>

-----------------------------------------------------------------------------
(* The caller.                                                             *)

\* AddReader has no CID.
ConcludiSenzaCid ==
    /\ esito = "in_corso" /\ invio = "fallito"
    /\ esito' = "errore"
    /\ UNCHANGED <<Cifratura, Modulo, Ipfs>>

\* AddReader has a CID; the select on the two channels.
Concludi ==
    /\ esito = "in_corso" /\ invio = "risposto"
    /\ risultato # "vuoto"
    /\ esito' = IF risultato = "cifratura" THEN "ok" ELSE "errore"
    /\ UNCHANGED <<Cifratura, Modulo, Ipfs>>

GoCifra == CifraUnita \/ CifraturaFallita \/ CifraturaFinita
GoModulo == LeggiUnita \/ FineCopia \/ CopiaFallita \/ ScritturaRotta
Richiesta == Connetti \/ RiceviTesta \/ RiceviUnita \/ RiceviChiusura
             \/ Rispondi \/ InvioFallito
Chiamante == ConcludiSenzaCid \/ Concludi

\* With the result the process goes on to register the CID or exits.
Next == esito = "in_corso" /\ (GoCifra \/ GoModulo \/ Richiesta \/ Chiamante)

\* The Go scheduler runs every goroutine; the request ends because the HTTP
\* client has a timeout (-ipfs-timeout).
Spec ==
    /\ Init /\ [][Next]_vars
    /\ WF_vars(esito = "in_corso" /\ GoCifra)
    /\ WF_vars(esito = "in_corso" /\ GoModulo)
    /\ WF_vars(esito = "in_corso" /\ Richiesta)
    /\ WF_vars(Chiamante)

-----------------------------------------------------------------------------
(* Properties.                                                             *)

\* Types; and no process is ahead of the one it gets its units from.
TypeOK ==
    /\ cifra \in {"prepara", "scrive", "finita"}
    /\ cifrati \in 0..Lunghezza /\ ricevuti \in 0..cifrati
    /\ esterna \in {"aperta", "EOF", "errore"}
    /\ risultato \in {"vuoto", "cifratura", "errore"}
    /\ modulo \in {"apre", "legge", "scrive", "chiude", "finito"}
    /\ interna \in {"aperta", "EOF", "errore"}
    /\ invio \in {"connette", "invia", "fallito", "risposto"}
    /\ chiusura \in BOOLEAN
    /\ cid \in {Nessuno} \cup 0..Lunghezza
    /\ esito \in {"in_corso", "ok", "errore"}

\* Whatever fails, and wherever, IPFS never gives a CID to a part of the
\* file: the form is closed only after a complete encryption (AddReader).
CidSoloSeIntero == cid # Nessuno => cid = Lunghezza

\* A good upload has a CID and the key the whole file was encrypted with.
CaricamentoBuono ==
    esito = "ok" => cid = Lunghezza /\ risultato = "cifratura"
=============================================================================
