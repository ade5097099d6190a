------------------------------ MODULE Scarico -------------------------------
(***************************************************************************)
(* One download: streamDownloadDecrypt of cmd/download.  A goroutine       *)
(* copies the body of the IPFS response into a synchronous pipe, the       *)
(* caller decrypts from the other end and writes the plaintext; then it    *)
(* closes its end and waits for the goroutine.                             *)
(*                                                                         *)
(* The stream is a sequence of fields: magic, size, and for each block its *)
(* length, nonce and ciphertext.  A field is two units, so that a read or  *)
(* a cut may fall between two fields or inside one.  The body is that of   *)
(* a file this system uploaded; the key may be another file's.             *)
(***************************************************************************)
EXTENDS Flusso

VARIABLES
    fase,      \* the caller: apre, decifra, chiude, attende, finito
    copia,     \* the goroutine: ferma, legge (the body), scrive (the pipe), finita
    copiati,   \* units taken from the body
    scrittura, \* the pipe's write end: aperta, or the error it was closed with
    lettura,   \* the pipe's read end: aperta, chiusa
    campo,     \* the field the decryption is reading
    meta,      \* units of it already read (all, if its block was refused)
    scritti,   \* blocks written to the output
    chiave,    \* the key is that of the file
    esito      \* of the decryption, then of the call: nessuno, ok, errore

vars == <<fase, copia, copiati, scrittura, lettura, campo, meta, scritti,
          chiave, esito>>

\* The fields before each one, not counting whole blocks.
Posto == [magic |-> 0, size |-> 1, len |-> 2, nonce |-> 3, cipher |-> 4]

Campi == {"magic", "size", "len", "nonce", "cipher"}

\* Units in a field, and in the whole stream.
Unita == 2
Lunghezza == Unita * (2 + 3 * NBlocchi)

\* Units of the pipe the decryption has consumed.
Letti == Unita * (Posto[campo] + 3 * scritti) + meta

Init ==
    /\ fase = "apre" /\ copia = "ferma" /\ esito = "nessuno"
    /\ copiati = 0 /\ scritti = 0 /\ campo = "magic" /\ meta = 0
    /\ scrittura = "aperta" /\ lettura = "aperta"
    /\ chiave \in BOOLEAN

-----------------------------------------------------------------------------
(* The goroutine: io.Copy(pw, body), then pw.CloseWithError(copyErr).      *)

\* The body yields some bytes; io.Copy writes them to the pipe and blocks.
LeggiCorpo ==
    /\ copia = "legge"
    /\ \E n \in (copiati + 1)..Lunghezza : copiati' = n
    /\ copia' = "scrive"
    /\ UNCHANGED <<fase, scrittura, lettura, campo, meta, scritti, chiave, esito>>

\* The body ends: EOF after its last byte, UnexpectedEOF if the connection is
\* cut before, Timeout when the time of the HTTP client is over.
FineCorpo(e) ==
    /\ copia = "legge"
    /\ e = "EOF" => copiati = Lunghezza
    /\ e = "UnexpectedEOF" => copiati < Lunghezza
    /\ scrittura' = e
    /\ copia' = "finita"
    /\ UNCHANGED <<fase, copiati, lettura, campo, meta, scritti, chiave, esito>>

\* The pipe has taken all that was written.
ScritturaPresa ==
    /\ copia = "scrive"
    /\ copiati = Letti
    /\ copia' = "legge"
    /\ UNCHANGED <<fase, copiati, scrittura, lettura, campo, meta, scritti,
                   chiave, esito>>

\* The read end was closed under a pending write: io.ErrClosedPipe.
ScritturaRotta ==
    /\ copia = "scrive"
    /\ lettura = "chiusa"
    /\ copiati # Letti
    /\ scrittura' = "ClosedPipe"
    /\ copia' = "finita"
    /\ UNCHANGED <<fase, copiati, lettura, campo, meta, scritti, chiave, esito>>

Copia ==
    \/ LeggiCorpo
    \/ \E e \in {"EOF", "UnexpectedEOF", "Timeout"} : FineCorpo(e)
    \/ ScritturaPresa
    \/ ScritturaRotta

-----------------------------------------------------------------------------
(* The caller.                                                             *)

\* OpenCat: the response, or an error and there is nothing to decrypt.
Apri ==
    /\ fase = "apre"
    /\ \/ fase' = "decifra" /\ copia' = "legge" /\ esito' = "nessuno"
       \/ fase' = "finito" /\ copia' = "ferma" /\ esito' = "errore"
    /\ UNCHANGED <<copiati, scrittura, lettura, campo, meta, scritti, chiave>>

\* DecryptAES256GCMFromReader returns.
Decifrato(e) == fase' = "chiude" /\ esito' = e

\* A read takes one unit when the field needs more than the pipe has.
LeggiMeta ==
    /\ fase = "decifra"
    /\ meta = 0 /\ copiati = Letti + 1
    /\ meta' = 1
    /\ UNCHANGED <<fase, copia, copiati, scrittura, lettura, campo, scritti,
                   chiave, esito>>

\* readFull gets the rest of the field.
CampoLetto ==
    /\ fase = "decifra"
    /\ copiati >= Letti + Unita - meta
    /\ UNCHANGED <<copia, copiati, scrittura, lettura, chiave>>

\* The size of the blocks is taken for the length of the first.
Prossimo_SenzaSize ==
    [magic |-> "len", size |-> "len", len |-> "nonce", nonce |-> "cipher"]

Prossimo ==
    [magic |-> "size", size |-> "len", len |-> "nonce", nonce |-> "cipher"]

LeggiCampo ==
    /\ campo # "cipher"
    /\ CampoLetto
    /\ campo' = Prossimo[campo] /\ meta' = 0
    /\ UNCHANGED <<fase, scritti, esito>>

\* gcm.Open succeeds and the block is written.
ScriviBlocco ==
    /\ campo = "cipher" /\ chiave
    /\ CampoLetto
    /\ scritti' = scritti + 1
    /\ campo' = "len" /\ meta' = 0
    /\ UNCHANGED <<fase, esito>>

\* gcm.Open fails, as it does with another key, or the output refuses the
\* block (disk full).
BloccoRifiutato ==
    /\ campo = "cipher"
    /\ CampoLetto
    /\ Decifrato("errore")
    /\ meta' = Unita
    /\ UNCHANGED <<campo, scritti>>

\* The error of io.ReadFull on an exhausted pipe whose write end is closed.
ErroreLettura ==
    IF meta > 0 /\ scrittura = "EOF" THEN "UnexpectedEOF" ELSE scrittura

\* Every error of the read of a length ends the stream.
FineFlusso_OgniErrore ==
    /\ fase = "decifra"
    /\ copiati = Letti /\ scrittura # "aperta"
    /\ Decifrato(IF campo = "len" THEN "ok" ELSE "errore")
    /\ UNCHANGED <<copia, copiati, scrittura, lettura, campo, meta, scritti, chiave>>

\* An end of file is the end of the stream where a length is expected, an
\* error anywhere else.
FineFlusso ==
    /\ fase = "decifra"
    /\ copiati = Letti /\ scrittura # "aperta"
    /\ Decifrato(IF campo = "len" /\ ErroreLettura \in {"EOF", "UnexpectedEOF"}
                 THEN "ok" ELSE "errore")
    /\ UNCHANGED <<copia, copiati, scrittura, lettura, campo, meta, scritti, chiave>>

\* The read end is left open.
ChiudiLettura_Dimenticata ==
    /\ fase = "chiude"
    /\ fase' = "attende"
    /\ UNCHANGED <<copia, copiati, scrittura, lettura, campo, meta, scritti,
                   chiave, esito>>

\* pr.Close()
ChiudiLettura ==
    /\ fase = "chiude"
    /\ fase' = "attende"
    /\ lettura' = "chiusa"
    /\ UNCHANGED <<copia, copiati, scrittura, campo, meta, scritti, chiave, esito>>

\* The result of the copy is not waited for.
Concludi_SenzaAttesa ==
    /\ fase = "attende"
    /\ fase' = "finito"
    /\ UNCHANGED <<copia, copiati, scrittura, lettura, campo, meta, scritti,
                   chiave, esito>>

\* <-ipfsDone.  What arrives is the result of pw.CloseWithError, always nil:
\* the result of the call is that of the decryption.
Concludi ==
    /\ fase = "attende"
    /\ copia = "finita"
    /\ fase' = "finito"
    /\ UNCHANGED <<copia, copiati, scrittura, lettura, campo, meta, scritti,
                   chiave, esito>>

Chiamante ==
    Apri \/ LeggiMeta \/ LeggiCampo \/ ScriviBlocco \/ BloccoRifiutato
    \/ FineFlusso \/ ChiudiLettura \/ Concludi

Next == Copia \/ Chiamante

\* The Go scheduler runs both goroutines; a read of the body returns because
\* the HTTP client has a timeout (-ipfs-timeout, 45 s unless changed).
Spec == Init /\ [][Next]_vars /\ WF_vars(Copia) /\ WF_vars(Chiamante)

-----------------------------------------------------------------------------
(* Properties.                                                             *)

\* Types; and the decryption never gets ahead of the copy, nor the copy of
\* the file (the fields of the EV2 format are read in the order of their
\* writing).
TypeOK ==
    /\ fase \in {"apre", "decifra", "chiude", "attende", "finito"}
    /\ copia \in {"ferma", "legge", "scrive", "finita"}
    /\ copiati \in 0..Lunghezza /\ Letti <= copiati
    /\ scrittura \in {"aperta", "EOF", "UnexpectedEOF", "Timeout", "ClosedPipe"}
    /\ lettura \in {"aperta", "chiusa"}
    /\ campo \in Campi /\ meta \in 0..Unita
    /\ scritti \in 0..NBlocchi
    /\ chiave \in BOOLEAN
    /\ esito \in {"nessuno", "ok", "errore"}

\* A download reported as good, of a body that ended by itself, is the whole
\* file; a good one never ends by a timeout, and the size it reports is what
\* the decryption has consumed (streamDownloadDecrypt, stream.go).
ScaricoBuono ==
    fase = "finito" /\ esito = "ok" =>
        /\ copia = "finita"
        /\ copiati = Letti
        /\ scrittura \in {"EOF", "UnexpectedEOF"}
        /\ scrittura = "EOF" => scritti = NBlocchi

-----------------------------------------------------------------------------
(* What stream.go means to do and does not.                                *)

\* An error of the copy from IPFS is an error of the download.
ErroreDiCopiaRiportato ==
    fase = "finito" /\ esito = "ok" => scrittura = "EOF"
=============================================================================
