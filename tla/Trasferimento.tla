---------------------------- MODULE Trasferimento ----------------------------
(***************************************************************************)
(* A file goes to IPFS and comes back: one upload, then one download of    *)
(* what it left there, into a file on disk.  cmd/download opens that file  *)
(* (by default <out-dir>/<id>.bin) and empties it before it asks IPFS for  *)
(* anything.  An earlier download may have left a longer file at the same  *)
(* path, and another download of the same document may use it at the same  *)
(* time: its blocks are the same, its position in the file its own.        *)
(***************************************************************************)
EXTENDS Scarico, Sequences

VARIABLES
    cifra, cifrati, esterna, risultato, modulo, interna, invio, ricevuti,
    chiusura, cid, esitoCarico,   \* the upload, see Caricamento
    aperto,        \* the download has opened its output file
    percorso,      \* the blocks at the path: their numbers, or what is no block
    altra,         \* the other download: mai, scrive, ok, errore
    altraScritti   \* blocks it has written

Carico == INSTANCE Caricamento WITH esito <- esitoCarico

varsCarico == <<cifra, cifrati, esterna, risultato, modulo, interna, invio,
                ricevuti, chiusura, cid, esitoCarico>>
varsAltra == <<altra, altraScritti>>
varsTutte == <<vars, varsCarico, aperto, percorso, varsAltra>>

\* What is at a place no block of this file has been written to.
Buco == 0
Residuo == -1

Intero == [i \in 1..NBlocchi |-> i]

\* A write of block i at its place: past the end it leaves a hole.
Scritto(f, i) ==
    [j \in 1..(IF i > Len(f) THEN i ELSE Len(f)) |->
        IF j = i THEN i ELSE IF j <= Len(f) THEN f[j] ELSE Buco]

InitTutto ==
    /\ Init /\ Carico!Init
    /\ aperto = FALSE
    /\ percorso \in {<<>>, [i \in 1..(NBlocchi + 1) |-> Residuo]}
    /\ altra = "mai" /\ altraScritti = 0

-----------------------------------------------------------------------------
\* The file is opened without O_TRUNC.
ApriFile_SenzaTronca ==
    /\ esitoCarico = "ok"
    /\ ~aperto
    /\ aperto' = TRUE
    /\ UNCHANGED <<vars, varsCarico, percorso, varsAltra>>

\* os.OpenFile with O_CREATE and O_TRUNC, once CID and key are known.
ApriFile ==
    /\ esitoCarico = "ok"
    /\ ~aperto
    /\ aperto' = TRUE
    /\ percorso' = <<>>
    /\ UNCHANGED <<vars, varsCarico, varsAltra>>

\* A step of streamDownloadDecrypt; a decrypted block goes to the file.
PassoScarico(passo) ==
    /\ aperto
    /\ passo
    /\ percorso' = IF scritti' > scritti THEN Scritto(percorso, scritti')
                   ELSE percorso
    /\ UNCHANGED <<varsCarico, aperto, varsAltra>>

PassoCarico ==
    /\ Carico!Next
    /\ UNCHANGED <<vars, aperto, percorso, varsAltra>>

\* The other download of the document, with its own descriptor.
AltraApre ==
    /\ esitoCarico = "ok"
    /\ altra = "mai"
    /\ altra' = "scrive"
    /\ percorso' = <<>>
    /\ UNCHANGED <<vars, varsCarico, aperto, altraScritti>>

AltraScrive ==
    /\ altra = "scrive" /\ altraScritti < NBlocchi
    /\ altraScritti' = altraScritti + 1
    /\ percorso' = Scritto(percorso, altraScritti')
    /\ UNCHANGED <<vars, varsCarico, aperto, altra>>

AltraFinisce ==
    /\ altra = "scrive"
    /\ \/ altra' = "errore"
       \/ altraScritti = NBlocchi /\ altra' = "ok"
    /\ UNCHANGED <<vars, varsCarico, aperto, percorso, altraScritti>>

NextTutto ==
    \/ PassoCarico
    \/ ApriFile
    \/ PassoScarico(Copia) \/ PassoScarico(Chiamante)
    \/ AltraApre \/ AltraScrive \/ AltraFinisce

\* Fairness of the two calls as in Caricamento and Scarico; the download of
\* this document is asked for.
SpecTutto ==
    /\ InitTutto /\ [][NextTutto]_varsTutte
    /\ WF_varsTutte(Carico!GoCifra /\ PassoCarico)
    /\ WF_varsTutte(Carico!GoModulo /\ PassoCarico)
    /\ WF_varsTutte(Carico!Richiesta /\ PassoCarico)
    /\ WF_varsTutte(Carico!Chiamante /\ PassoCarico)
    /\ WF_varsTutte(ApriFile)
    /\ WF_varsTutte(PassoScarico(Copia))
    /\ WF_varsTutte(PassoScarico(Chiamante))

-----------------------------------------------------------------------------
(* Properties.                                                             *)

\* Whatever fails, IPFS never gives a CID to a part of the file: the form is
\* closed only after a complete encryption (AddReader).
CidSoloSeIntero == Carico!CidSoloSeIntero

\* A good upload has a CID and the key the whole file was encrypted with
\* (uploadEncryptedToIPFS).
CaricamentoBuono == Carico!CaricamentoBuono

\* Both ends of the transfer are typed: no process of either is ahead of the
\* one it gets its units from (Caricamento, Scarico), and what is at the path
\* is at most the longer of the two files.
TrasferimentoTipato ==
    /\ Carico!TypeOK
    /\ Len(percorso) \in 0..(NBlocchi + 1)
    /\ \A i \in DOMAIN percorso : percorso[i] \in {Buco, Residuo, i}
    /\ altraScritti \in 0..NBlocchi

\* What a good download of a complete body leaves at the path it returns is
\* the file and nothing else: no rest of a longer one that was there, and no
\* hole, also if another download of the document that emptied the file
\* meanwhile has ended well too (cmd/download run).
RipristinoIntero ==
    /\ fase = "finito" /\ esito = "ok" /\ scrittura = "EOF"
    /\ altra \in {"mai", "ok"}
    => percorso = Intero

\* The upload returns, and if it was good so does the download of its file:
\* no process of either call waits for ever for another.
TerminanoEntrambe ==
    /\ <>(esitoCarico # "in_corso")
    /\ (esitoCarico = "ok") ~> (fase = "finito")
=============================================================================
