------------------------------- MODULE Clienti -------------------------------
(***************************************************************************)
(* The clients cmd/upload and cmd/workflow over Fabric: what the operator  *)
(* who runs them is told of a transaction.                                 *)
(*                                                                         *)
(* A Pratica is one thing an operator wants done once: a registration or a *)
(* step of the life cycle.  To get it done the operator runs a client; the *)
(* client has the transaction endorsed and submits it, then waits for its  *)
(* commit status, but no longer than -submit-timeout (and no longer than   *)
(* the timeouts of the gateway): the transaction may be committed after    *)
(* the client has given up.  An operator who got no good answer may run    *)
(* the client again.  Each run of cmd/upload encrypts with a new key, so   *)
(* each attempt has a file of its own, which the operator gets to know     *)
(* only if the attempt is confirmed.  The CID and key that a workflow step *)
(* attaches are arguments of the command: of a file uploaded beforehand    *)
(* (-skip-chaincode) or of one on the ledger.  A repeated step, and other  *)
(* steps, may pass the same file; the attempt is known by its transaction. *)
(*                                                                         *)
(* A call the contract refuses fails at endorsement, leaves nothing in     *)
(* flight and is a stuttering step.                                        *)
(***************************************************************************)
EXTENDS Fabric

CONSTANTS
    Pratiche,       \* what operators want done
    Lavori,         \* what a Pratica may be about
    FileCaricati    \* the files uploaded beforehand, for workflow steps to attach

VARIABLES
    pratica,   \* pratica[p]: its Lavoro and the last answer, or Nil
    attesa,    \* attesa[k]: the client behind slot k, or Nil
    ultima     \* ultima[r]: the Pratica that last changed the card of r, or Nil

varsClienti == <<vars, pratica, attesa, ultima>>

-----------------------------------------------------------------------------
(* Jobs, and the organisation a client signs with when none is given.      *)

scegliOrgFirmatariaDocumento(tipo) ==
    IF tipo \in TipiPg THEN "PGMSP"
    ELSE IF tipo = "DECRETO_ACCERTAMENTO" THEN "PMMSP" ELSE "LABMSP"

OrgDelModo(fn) ==
    IF fn = "RichiediAnalisi" THEN "PMMSP"
    ELSE IF fn \in {"RiceviInLaboratorio", "CompletaAnalisi", "PreparaRiconsegna"}
    THEN "LABMSP" ELSE "PGMSP"

LavoriReperto ==
    [fn : {"CreaReperto"}, r : Reperti, priv : RepertoPrivate]

LavoriDocumento ==
    [fn : {"RegistraDocumento"}, d : IdDocumenti, c : Casi,
     tipo : TipiDocumento, r : Reperti \cup {Nil}]

LavoriEvidenza ==
    [fn : {"RegistraEvidenza"}, e : IdEvidenze, c : Casi, r : Reperti \cup {Nil}]

LavoriCiclo ==
    [fn : {"RichiediAnalisi", "RiceviInLaboratorio"}, r : Reperti,
     lab : Laboratori]
    \cup [fn : {"AvviaTrasporto"}, r : Reperti, agente : Agenti]
    \cup [fn : {"CompletaAnalisi", "PreparaRiconsegna", "DepositaInSede"},
          r : Reperti]

\* Where a client stands with its transaction, and what it tells the operator.
Fasi == {"attende", "valida", "invalida", "abbandonata"}
Esiti == {"nessuno", "ok", "non_valida", "ignota"}

\* The absent value is neither a job nor what pratica and attesa hold of one.
ASSUME LavoriAssumption ==
    /\ Lavori \subseteq LavoriReperto \cup LavoriDocumento \cup LavoriEvidenza
                            \cup LavoriCiclo
    /\ FileCaricati \subseteq File
    /\ Nil \notin Pratiche \cup Lavori
    /\ Nil \notin [pratica : Pratiche, file : File \cup {Nil}, fase : Fasi]
    /\ Nil \notin [lavoro : Lavori, esito : Esiti, file : File \cup {Nil},
                   tx : TxIds \cup {Nil}]

-----------------------------------------------------------------------------
(* Endorsement of job l in slot k, by the contract function of its mode;   *)
(* f is the file whose CID and key the client was given or has made.       *)

submitCreaReperto(k, msp, l) == CreaReperto(k, msp, l.r, l.priv)

submitRegistraDocumento(k, msp, l, f) ==
    RegistraDocumento(k, msp, l.d, l.c, l.tipo, l.r, f)

submitRegistraEvidenza(k, msp, l, f) == RegistraEvidenza(k, msp, l.e, l.c, l.r, f)

runReperto(k, l) == l.fn = "CreaReperto" /\ submitCreaReperto(k, "PGMSP", l)

runDocumento(k, l, f) ==
    /\ l.fn = "RegistraDocumento"
    /\ submitRegistraDocumento(k, scegliOrgFirmatariaDocumento(l.tipo), l, f)

runEvidenza(k, l, f) ==
    l.fn = "RegistraEvidenza" /\ submitRegistraEvidenza(k, "PGMSP", l, f)

EseguiUpload(k, l, f) == runReperto(k, l) \/ runDocumento(k, l, f) \/ runEvidenza(k, l, f)

EseguiWorkflow(k, tx, l, f) ==
    LET msp == OrgDelModo(l.fn)
    IN  \/ l.fn = "RichiediAnalisi" /\ RichiediAnalisi(k, tx, msp, l.r, l.lab, f)
        \/ l.fn = "AvviaTrasporto" /\ AvviaTrasporto(k, msp, l.r, l.agente)
        \/ l.fn = "RiceviInLaboratorio" /\ RiceviInLaboratorio(k, msp, l.r, l.lab)
        \/ l.fn = "CompletaAnalisi" /\ CompletaAnalisi(k, tx, msp, l.r, f)
        \/ l.fn = "PreparaRiconsegna" /\ PreparaRiconsegna(k, msp, l.r)
        \/ l.fn = "DepositaInSede" /\ DepositaInSede(k, tx, msp, l.r, f)

-----------------------------------------------------------------------------
(* The life of a call.                                                     *)

InitClienti ==
    /\ Init
    /\ pratica = [p \in Pratiche |-> Nil]
    /\ attesa = [k \in Canali |-> Nil]
    /\ ultima = [r \in Reperti |-> Nil]

\* The files on the ledger; with those in flight or in the hands of an operator.
FileDepositati ==
    {stato[k].cid : k \in {k \in Chiavi : k[1] \in {"DOC", "EVI"} /\ stato[k] # Nil}}

FileNoti ==
    {Nil} \cup FileDepositati
    \cup {attesa[k].file : k \in {k \in Canali : attesa[k] # Nil}}
    \cup {pratica[p].file : p \in {p \in Pratiche : pratica[p] # Nil}}

\* The transaction ids operators have been told.
TxNoti == {pratica[p].tx : p \in {p \in Pratiche : pratica[p] # Nil}}

\* The slots with a transaction of p, or with a client that runs for p.
CanaliDi(p) == {k \in Canali : attesa[k] # Nil /\ attesa[k].pratica = p}

InCorso(p) == \E k \in CanaliDi(p) : attesa[k].fase # "abbandonata"

\* The jobs that upload a file, and those whose transaction attaches one.
ConUpload == {"RegistraDocumento", "RegistraEvidenza"}
ConAllegato == {"RichiediAnalisi", "CompletaAnalisi", "DepositaInSede"}

\* A file with a new key; the bound is the number of files.
FileNuovo ==
    LET liberi == File \ (FileNoti \cup FileCaricati)
    IN  IF liberi = {} THEN {} ELSE {CHOOSE f \in liberi : TRUE}

\* The files whose CID and key an operator may have at hand.
FilePassati == FileCaricati \cup FileDepositati

\* The files and transaction ids a run for job l may have.
FileDi(l) ==
    IF l.fn \in ConUpload THEN FileNuovo
    ELSE IF l.fn \in ConAllegato THEN FilePassati ELSE {Nil}

TxDi(l) == IF l.fn \in ConAllegato THEN TxIds \ TxNoti ELSE {Nil}

\* The operator runs the client for p: for the first time, or again because
\* the last answer was not good.  SubmitAsync endorses and submits.
Avvia(k, p, l) ==
    /\ attesa[k] = Nil
    /\ IF pratica[p] = Nil THEN TRUE
       ELSE pratica[p].lavoro = l /\ pratica[p].esito # "ok" /\ ~InCorso(p)
    /\ \E tx \in TxDi(l), f \in FileDi(l) :
        /\ EseguiUpload(k, l, f) \/ EseguiWorkflow(k, tx, l, f)
        /\ attesa' = [attesa EXCEPT
                        ![k] = [pratica |-> p, file |-> f, fase |-> "attende"]]
        /\ pratica' = [pratica EXCEPT
                        ![p] = [lavoro |-> l, esito |-> "nessuno", file |-> f,
                                tx |-> tx]]
    /\ UNCHANGED ultima

\* The status of k is known to the peer: to the client, if it still waits.
StatoNoto(k, fase) ==
    attesa' = [attesa EXCEPT
                ![k] = IF @.fase = "attende" THEN [@ EXCEPT !.fase = fase] ELSE Nil]

Valida(k) ==
    /\ Conferma(k)
    /\ StatoNoto(k, "valida")
    /\ ultima' = [r \in Reperti |->
                    IF stato'[ChiaveReperto(r)] # stato[ChiaveReperto(r)]
                    THEN attesa[k].pratica ELSE ultima[r]]
    /\ UNCHANGED pratica

Invalida(k) ==
    /\ volo[k] # Nil
    /\ ~volo[k].fresca
    /\ Scarta(k)
    /\ StatoNoto(k, "invalida")
    /\ UNCHANGED <<pratica, ultima>>

\* The client of p ends with an answer.
Risposta(p, esito) == pratica' = [pratica EXCEPT ![p].esito = esito]

\* status.Successful is not looked at.
EsitoDi_SenzaControllo(fase) == "ok"

EsitoDi(fase) == IF fase = "valida" THEN "ok" ELSE "non_valida"

\* StatusWithContext returns in time.
Risponde(k) ==
    /\ attesa[k] # Nil
    /\ attesa[k].fase \in {"valida", "invalida"}
    /\ Risposta(attesa[k].pratica, EsitoDi(attesa[k].fase))
    /\ attesa' = [attesa EXCEPT ![k] = Nil]
    /\ UNCHANGED <<vars, ultima>>

\* What a client that has run out of time has to say: an error that is no
\* status of the transaction.
EsitoScaduto_ComeInvalida == "non_valida"

EsitoScaduto == "ignota"

\* The client runs out of time, whatever has become of its transaction.
Scade(k) ==
    /\ attesa[k] # Nil
    /\ attesa[k].fase # "abbandonata"
    /\ Risposta(attesa[k].pratica, EsitoScaduto)
    /\ attesa' = [attesa EXCEPT
                    ![k] = IF volo[k] = Nil THEN Nil
                           ELSE [@ EXCEPT !.fase = "abbandonata"]]
    /\ UNCHANGED <<vars, ultima>>

\* A transaction nobody waits for any more is never ordered.
Perde(k) ==
    /\ attesa[k] # Nil
    /\ attesa[k].fase = "abbandonata"
    /\ Scarta(k)
    /\ attesa' = [attesa EXCEPT ![k] = Nil]
    /\ UNCHANGED <<pratica, ultima>>

\* The operator has done with p, or gives it up.
Archivia(p) ==
    /\ pratica[p] # Nil
    /\ CanaliDi(p) = {}
    /\ pratica' = [pratica EXCEPT ![p] = Nil]
    /\ ultima' = [r \in Reperti |-> IF ultima[r] = p THEN Nil ELSE ultima[r]]
    /\ UNCHANGED <<vars, attesa>>

NextClienti ==
    \/ \E k \in Canali :
        \/ \E p \in Pratiche, l \in Lavori : Avvia(k, p, l)
        \/ Valida(k) \/ Invalida(k) \/ Risponde(k) \/ Scade(k) \/ Perde(k)
    \/ \E p \in Pratiche : Archivia(p)

SpecClienti == InitClienti /\ [][NextClienti]_varsClienti

-----------------------------------------------------------------------------
(* Properties.                                                             *)

\* File f is what the ledger has under key k, and its private part in pdc
\* has its key.
Depositato(k, pdc, f) ==
    /\ stato[k] = [cid |-> f]
    /\ stato[ChiaveFile(pdc, k[2], k[3])] # Nil
    /\ stato[ChiaveFile(pdc, k[2], k[3])].chiave = f

\* What a Pratica leaves on the ledger when it succeeds with file f: exhibit
\* data, a file, a document attached by a transaction to its exhibit.
Effetto(l, tx, f) ==
    /\ l.fn = "CreaReperto" => stato[ChiavePrivatoReperto(l.r)] = l.priv
    /\ l.fn = "RegistraDocumento" =>
            Depositato(ChiaveDocumento(l.c, l.d),
                       pdcCollectionForTipoDocumento(l.tipo), f)
    /\ l.fn = "RegistraEvidenza" =>
            Depositato(ChiaveEvidenza(l.c, l.e), "PG_PM", f)
    /\ tx # Nil =>
            \E c \in Casi, tipo \in TipiDocumento :
                /\ stato[ChiaveDocRep(l.r, tx)] = [caso |-> c]
                /\ Depositato(ChiaveDocumento(c, tx),
                              pdcCollectionForTipoDocumento(tipo), f)

\* An operator who is told that the transaction is confirmed finds on the
\* ledger, then and ever after, what that very attempt was to leave there:
\* its file with its key, under the id of its transaction or job, whatever
\* others or an earlier attempt of the same operator registered
\* (submitAndWait, submitRegistraDocumento).
EsitoVeritiero ==
    \A p \in Pratiche :
        pratica[p] # Nil /\ pratica[p].esito = "ok" =>
            Effetto(pratica[p].lavoro, pratica[p].tx, pratica[p].file)

\* File f is on the ledger under no key and in no client's call: it never will
\* be there.
FilePerduto(f) ==
    /\ \A k \in Chiavi : stato[k] # [cid |-> f]
    /\ \A k \in Canali : attesa[k] # Nil => attesa[k].file # f

\* Transaction tx has attached nothing, and is not in flight.
TxPerduta(tx) ==
    /\ \A c \in Casi : stato[ChiaveDocumento(c, tx)] = Nil
    /\ \A k \in Canali : volo[k] # Nil => volo[k].tx # tx

\* "commit non valido" is final for the attempt it answers, whatever became of
\* those given up before it: of cmd/upload the file and its key are nowhere and
\* never will be; of cmd/workflow the transaction is not, while the file may be
\* on the ledger, attached by an earlier attempt of the same step (submitAndWait).
RifiutoDefinitivo ==
    \A p \in Pratiche :
        pratica[p] # Nil /\ pratica[p].esito = "non_valida" =>
            /\ pratica[p].lavoro.fn \in ConUpload => FilePerduto(pratica[p].file)
            /\ pratica[p].tx # Nil => TxPerduta(pratica[p].tx)

\* A life-cycle step that is repeated because its answer was lost never
\* changes the exhibit's card twice in a row: a second effect of one Pratica
\* is possible only if another one has changed the card in between.
RitentativoInnocuo ==
    [][\A r \in Reperti :
        stato'[ChiaveReperto(r)] # stato[ChiaveReperto(r)] =>
            ultima'[r] # Nil /\ ultima'[r] # ultima[r]]_varsClienti
=============================================================================
