# Chain of custody: TLA+ models and proofs

This directory holds the verification project of the digital-forensics chain of
custody: the Fabric chaincode `reperto`, the transaction flow its clients rely
on, and the encrypted transfers those clients run. Names of
constants, actions and operators are those of the code, in Italian like it.

## 1. The system

| Component | State it keeps | Operations | Talks to |
|---|---|---|---|
| `chaincode/internal/contract` (+ `model`) | world state: card of each exhibit (`idReperto`), public part of documents (`DOC`) and evidence (`EVI`), indexes `DOCREP`, `EVIREP`; private collections `collezione_PG_PM`, `collezione_PM_LAB` | `CreaReperto`, `RegistraDocumentoConTransient`, `RegistraEvidenzaConTransient`, `RichiediAnalisi`, `AvviaTrasporto`, `RiceviInLaboratorio`, `CompletaAnalisi`, `PreparaRiconsegna`, `DepositaInSede`; queries `Leggi*`, `Lista*`, `ReadReperto`, `OttieniStoria*` | Fabric stub only |
| Hyperledger Fabric (external) | committed ledger, transactions in flight | endorsement, ordering, MVCC validation, commit | everything |
| `cmd/upload` | one process per call: AES key, two pipes, two goroutines | encrypt in chunks, add to IPFS, register | IPFS, gateway |
| `cmd/download` | one process per call: pipe, goroutine, output file | query, fetch from IPFS, decrypt | gateway, IPFS |
| `cmd/workflow` | one process per call | `submitAndWait`, `evaluateQuery` | gateway |
| `agente_coc/server.py` | none of its own | one tool per command | the three clients as subprocesses |
| `generazione_reperti`, `scripts`, `infrastruttura_blockchain` | files, containers | generate samples, deploy, wrap commands | - |

What makes each part correct:

- **Chaincode.** The recorded custodian is where the life cycle says the
  exhibit is; every pointer on a card leads to a complete document; the
  laboratory gets the same data PG and PM have; nothing filed is rewritten;
  every file can be opened again; a workflow step is never refused for data a
  former step failed to leave.
- **Under Fabric.** The same, with calls of three organisations in flight at
  the same time, lost, repeated after a timeout, and committed in any order.
- **Clients.** A CID on the ledger is that of a complete file and its key opens
  it; a download reported as good is the whole file; no goroutine waits for ever
  for another.

What is hard: one chaincode state `IN_TRANSITO` for two legs of the journey; ids
chosen by clients shared between namespaces; pointers that outlive a cycle;
concurrent endorsements; retries after an unknown commit; the pipes of the
clients.

## 2. Modules

| Module | Models | Notes |
|---|---|---|
| `Registro` | keys, values, the key-value map (`storage_common.go`, `model/`) | constants and their assumptions |
| `Contratto` | every transaction function as `Ammette…` (its checks), `Lettura…` (its read set), `Scrittura…` (its writes) | pure operators on a ledger; shared by the two state machines |
| `Custodia` | the contract with one call at a time: variable `stato`, one action per function | the invariants of the contract |
| `CustodiaMC` | `CustodiaCiclo` with symmetry sets for TLC | |
| `CicloVita` | abstract specification: custody card of an exhibit, no ledger, documents or organisations | |
| `CustodiaCiclo` | refinement mapping `CartellaDi`, `Ciclo == INSTANCE CicloVita` | `ImplementaCiclo` |
| `Fabric` | execute-order-validate: `stato` committed, `volo[k]` the transaction in flight in slot k | `Serializzabile`: implements `Custodia` |
| `Storia`, `StoriaMC` | the history of each public key, and `OttieniStoria…`; EXTENDS `Fabric`, adds `storia` | what an auditor sees |
| `Clienti`, `ClientiMC` | `cmd/upload` and `cmd/workflow` over `Fabric`: what an operator (a person, or the agent of `agente_coc`) is told of a call, timeouts, repeated commands; adds `pratica`, `attesa`, `ultima` | the jobs of the instance are in `ClientiMC` |
| `Consultazione` | the queries, by organisation of the client and peer it asks; EXTENDS `Custodia`, adds no state | `ReadReperto`, `Leggi…`, `Lista…`, what `cmd/download` opens |
| `ConsultazioneMC` | symmetry set for TLC | |
| `Propagazione`, `PropagazioneMC` | calls and queries executed on peers that still lack private data; EXTENDS `Consultazione`, adds `manca` | gossip and the routing of the clients |
| `Flusso` | the stream both transfers are about: its number of blocks | |
| `Scarico` | one download: `streamDownloadDecrypt`, its goroutine, the pipe, the HTTP body | EXTENDS `Flusso` |
| `Caricamento` | one upload: `uploadEncryptedToIPFS`, encryption and multipart goroutines, two pipes, the request | EXTENDS `Flusso` |
| `Trasferimento` | an upload, then a download of what it left, into a file at a path that held something else and that another download may be writing | composes `Caricamento` and `Scarico` |
| `ContrattoProofs` | lemmas about the operators of `Contratto` on any ledger, and about the calls of `Fabric` | TLAPS; used by all below but the last |
| `CustodiaProofs` | theorems about `Custodia` | TLAPS |
| `FascicoloProofs` | theorems about the dossier of a case: the other properties of `Custodia`, those of `Consultazione` | TLAPS |
| `FabricProofs` | serializability, and what it carries over to concurrent calls | TLAPS |
| `StoriaProofs` | theorems about the histories | TLAPS |
| `RaffinamentoProofs` | the two refinements around `Custodia`: it implements the abstract life cycle, and peers that lack private data implement it | TLAPS |
| `ClientiProofs` | theorems about what operators are told | TLAPS |
| `TrasferimentoProofs` | theorems about the two ends of a transfer and their composition | TLAPS |

How the code maps to the model:

- World state and private collections are one function `stato` from keys to
  values; `Nil` at a key is `GetState = nil`, `Nil` in a field is `""`. A key is
  a triple whose first member is the namespace. `filePrivDataKey` joins case and
  id with `/`; the model keeps the pair (listed as a hazard in `PROJECT.json`).
- A `File` is a CID with the AES key that opens it, so "this key opens this CID"
  is an equality.
- An action's guard is the conjunction of the function's error returns, in its
  order; its effect is `stato ++ writes`. A refused call changes nothing and is a
  stuttering step. Within a transaction the code never reads its own writes, with
  one exception that cannot matter: `registraDocumentoAllegato` ends in
  `aggiornaPuntatoreDocumentoSuReperto`, which returns early for its three types.
- A query is an operator on `stato`. `Trova` is `GetPrivateData` together with the
  errors `pdcIgnorabileInLettura` drops: the record, if both the client's
  organisation (`memberOnlyRead`) and the peer's are members of the collection,
  else `Nil`. `Consultazione` takes every peer to hold the private data of its
  collections.
- In `Propagazione` a peer of a member may lack a value for some time (`manca`),
  so a call sees `Vista(msp, peer)`: the ledger less what its peer does not hold or
  its organisation may not read. The values a call writes are on the peer that
  executed it when the transaction commits, if that peer is a member's; the others
  get them in any order. `openOrgContract` of the two clients that write is the
  table of who asks which peer.
- In `Storia` a committed transaction appends one entry to each public key it wrote,
  also when the value stays the same; `OttieniStoria…` is that sequence, newest
  first.
- In `Clienti` a *pratica* is something an operator wants done once. A run of a
  client occupies a slot of `Fabric` from `SubmitAsync` on (`Avvia`) and ends with
  `ok`, `non_valida` (`status.Successful` is false) or `ignota` (any error of
  `StatusWithContext` or of the gateway's own timeouts; the transaction goes on
  without it). After anything but `ok` the operator may run the client again, or
  not. Each run of `cmd/upload` makes a new key, so each of its attempts has a `File`
  of its own (`FileNuovo`). `cmd/workflow` takes CID and key as arguments: a step
  that attaches a document passes any file uploaded beforehand with
  `-skip-chaincode` (`FileCaricati`) or on the ledger already (`FilePassati`), and a
  repeated step may pass the same one. What tells its attempts apart is the
  transaction id. The organisation is the default one of the mode, which is also the
  one `agente_coc` passes.
- In `Trasferimento` the content of the path is a sequence of block numbers;
  `Residuo` is what an earlier, longer file left, `Buco` the hole a write past the
  end leaves. A second download has its own descriptor and empties the file when
  it opens it, at any time.
- `io.Pipe` is synchronous: in `Scarico` a write ends when the reader has taken
  all of it, so `copiati` (taken from the body) and `Letti` (taken by the
  decryption) are the whole state of the pipe. A field of the EV2 stream is two
  units, so that a read or a cut may fall inside it. In `Caricamento` a unit is the
  head of the stream or a block; a process in `scrive` is blocked until the next
  one takes its unit. IPFS is external: it answers with a CID only when it has the
  whole multipart form.
- Abstracted: descriptions, classes, dates, analysis type, the certificate id in
  `autore` (only the organisation is kept), the `riferimentoEnte` of a registered
  document (free text nothing reads; the `ente` of an attached one, a laboratory or
  district, is kept), JSON, and arguments the code refuses when empty (they range over
  sets without `Nil`).
- `Contratto` also holds operators named `F_Slip`: F with a plausible mistake.
  No behaviour uses them; each shows that the property paired with it in
  `PROJECT.json` fails when F is wrong.

## 3. Runs

`CHECK_DEADLOCK FALSE` in all of them: with the finite sets of ids the ledger
really stops when the ids are used up, and a transfer stops when its calls have
returned (`TerminanoEntrambe` says that they do).

| Run | Question | Bounds, and why they suffice |
|---|---|---|
| `custodia_ciclo` | Do decrees and returns balance over repeated cycles, does every report that ends an analysis have a mandate, is the way back always open, does the ledger hold all the laboratory needs? Is every transaction a step of the abstract life cycle? | 1 exhibit, 6 transaction ids: two complete cycles, or one with several receptions; 2 laboratories so that appointed and receiving one can differ, 2 agents; 1 file, so that a key opens its CID by construction here (`propagazione` has two) |
| `custodia_reperti` | Do two exhibits disturb each other? Custody, pointers, the laboratory's copy, the abstract life cycle of both | 2 exhibits, 2 cases, 2 districts, 2 document ids, 3 transaction ids: one exhibit through a cycle, or both half-way; 1 file, as above |
| `fabric_concorrenza` | Do concurrent, lost and reordered calls still amount to one call at a time? Does the history of an exhibit give back every handover and document of its cycles, that of a file one entry? | 2 calls in flight: a conflict is between one transaction and whatever was committed since its simulation, and through the other slot any number can be; 2 documents, 2 agents, 2 laboratories, 3 transaction ids (a whole cycle) |
| `propagazione` | Is what is filed kept, and can it be opened? What does each organisation get, from whichever peer, and the laboratory from its own? Does a late private value ever keep a call from being admitted, or make a reader believe something false? | 2 cases (an index entry may lead to either), a document and an evidence id of their own, 2 transaction ids (decree and report), 2 files so that a replaced record shows; 1 value late at a time (`MaxRitardi`): each property looks at one record or one check on one peer |
| `clienti` | Is what an operator is told of a call true, then and ever after? Can a repeated step take effect twice? | 2 operators, 2 clients at a time (one attempt abandoned and another, or two operators), 4 files for the uploads (a new one for each attempt, also after an abandoned one) and 2 uploaded beforehand for the steps, 2 attachments; every mode of both clients |
| `trasferimento` | Do an upload and the download of its file return? Can a CID stand for part of a file, is a good download the whole file, and is that what is at the path? | 4 blocks: encryption, copy and request may fail at any of them, the body may be cut before, inside and between blocks, one read of the body may hold several; key right or wrong; the path empty or with a longer file; another download at any time |

`RitentativoInnocuo` is as strong as the code allows: a repeated `AvviaTrasporto`
*has* a second effect when others moved the exhibit on in between (it starts
the way back). What it excludes is two effects of one *pratica* in a row.

`InstradamentoSufficiente` explains the table in `openOrgContract`: with it, no step
of the life cycle waits for gossip. The reason given there for the laboratory (its
peer "ha appena scritto collezione_PM_LAB, i dati ci sono") is not what makes it
so: the decree was written through the peer of PG. The steps of the laboratory
do not read the private data at all.

`LaboratorioInformato` (`custodia_ciclo`) is about what the ledger holds for the
laboratory, with every record delivered. `LaboratorioServito` (`propagazione`) is about
its own peer while records are late: each of the three records it needs serves at
once when it is there, so lateness of one costs no more than that one.

`RifiutoDefinitivo` says less of `cmd/workflow` than of `cmd/upload`, because less is
true: "commit non valido" for a repeated step may be the answer while the file
passed is on the ledger, attached by the first attempt, which was given up and
committed late. What is final is the fate of the refused transaction.

`RelazioneConMandato` is about reports filed by `CompletaAnalisi`. LAB may register a
`RELAZIONE_TECNICA` for any exhibit with `RegistraDocumento`, decree or not.

The next runs each find what the repository says and the code does not do:

| Run | What it shows |
|---|---|
| `rientro_senza_analisi` | `DepositaInSede` accepts an exhibit on its way *to* the laboratory. (For the same reason `RiceviInLaboratorio` accepts one on its way *back*: `CicloVita` has both steps, as the code does) |
| `verbale_di_altro_caso` | the verbale pointer has no case: what is copied for the laboratory may be another document |
| `indice_sovrascritto` | the `DOCREP` key has no case: one of two documents of an exhibit is no longer listed |
| `chiave_sovrascritta` | a document and an evidence with one id in one case share the private record: the first key is lost |
| `scarico_troncato` | the error of the copy from IPFS never reaches the caller, and the decryption takes a cut at a block's length for the end: part of a file is a good download |
| `scarico_pm_lab` | `cmd/download` asks the peer of PG for everything: PM and LAB cannot fetch the decrees and reports of their own collection |

`FascicoloDecifrabile` holds where document and evidence ids are disjoint
(`propagazione`) and fails where they are not (`chiave_sovrascritta`).

`ScaricoBuono` says only of a body that *ended by itself* that the file is whole;
`scarico_troncato` is the case it leaves out.

**Fairness.** None on the ledger: the contract never initiates anything, no
client is obliged to call, and gossip may be arbitrarily late (so nothing is
claimed about when a private value arrives). `SpecTutto` assumes weak fairness of each
process of a transfer and that the document is asked for, and no more. For
goroutines it is the Go scheduler's. For the HTTP request and the reads of the
body it is the timeout of the client (`-ipfs-timeout`, 45 s by default;
`http.Client.Timeout` covers the body too): a peer that says nothing is an
`InvioFallito` or a `FineCorpo("Timeout")`. With `-ipfs-timeout 0` there is no
timeout and `TerminanoEntrambe` is not claimed. Given the timeout, what it says is
that the processes do not wait for each other for ever, e.g. that the decryption
closes its end before it waits for the copy. The other download of `Trasferimento`
has no fairness: it may stop anywhere.

**Assumptions about Fabric.** The gateway endorses on the peer it is connected to.
A transaction id is new. An endorsing peer that is no member of a collection
serves the data it endorsed for long enough that some member gets them
(`requiredPeerCount` is 0: the network does not check it).

## 4. Proofs

Every theorem holds for every value of the constants that satisfies the named
assumptions of `Registro` (`IdAssumption`, `NilAssumption`: identifiers are not the
empty string; no client chooses a transaction id as an id; no case is called like
the key prefix `reperto_privato_pm_lab`) and, for the refinement, of
`CustodiaCiclo` (`CartellaAssumption`: the absent card is not a card). So for any
number of exhibits, cases, documents, transactions, calls in flight and late
values, and histories of any length; TLC's runs are small instances of these.

The theorems of `FascicoloProofs`, and those elsewhere that rest on them, have a
hypothesis, `IdSeparati`: no id is given to a document and to an evidence. It is
about the clients, not about the contract, which does not check it; the run
`chiave_sovrascritta` shows that without it the key of a file is lost.

### One call at a time

`ContrattoProofs` takes the operators of `Contratto` one by one: what a group of
writes leaves at a key (`Tipata…`: typed; `Risparmia…`: cards and private records
untouched). Its last part says of each call when a transaction is *valid*
(`Vale`): the id is new, the checks hold, the writes are those of the call.
All of these are about any two ledgers, so they serve every state machine.

`CustodiaProofs`:

- `TipiCorretti`, `CustodiaSempreCoerente`, `PercorsoSempreAperto`. The inductive
  invariant `Base` is the types, custody, and what ids and laboratory a card must
  have filled in away from its district (`PuntatoriDi`). None is inductive alone:
  the report `CompletaAnalisi` files takes its office from the card's custodian,
  which has the type of a laboratory only because custody is coherent; coherence is
  preserved because the types keep the keys of cards apart from those of files.
- `PuntatoriSempreRisolti`, `RelazioneSempreConMandato`, `BilancioSempre`. The step
  relation `Cambiamento` says all a transaction can do to cards and attached
  documents: nothing, create a card, advance one, advance one and attach one
  document. Every action is shown to be a `Cambiamento` once, and `Atti` is
  preserved by a `Cambiamento`, not action by action. `Atti` adds to the three that
  a new transaction id has attached nothing yet (`AttiNuovi`), that what is attached
  to an exhibit is finite (so that cardinalities can be compared), and that the
  laboratory on a card is that of its present decree. A decree and a return report
  are then one element more in one of the two sets, exactly when the card leaves
  or enters `SEQUESTRATO`.

`RaffinamentoProofs`: `CicloImplementato`, `Spec => ImplementaCiclo`. Each kind of
`Cambiamento` changes one custody card by one step of `CicloVita`, or none.

`FascicoloProofs` (under `IdSeparati`): `CopiaSempre`, `FascicoloSempreImmutabile`,
`FascicoloSempreDecifrabile`, `ElenchiSempreIntegri`, `LaboratorioSempreDiscreto`,
`LaboratorioSempreInformato`. The invariant is `InvFascicolo`:

- a document is nowhere, or its public part and its private record agree, in
  one collection or, when a copy was made for the laboratory, in both
  (`DocumentoInOrdine`; likewise evidence and the private data of exhibits);
- an index entry leads to a record that is there (`IndiciInOrdine`);
- if the laboratory has a copy of a document of PG, the verbale of an exhibit
  under analysis points to it (`SoloRichiesti`).

A public part that is absent means that no private record of that id is there
either, which is what makes "already registered" a check against overwriting: this
fails without `IdSeparati`, because an evidence of the same id has its record under
that key. Public parts, private records and private data are never rewritten
(`Conserva`), so what was decipherable stays so.

### Calls in flight

`FabricProofs`: `VoloTipato`, `SempreSerializzabile` (`Spec => Serializzabile`),
for any number of slots. The invariant `InvFabric` says of each slot still `fresca`
(nothing its call read was written since) that its call is valid *on the present
ledger*. Its heart is `BastaLaLettura`: a call that was valid on a ledger
`s` and whose read set has the same values on `t` is valid on `t`. This is a
fact about each `Lettura…` of `Contratto`, proved per function: the read sets the
code leaves behind are enough for every check it made. So a commit that passes MVCC
validation is a step of `Custodia`, and one that fails is a stutter.

With it everything proved one call at a time holds with calls in flight
(`CustodiaInVolo`, `FascicoloInVolo`, by `INSTANCE` of `FascicoloProofs`).

`StoriaProofs`:

- `StoriaSempreUnica` from `UnaVoce`: the history of a file is its one
  registration. Two registrations of one id may be in flight; the second to
  commit has read the absence of the public part.
- `StoriaSempreContinua` from `InOrdine`: the history of a card is a chain
  (`Catena`) that starts with a new card, each next entry a step of the contract
  (`Continua`), and ends with the present card.
- `StoriaSempreCompleta` from `Attestati`: an attached document has exactly one
  entry with its transaction id, on whose card it is. It needs that transaction
  ids are not reused, in flight or in the histories.

### Peers that lack private data

`RaffinamentoProofs`, second part:

- `PropagazioneImplementaCustodia`: calls executed where private data are late are
  calls on the complete ledger. The invariant is one line, `PgCompleto`: no value
  is ever late on the peer of PG. It holds because every call that writes to
  `collezione_PG_PM` is executed there, by the routing table. PM's calls run there
  too, and those of LAB do not read private data at all; so at each action the view
  of the caller agrees with the ledger on what is read.
- `InstradamentoSempreSufficiente`, from the same lemmas.
- `LettureSempreVere` (under `IdSeparati`): a record that is in both collections is
  the same in both, so the one a peer has is true whichever it is.
- `LaboratorioSempreServito` (under `IdSeparati`): `LabRifornito` of `FascicoloProofs`
  says what `collezione_PM_LAB` holds from the request of analysis on; what LAB's
  peer has of it is shown as it is (`VistaDiLab`), and PG and PM see the card through
  PG's peer, which lacks nothing.
- `CustodiaSottoPropagazione`, `FascicoloSottoPropagazione`: the theorems about
  custody, the life cycle and the dossier carry over. They speak of the committed
  ledger; what readers get of it meanwhile is the subject of the two above.

### What operators are told

`ClientiProofs`, for any number of operators, slots and repeated attempts, assumes of
the clients (`LavoriAssumption`) that a job is one of the modes of the commands and
that the absent value is no job and none of the records `pratica` and `attesa` hold,
and that what was uploaded beforehand (`FileCaricati`) are files.

- `ClientiSuFabric`: `SpecClienti => Spec`. Every `Avvia` is a `Chiamata` of `Fabric`, a
  status that arrives is a `Conferma` or a `Scarta`, and an answer or a timeout is
  a stutter. So the theorems above hold with clients too.
- What a call is to do is read off its writes alone (`Adempie`: they hold the
  exhibit's data, or the job's document with the key of the job's file, and file no
  other), which later commits cannot disturb. Of the ledger it is only said that
  the call is still admitted (`ValeFn`), and that is kept as in `FabricProofs`, by
  the read sets (`LetturaDiOgnuna`).
- `InvClienti` says of each client that its call does the job of its *pratica*, with a
  file that, for an upload, is nowhere yet, and that, unless the client was given up,
  its file and transaction id are those the operator knows (`Tentativo`); of one
  *pratica* at most one client is waiting, and the new file of an upload is in one
  client's call only (`ClientiDistinti`). Files passed to workflow steps are under no
  such restriction.
- `RifiutoSempreDefinitivo`: with it the file of a refused upload is on the ledger under
  no key and in no call, since abandoned attempts have files of their own. That the
  transaction of a refused step is not there either is an invariant next to it
  (`RifiutiSepolti`): a transaction is in one slot only, and leaves it either on the
  ledger or refused.
- `RitentativoSempreInnocuo` needs to know of the *pratica* that changed a card
  last that it cannot change it again (`Esaurita`). It holds because each step
  leaves the card in a state that the same step does not start from, an exhibit is
  created once, and a verbale pointer is set once (`SchedaCambiata`).
- `EsitoSempreVeritiero` (under `IdSeparati`) from `EsitiVeri`, which says the same of
  a client whose status has arrived. What was left on the ledger stays because the
  dossier is immutable; the index entry of an attached document, which is not
  among the immutable keys, stays because a call indexes under its own new
  transaction id, or under an id a client chose, which is no transaction's.

### Transfers

`TrasferimentoProofs`, for a file of any number of blocks (`NBlocchi \in Nat`).
First each end alone:

- `ScaricoTipato`, `ScaricoSempreBuono`. `TypeOK` includes that the decryption is
  never ahead of the copy (`Letti <= copiati`). `ScaricoBuono` is not inductive: it
  speaks of the end only. The invariant adds `PipeCoerente` (how the write end was
  closed tells how the body ended: `EOF` only after its last byte) and
  `DecifraturaBuona` (what has been decided when the decryption says `ok`: it stood
  at a block's length with nothing left in the pipe). With these, a good end after
  `EOF` means `Letti = Lunghezza` at a block's length, and so `scritti = NBlocchi` by
  arithmetic.
- `CaricamentoTipato`, `CidSempreIntero`, `CaricamentoSempreBuono`. The invariant
  follows the units down the row: `CifraturaIntera` (the outer pipe is closed well
  only after the last unit), `UnaPerVolta` (what IPFS has is what the encryption
  gave, less the unit the form is writing), `CidRicevuto` (a CID stands for what
  was received when the form was closed). The step that needs all three is the
  closing boundary.

Then the two put together (`SpecTutto`):

- `ScaricoSempreTipato`, `RitornoSempreBuono`, `CidInteroSempre`,
  `AndataSempreBuona`: the invariants are taken over with their step lemmas: every
  step of the whole is a step of one end and a stutter of the other.
- `TrasferimentoSempreTipato`.
- `RipristinoSempreIntero`: after a good download the path holds the file. No
  variable says which download emptied the file last, and the proof does not need
  it: `PercorsoBuono` says that *one* of the two has all the blocks it wrote still in
  the file. A write of either extends its own prefix and leaves the other's
  (`FinoAvanti`: a block has one place), an emptying makes the one who did it the
  witness, with no blocks. When both have ended well, either prefix is the file.

### Only model-checked

- `TerminanoEntrambe`: liveness under fairness is beyond the proof system.

## 5. Plan

Done: all modules above, their runs, and the proofs of section 4, which cover every
safety and action property of the runs. What could come next:

1. The liveness of a transfer (`TerminanoEntrambe`) has only been model-checked; a
   proof needs a variant (units left at each stage) and rules the prover lacks.
2. A registration by hand of a file uploaded with `-skip-chaincode` as one more job of
   `Clienti` (now such files are attached by workflow steps only).

## 6. Not modelled, and why

- `generazione_reperti`: generators of sample files, no shared state.
- `scripts`, `infrastruttura_blockchain`: deployment; only the membership of the
  collections matters here.
- `agente_coc`: the tools are the jobs of `Clienti` and the queries; the MCP protocol
  and the generators it calls are left out.
- Flag parsing, certificates, connections: no state the properties tell apart. An
  upload with `-skip-chaincode` changes nothing on the ledger: `Clienti` has its
  files as `FileCaricati`.
- `DecryptAES256GCMFromWire`: the same decryption on a buffer, for tests and
  benchmarks; no pipe.
- That gossip ever delivers a private value, and the purge of private data after
  `blockToLive` blocks: the network's, no code in `src/` reacts to either.
- Time stamps of documents and history entries: nothing compares them.
- Liveness under fairness and `ENABLED` are beyond the proof system and stay with
  TLC.
