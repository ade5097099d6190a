---------------------------- MODULE ClientiProofs ---------------------------
(***************************************************************************)
(* Proofs about what the clients tell their operators, for every value of  *)
(* the constants: any number of operators, calls in flight and attempts.   *)
(***************************************************************************)
EXTENDS Clienti, FabricProofs

-----------------------------------------------------------------------------
(* What a call is to do, read off its writes alone.                        *)

\* The call of function fn is admitted on ledger s.
ValeFn(fn, s, msp, tx, R, w) ==
    \/ fn = "CreaReperto" /\ ValeCreaReperto(s, msp, tx, R, w)
    \/ fn = "RegistraDocumento" /\ ValeRegistraDocumento(s, msp, tx, R, w)
    \/ fn = "RegistraEvidenza" /\ ValeRegistraEvidenza(s, msp, tx, R, w)
    \/ fn = "RichiediAnalisi" /\ ValeRichiediAnalisi(s, msp, tx, R, w)
    \/ fn = "AvviaTrasporto" /\ ValeAvviaTrasporto(s, msp, tx, R, w)
    \/ fn = "RiceviInLaboratorio" /\ ValeRiceviInLaboratorio(s, msp, tx, R, w)
    \/ fn = "CompletaAnalisi" /\ ValeCompletaAnalisi(s, msp, tx, R, w)
    \/ fn = "PreparaRiconsegna" /\ ValePreparaRiconsegna(s, msp, tx, R, w)
    \/ fn = "DepositaInSede" /\ ValeDepositaInSede(s, msp, tx, R, w)

\* Function g of keys has value v at key x.
Ha(g, x, v) == x \in DOMAIN g /\ g[x] = v

\* In g, file f is under key x, and its private part in pdc has its key.
DepositatoIn(g, x, pdc, f) ==
    /\ Ha(g, x, [cid |-> f])
    /\ \E y \in FilePrivate : Ha(g, ChiaveFile(pdc, x[2], x[3]), y) /\ y.chiave = f

\* The effect of job l with file f and transaction tx, in g: a ledger, or the
\* writes of a call.
EffettoIn(g, l, tx, f) ==
    /\ l.fn = "CreaReperto" => Ha(g, ChiavePrivatoReperto(l.r), l.priv)
    /\ l.fn = "RegistraDocumento" =>
            DepositatoIn(g, ChiaveDocumento(l.c, l.d), pdcCollectionForTipoDocumento(l.tipo), f)
    /\ l.fn = "RegistraEvidenza" => DepositatoIn(g, ChiaveEvidenza(l.c, l.e), "PG_PM", f)
    /\ tx # Nil =>
            \E c \in Casi, tipo \in TipiDocumento :
                /\ Ha(g, ChiaveDocRep(l.r, tx), [caso |-> c])
                /\ DepositatoIn(g, ChiaveDocumento(c, tx), pdcCollectionForTipoDocumento(tipo), f)

\* The writes w of transaction tx do job l with file f, file no other, and
\* index nothing under another transaction's id.
Adempie(l, tx, f, w) ==
    /\ EffettoIn(w, l, tx, f)
    /\ \A x \in Registrati(w) : w[x] = [cid |-> f]
    /\ \A x \in Voci(w) : x[3] \in IdDocumenti \cup {tx}

\* File f is not on ledger s.
NonDepositato(s, f) == \A x \in Chiavi : x[1] \in {"DOC", "EVI"} => s[x] # [cid |-> f]

\* The state a function may take an exhibit from.
StatiDi(fn) ==
    IF fn = "RichiediAnalisi" THEN {"SEQUESTRATO"}
    ELSE IF fn = "AvviaTrasporto" THEN {"ATTESA_TRASPORTO", "ATTESA_RITIRO"}
    ELSE IF fn \in {"RiceviInLaboratorio", "DepositaInSede"} THEN {"IN_TRANSITO"}
    ELSE IF fn = "CompletaAnalisi" THEN {"IN_ANALISI"} ELSE {}

\* Function fn will not change card p.
Esaurita(fn, p) ==
    /\ p # Nil
    /\ fn = "RegistraDocumento" => p.verbale # Nil
    /\ p.stato \notin StatiDi(fn)

-----------------------------------------------------------------------------
(* The invariant.                                                          *)

\* The file of client a, that runs for a Pratica that stands at q, is a new one
\* and not yet on the ledger: nobody else has it.
Riservato(a, q) == q.lavoro.fn \in ConUpload /\ a.fase # "valida"

\* A client a that runs for a Pratica that stands at q, with call v in flight
\* if it has one, over ledger s.  The call does the job of that Pratica with its
\* file.  As long as the client is not given up, its attempt is the one the
\* operator knows of.
Tentativo(s, a, v, q) ==
    /\ a = [pratica |-> a.pratica, file |-> a.file, fase |-> a.fase]
    /\ a.pratica \in Pratiche /\ a.file \in File \cup {Nil} /\ q # Nil
    /\ a.fase \in Fasi
    /\ v # Nil => a.fase \in {"attende", "abbandonata"}
    /\ v # Nil => Adempie(q.lavoro, v.tx, a.file, v.scritture)
    /\ v # Nil /\ v.fresca =>
            \E msp \in Msp : ValeFn(q.lavoro.fn, s, msp, v.tx, v.letture, v.scritture)
    /\ q.lavoro.fn \in ConUpload => a.file \in File \ FileCaricati
    /\ Riservato(a, q) => NonDepositato(s, a.file)
    /\ a.fase # "abbandonata" =>
            /\ q.file = a.file /\ q.esito = "nessuno"
            /\ v # Nil => v.tx = q.tx

TentativoInOrdine(k) == Tentativo(stato, attesa[k], volo[k], pratica[attesa[k].pratica])

\* An operator of cmd/upload who was told that the transaction is not valid has a
\* file that is not on the ledger, nor in any call.
PraticaInOrdine(p) ==
    /\ pratica[p] = [lavoro |-> pratica[p].lavoro, esito |-> pratica[p].esito,
                     file |-> pratica[p].file, tx |-> pratica[p].tx]
    /\ pratica[p].lavoro \in Lavori
    /\ pratica[p].file \in File \cup {Nil} /\ pratica[p].tx \in TxIds \cup {Nil}
    /\ pratica[p].lavoro.fn \in ConUpload => pratica[p].file \in File \ FileCaricati
    /\ pratica[p].lavoro.fn \in ConUpload /\ pratica[p].esito = "non_valida" =>
            /\ NonDepositato(stato, pratica[p].file)
            /\ \A k \in Canali : attesa[k] # Nil => attesa[k].file # pratica[p].file

\* Of one Pratica one client at most is waiting; a new file that is not yet on the
\* ledger is in one client's call only.
ClientiDistinti ==
    \A j \in Canali, k \in Canali : j # k /\ attesa[j] # Nil /\ attesa[k] # Nil =>
        /\ attesa[j].fase = "abbandonata" \/ attesa[k].fase = "abbandonata"
                \/ attesa[j].pratica # attesa[k].pratica
        /\ Riservato(attesa[k], pratica[attesa[k].pratica]) => attesa[j].file # attesa[k].file

\* The job that changed a card last cannot change it again.
UltimaInOrdine(r) ==
    /\ ultima[r] \in Pratiche /\ pratica[ultima[r]] # Nil
    /\ Esaurita(pratica[ultima[r]].lavoro.fn, Scheda(stato, r))

InvClienti ==
    /\ pratica = [p \in Pratiche |-> pratica[p]]
    /\ attesa = [k \in Canali |-> attesa[k]]
    /\ ultima = [r \in Reperti |-> ultima[r]]
    /\ \A k \in Canali : attesa[k] = Nil => volo[k] = Nil
    /\ \A k \in Canali : attesa[k] # Nil => TentativoInOrdine(k)
    /\ \A p \in Pratiche : pratica[p] # Nil => PraticaInOrdine(p)
    /\ ClientiDistinti
    /\ \A r \in Reperti : ultima[r] # Nil => UltimaInOrdine(r)

\* Transaction tx, if there is one, is not on ledger s nor among the calls v.
SepoltaIn(s, v, tx) ==
    tx # Nil => Assente(s, tx) /\ \A k \in Canali : v[k] # Nil => v[k].tx # tx

\* What an operator was told, or is about to be told, to be not valid is neither
\* on the ledger nor in flight.
RifiutiSepolti ==
    /\ \A k \in Canali : attesa[k] # Nil /\ attesa[k].fase = "invalida" =>
            SepoltaIn(stato, volo, pratica[attesa[k].pratica].tx)
    /\ \A p \in Pratiche : pratica[p] # Nil /\ pratica[p].esito = "non_valida" =>
            SepoltaIn(stato, volo, pratica[p].tx)

\* What an operator was told, or is about to be told, is on the ledger.
EsitiVeri ==
    /\ \A k \in Canali : attesa[k] # Nil /\ attesa[k].fase = "valida" =>
            EffettoIn(stato, pratica[attesa[k].pratica].lavoro, pratica[attesa[k].pratica].tx,
                      attesa[k].file)
    /\ \A p \in Pratiche : pratica[p] # Nil /\ pratica[p].esito = "ok" =>
            EffettoIn(stato, pratica[p].lavoro, pratica[p].tx, pratica[p].file)

-----------------------------------------------------------------------------
(* What the call of a job writes.                                          *)

\* Values in writes put together.
LEMMA HaUnione ==
    /\ \A x, v : Ha(Scrivi(x, v), x, v)
    /\ \A g, h, x, v : Ha(h, x, v) => Ha(g ++ h, x, v)
    /\ \A g, h, x, v : Ha(g, x, v) /\ x \notin DOMAIN h => Ha(g ++ h, x, v)
  BY DEF Ha, Scrivi, ++

\* Other writes leave a file deposited.
LEMMA DepositatoUnione ==
    ASSUME NEW g, NEW h, NEW x, NEW pdc, NEW f, DepositatoIn(g, x, pdc, f),
           x \notin DOMAIN h, ChiaveFile(pdc, x[2], x[3]) \notin DOMAIN h
    PROVE  DepositatoIn(g ++ h, x, pdc, f)
  <1>1. PICK y \in FilePrivate : Ha(g, ChiaveFile(pdc, x[2], x[3]), y) /\ y.chiave = f
    BY DEF DepositatoIn
  <1>2. Ha(g ++ h, ChiaveFile(pdc, x[2], x[3]), y) /\ Ha(g ++ h, x, [cid |-> f])
    BY <1>1, HaUnione DEF DepositatoIn
  <1> QED  BY <1>1, <1>2 DEF DepositatoIn

\* putDocumento leaves a document and its index entry, and no other file.
LEMMA DepositatoPut ==
    ASSUME NEW c, NEW d, NEW f, NEW priv \in FilePrivate, priv.chiave = f
    PROVE  LET w == putDocumento(c, d, f, priv)
           IN  /\ DepositatoIn(w, ChiaveDocumento(c, d),
                               pdcCollectionForTipoDocumento(priv.tipo), f)
               /\ priv.reperto # Nil => Ha(w, ChiaveDocRep(priv.reperto, d), [caso |-> c])
               /\ \A x \in Registrati(w) : w[x] = [cid |-> f]
               /\ \A x \in Voci(w) : x[3] = d
  <1> DEFINE pdc == pdcCollectionForTipoDocumento(priv.tipo)
             a == Scrivi(ChiaveDocumento(c, d), [cid |-> f])
             b == Scrivi(ChiaveFile(pdc, c, d), priv)
             e == IF priv.reperto = Nil THEN Niente
                  ELSE Scrivi(ChiaveDocRep(priv.reperto, d), [caso |-> c])
             w == putDocumento(c, d, f, priv)
  <1>1. w = a ++ b ++ e
    BY DEF putDocumento
  <1>2. /\ ChiaveDocumento(c, d)[1] = "DOC" /\ ChiaveDocumento(c, d)[2] = c
        /\ ChiaveDocumento(c, d)[3] = d /\ ChiaveFile(pdc, c, d)[1] = pdc
        /\ pdc \in {"PG_PM", "PM_LAB"} /\ ChiaveDocRep(priv.reperto, d)[1] = "DOCREP"
    BY DEF ChiaveDocumento, ChiaveFile, ChiaveDocRep, pdcCollectionForTipoDocumento
  <1>3. /\ DOMAIN b = {ChiaveFile(pdc, c, d)}
        /\ DOMAIN e \subseteq {ChiaveDocRep(priv.reperto, d)}
    BY DEF Scrivi, Niente
  <1>4. /\ Ha(a, ChiaveDocumento(c, d), [cid |-> f]) /\ Ha(b, ChiaveFile(pdc, c, d), priv)
        /\ priv.reperto # Nil => Ha(e, ChiaveDocRep(priv.reperto, d), [caso |-> c])
    BY HaUnione
  <1> HIDE DEF a, b, e, pdc
  <1>5. /\ Ha(a ++ b, ChiaveDocumento(c, d), [cid |-> f])
        /\ Ha(a ++ b, ChiaveFile(pdc, c, d), priv)
    BY <1>2, <1>3, <1>4, HaUnione
  <1>6. /\ Ha(w, ChiaveDocumento(c, d), [cid |-> f]) /\ Ha(w, ChiaveFile(pdc, c, d), priv)
        /\ priv.reperto # Nil => Ha(w, ChiaveDocRep(priv.reperto, d), [caso |-> c])
    BY <1>1, <1>2, <1>3, <1>4, <1>5, HaUnione
  <1>7. Registrati(w) = {ChiaveDocumento(c, d)}
    BY RegistratiGruppi
  <1>8. \A x \in Voci(w) : x[3] = d
    BY SchedeEVociGruppi DEF ChiaveDocRep
  <1> HIDE DEF w
  <1>9. DepositatoIn(w, ChiaveDocumento(c, d), pdc, f)
    BY <1>2, <1>6 DEF DepositatoIn
  <1> QED  BY <1>6, <1>7, <1>8, <1>9 DEF Ha, w, pdc

\* A saved card touches neither files nor indexes.
LEMMA SoloScheda ==
    ASSUME NEW r, NEW p
    PROVE  /\ DOMAIN SalvaScheda(r, p) = {ChiaveReperto(r)}
           /\ Registrati(SalvaScheda(r, p)) = {} /\ Voci(SalvaScheda(r, p)) = {}
  BY RegistratiGruppi, SchedeEVociGruppi DEF SalvaScheda, Scrivi

\* Writes that come after those of a job and touch neither files nor indexes.
LEMMA AdempieUnione ==
    ASSUME NEW a, NEW g, NEW f, NEW tx, Registrati(g) = {}, Voci(g) = {},
           \A x \in Registrati(a) : a[x] = [cid |-> f],
           \A x \in Voci(a) : x[3] \in IdDocumenti \cup {tx}
    PROVE  /\ \A x \in Registrati(a ++ g) : (a ++ g)[x] = [cid |-> f]
           /\ \A x \in Voci(a ++ g) : x[3] \in IdDocumenti \cup {tx}
  <1>1. Registrati(a ++ g) = Registrati(a) /\ Voci(a ++ g) = Voci(a)
    <2>1. Registrati(a ++ g) = Registrati(a) \cup Registrati(g)
      BY RegistratiUnione
    <2>2. Voci(a ++ g) = Voci(a) \cup Voci(g)
      BY SchedeEVociUnione
    <2> QED  BY <2>1, <2>2
  <1>2. ASSUME NEW x \in Registrati(a) PROVE (a ++ g)[x] = a[x]
    BY <1>2 DEF Registrati, ++
  <1> QED  BY <1>1, <1>2

\* A workflow step that attaches a document.
LEMMA AdempieAllegato ==
    ASSUME NEW tx \in TxIds, NEW msp \in Msp, NEW c \in Casi, NEW r \in Reperti,
           NEW tipo \in TipiDocumento, NEW f \in File, NEW ente \in Laboratori \cup Distretti,
           NEW g, Registrati(g) = {}, Voci(g) = {},
           \A pdc \in {"PG_PM", "PM_LAB"} : ChiaveFile(pdc, c, tx) \notin DOMAIN g,
           NEW l, l.fn \in ConAllegato, l.r = r
    PROVE  Adempie(l, tx, f, registraDocumentoAllegato(tx, msp, c, r, tipo, f, ente) ++ g)
  <1> DEFINE priv == [caso |-> c, reperto |-> r, tipo |-> tipo, autore |-> msp,
                      ente |-> ente, chiave |-> f]
             a == registraDocumentoAllegato(tx, msp, c, r, tipo, f, ente)
             pdc == pdcCollectionForTipoDocumento(tipo)
             x == ChiaveDocumento(c, tx)
  <1>1. priv \in FilePrivate /\ priv.chiave = f /\ priv.tipo = tipo /\ priv.reperto = r
    BY DEF FilePrivate
  <1>2. a = putDocumento(c, tx, f, priv)
    BY DEF registraDocumentoAllegato
  <1>3. r # Nil /\ pdc \in {"PG_PM", "PM_LAB"}
    BY NilAssumption DEF pdcCollectionForTipoDocumento
  <1>4. x[1] = "DOC" /\ x[2] = c /\ x[3] = tx /\ ChiaveDocRep(r, tx)[1] = "DOCREP"
    BY DEF ChiaveDocumento, ChiaveDocRep
  <1> HIDE DEF priv
  <1>5. /\ DepositatoIn(a, x, pdc, f) /\ Ha(a, ChiaveDocRep(r, tx), [caso |-> c])
        /\ \A y \in Registrati(a) : a[y] = [cid |-> f]
        /\ \A y \in Voci(a) : y[3] = tx
    BY <1>1, <1>2, <1>3, DepositatoPut
  <1> HIDE DEF a, pdc, x
  <1>6. /\ x \notin DOMAIN g /\ ChiaveDocRep(r, tx) \notin DOMAIN g
        /\ ChiaveFile(pdc, x[2], x[3]) \notin DOMAIN g
    BY <1>3, <1>4 DEF Registrati, Voci
  <1>7. DepositatoIn(a ++ g, x, pdc, f) /\ Ha(a ++ g, ChiaveDocRep(r, tx), [caso |-> c])
    BY <1>5, <1>6, DepositatoUnione, HaUnione
  <1>8. EffettoIn(a ++ g, l, tx, f)
    BY <1>7 DEF EffettoIn, ConAllegato, x, pdc
  <1>9. /\ \A y \in Registrati(a ++ g) : (a ++ g)[y] = [cid |-> f]
        /\ \A y \in Voci(a ++ g) : y[3] \in IdDocumenti \cup {tx}
    BY <1>5, AdempieUnione
  <1> QED  BY <1>8, <1>9 DEF Adempie, a

\* CreaReperto.
LEMMA AdempieCreaReperto ==
    ASSUME NEW l, l.fn = "CreaReperto", NEW f
    PROVE  Adempie(l, Nil, f, ScritturaCreaReperto(l.r, l.priv))
  <1> DEFINE x == ChiavePrivatoReperto(l.r)
             a == Scrivi(x, l.priv)
             g == SalvaScheda(l.r, SchedaNuova(l.priv))
  <1>1. Ha(a, x, l.priv)
    BY HaUnione
  <1>2. x \notin DOMAIN g /\ Registrati(g) = {} /\ Voci(g) = {}
    <2>1. DOMAIN g = {ChiaveReperto(l.r)} /\ Registrati(g) = {} /\ Voci(g) = {}
      BY SoloScheda
    <2>2. ChiaveReperto(l.r)[1] = "PUB" /\ x[1] = "PG_PM"
      BY DEF ChiaveReperto, ChiavePrivatoReperto
    <2> HIDE DEF g, x
    <2> QED  BY <2>1, <2>2
  <1>3. Registrati(a) = {} /\ Voci(a) = {}
    BY RegistratiGruppi, SchedeEVociGruppi DEF ChiavePrivatoReperto
  <1>4. ScritturaCreaReperto(l.r, l.priv) = a ++ g
    BY DEF ScritturaCreaReperto
  <1> HIDE DEF a, g
  <1>5. Ha(a ++ g, x, l.priv)
    BY <1>1, <1>2, HaUnione
  <1>6. EffettoIn(a ++ g, l, Nil, f)
    BY <1>5 DEF EffettoIn
  <1>7. /\ \A y \in Registrati(a ++ g) : (a ++ g)[y] = [cid |-> f]
        /\ \A y \in Voci(a ++ g) : y[3] \in IdDocumenti \cup {Nil}
    <2>1. \A y \in Voci(a) : y[3] \in IdDocumenti \cup {Nil}
      BY <1>3
    <2>2. \A y \in Registrati(a) : a[y] = [cid |-> f]
      BY <1>3
    <2> QED  BY <1>2, <2>1, <2>2, AdempieUnione
  <1> QED  BY <1>4, <1>6, <1>7 DEF Adempie

\* RegistraDocumentoConTransient.
LEMMA AdempieRegistraDocumento ==
    ASSUME NEW s, NEW msp \in Msp, NEW d \in IdDocumenti, NEW c \in Casi,
           NEW tipo \in TipiDocumento, NEW r \in Reperti \cup {Nil}, NEW f \in File,
           NEW l, l.fn = "RegistraDocumento", l.d = d, l.c = c, l.tipo = tipo
    PROVE  Adempie(l, Nil, f, ScritturaRegistraDocumento(s, msp, d, c, tipo, r, f))
  <1> DEFINE priv == [caso |-> c, reperto |-> r, tipo |-> tipo, autore |-> msp,
                      ente |-> Nil, chiave |-> f]
             a == putDocumento(c, d, f, priv)
             g == aggiornaPuntatoreDocumentoSuReperto(s, r, d, tipo)
             pdc == pdcCollectionForTipoDocumento(tipo)
             x == ChiaveDocumento(c, d)
  <1>1. priv \in FilePrivate /\ priv.chiave = f /\ priv.tipo = tipo
    BY DEF FilePrivate
  <1>2. /\ x[1] = "DOC" /\ ChiaveFile(pdc, x[2], x[3])[1] \in {"PG_PM", "PM_LAB"}
        /\ ChiaveReperto(r)[1] = "PUB"
    BY DEF ChiaveDocumento, ChiaveFile, pdcCollectionForTipoDocumento, ChiaveReperto
  <1>3. DOMAIN g \subseteq {ChiaveReperto(r)} /\ Registrati(g) = {} /\ Voci(g) = {}
    <2>1. DOMAIN Niente = {}
      BY DEF Niente
    <2> QED  BY <2>1, SoloScheda, RegistratiUnione, SchedeEVociUnione
             DEF aggiornaPuntatoreDocumentoSuReperto
  <1>4. ScritturaRegistraDocumento(s, msp, d, c, tipo, r, f) = a ++ g
    BY DEF ScritturaRegistraDocumento
  <1>9. a = putDocumento(c, d, f, priv)
    OBVIOUS
  <1> HIDE DEF priv, g, a
  <1>5. /\ DepositatoIn(a, x, pdc, f)
        /\ \A y \in Registrati(a) : a[y] = [cid |-> f]
        /\ \A y \in Voci(a) : y[3] = d
    <2>1. /\ DepositatoIn(a, x, pdcCollectionForTipoDocumento(priv.tipo), f)
          /\ priv.reperto # Nil => Ha(a, ChiaveDocRep(priv.reperto, d), [caso |-> c])
          /\ \A y \in Registrati(a) : a[y] = [cid |-> f]
          /\ \A y \in Voci(a) : y[3] = d
      BY <1>1, <1>9, DepositatoPut
    <2> QED  BY <1>1, <2>1
  <1> HIDE DEF pdc, x
  <1>6. DepositatoIn(a ++ g, x, pdc, f)
    BY <1>2, <1>3, <1>5, DepositatoUnione
  <1>7. EffettoIn(a ++ g, l, Nil, f)
    BY <1>6 DEF EffettoIn, x, pdc
  <1>8. /\ \A y \in Registrati(a ++ g) : (a ++ g)[y] = [cid |-> f]
        /\ \A y \in Voci(a ++ g) : y[3] \in IdDocumenti \cup {Nil}
    BY <1>3, <1>5, AdempieUnione
  <1> QED  BY <1>4, <1>7, <1>8 DEF Adempie

\* RegistraEvidenzaConTransient.
LEMMA AdempieRegistraEvidenza ==
    ASSUME NEW msp \in Msp, NEW l, l.fn = "RegistraEvidenza", l.c \in Casi,
           l.r \in Reperti \cup {Nil}, NEW f \in File
    PROVE  Adempie(l, Nil, f, ScritturaRegistraEvidenza(msp, l.e, l.c, l.r, f))
  <1> DEFINE priv == [caso |-> l.c, reperto |-> l.r, tipo |-> Nil, autore |-> msp,
                      ente |-> Nil, chiave |-> f]
             x == ChiaveEvidenza(l.c, l.e)
             y == ChiaveFile("PG_PM", l.c, l.e)
             a == Scrivi(x, [cid |-> f])
             b == Scrivi(y, priv)
             g == IF l.r = Nil THEN Niente ELSE Scrivi(ChiaveEviRep(l.r, l.e), [caso |-> l.c])
  <1>1. priv \in FilePrivate /\ priv.chiave = f
    BY DEF FilePrivate
  <1>2. /\ x[1] = "EVI" /\ x[2] = l.c /\ x[3] = l.e /\ y[1] = "PG_PM"
        /\ ChiaveEviRep(l.r, l.e)[1] = "EVIREP"
    BY DEF ChiaveEvidenza, ChiaveFile, ChiaveEviRep
  <1>3. /\ DOMAIN b = {y} /\ DOMAIN g \subseteq {ChiaveEviRep(l.r, l.e)}
        /\ Registrati(b) = {} /\ Registrati(g) = {} /\ Voci(b) = {} /\ Voci(g) = {}
        /\ Voci(a) = {} /\ Registrati(a) = {x}
    BY <1>2, RegistratiUnione, SchedeEVociUnione DEF Scrivi, Niente
  <1>4. Ha(a, x, [cid |-> f]) /\ Ha(b, y, priv)
    BY HaUnione
  <1>5. ScritturaRegistraEvidenza(msp, l.e, l.c, l.r, f) = (a ++ b) ++ g
    BY DEF ScritturaRegistraEvidenza
  <1> HIDE DEF a, b, g, priv
  <1>6. Ha(a ++ b, x, [cid |-> f]) /\ Ha(a ++ b, y, priv)
    BY <1>2, <1>3, <1>4, HaUnione
  <1>7. Ha((a ++ b) ++ g, x, [cid |-> f]) /\ Ha((a ++ b) ++ g, y, priv)
    BY <1>2, <1>3, <1>6, HaUnione
  <1>8. DepositatoIn((a ++ b) ++ g, x, "PG_PM", f)
    BY <1>1, <1>2, <1>7 DEF DepositatoIn
  <1>9. EffettoIn((a ++ b) ++ g, l, Nil, f)
    BY <1>8 DEF EffettoIn
  <1>10. /\ \A z \in Registrati((a ++ b) ++ g) : ((a ++ b) ++ g)[z] = [cid |-> f]
         /\ Voci((a ++ b) ++ g) = {}
    <2>1. Registrati((a ++ b) ++ g) = {x} /\ Voci((a ++ b) ++ g) = {}
      <3>1. Registrati(a ++ b) = {x} /\ Voci(a ++ b) = {}
        BY <1>3, RegistratiUnione, SchedeEVociUnione
      <3> QED  BY <1>3, <3>1, RegistratiUnione, SchedeEVociUnione
    <2> QED  BY <1>7, <2>1 DEF Ha
  <1> QED  BY <1>5, <1>9, <1>10 DEF Adempie

\* A workflow step that attaches no document.
LEMMA AdempieScheda ==
    ASSUME NEW l, l.fn \in {"AvviaTrasporto", "RiceviInLaboratorio", "PreparaRiconsegna"},
           NEW f, NEW w, Registrati(w) = {}, Voci(w) = {}
    PROVE  Adempie(l, Nil, f, w)
  BY DEF Adempie, EffettoIn

\* CompletaAnalisi and DepositaInSede: the document and the card.
LEMMA AdempieConScheda ==
    ASSUME NEW tx \in TxIds, NEW msp \in Msp, NEW c \in Casi, NEW r \in Reperti,
           NEW tipo \in TipiDocumento, NEW f \in File, NEW ente \in Laboratori \cup Distretti,
           NEW p, NEW l, l.fn \in ConAllegato, l.r = r
    PROVE  Adempie(l, tx, f, registraDocumentoAllegato(tx, msp, c, r, tipo, f, ente)
                             ++ SalvaScheda(r, p))
  <1> DEFINE g == SalvaScheda(r, p)
  <1>1. DOMAIN g = {ChiaveReperto(r)} /\ Registrati(g) = {} /\ Voci(g) = {}
    BY SoloScheda
  <1>2. /\ ChiaveReperto(r)[1] = "PUB"
        /\ \A pdc \in {"PG_PM", "PM_LAB"} : ChiaveFile(pdc, c, tx)[1] # "PUB"
    BY DEF ChiaveReperto, ChiaveFile
  <1> HIDE DEF g
  <1>3. \A pdc \in {"PG_PM", "PM_LAB"} : ChiaveFile(pdc, c, tx) \notin DOMAIN g
    BY <1>1, <1>2
  <1>4. Adempie(l, tx, f, registraDocumentoAllegato(tx, msp, c, r, tipo, f, ente) ++ g)
    BY <1>1, <1>3, AdempieAllegato
  <1> QED  BY <1>4 DEF g

\* RichiediAnalisi: the copies it leaves for the laboratory are other files.
LEMMA AdempieRichiediAnalisi ==
    ASSUME NEW s, Tipato(s), NEW tx \in TxIds, NEW msp \in Msp, NEW r \in Reperti,
           NEW lab \in Laboratori, NEW f \in File, AmmetteRichiediAnalisi(s, msp, r),
           Scheda(s, r).verbale # tx, NEW l, l.fn \in ConAllegato, l.r = r
    PROVE  Adempie(l, tx, f, ScritturaRichiediAnalisi(s, tx, msp, r, lab, f))
  <1> DEFINE c == Privato(s, r).caso
             kp == ChiavePrivatoPmLab(r)
             kv == ChiaveVerbale(s, r, "PM_LAB")
             a == registraDocumentoAllegato(tx, msp, c, r, "DECRETO_ACCERTAMENTO", f, lab)
             b == Scrivi(kp, Privato(s, r))
             e == Scrivi(kv, s[ChiaveVerbale(s, r, "PG_PM")])
             h == SalvaScheda(r, [Scheda(s, r) EXCEPT !.decreto = tx, !.caso = c, !.lab = lab,
                                                      !.stato = "ATTESA_TRASPORTO"])
             g == b ++ e ++ h
  <1>1. c \in Casi /\ "DECRETO_ACCERTAMENTO" \in TipiDocumento
    BY LettoPerRichiesta DEF TipiDocumento
  <1>2. ScritturaRichiediAnalisi(s, tx, msp, r, lab, f) = a ++ g
    BY Associa DEF ScritturaRichiediAnalisi
  <1>3. DOMAIN b = {kp} /\ DOMAIN e = {kv} /\ DOMAIN h = {ChiaveReperto(r)}
    BY DEF Scrivi, SalvaScheda
  <1>4. /\ kp[1] = "PM_LAB" /\ kv[1] = "PM_LAB" /\ ChiaveReperto(r)[1] = "PUB"
        /\ kp[2] = PrefissoPmLab /\ kv[3] = Scheda(s, r).verbale
        /\ \A pdc : /\ ChiaveFile(pdc, c, tx)[1] = pdc /\ ChiaveFile(pdc, c, tx)[2] = c
                    /\ ChiaveFile(pdc, c, tx)[3] = tx
    BY DEF ChiavePrivatoPmLab, ChiaveVerbale, ChiaveFile, ChiaveReperto
  <1> HIDE DEF a, b, e, h, kp, kv, c
  <1>5. DOMAIN g = {kp, kv, ChiaveReperto(r)}
    BY <1>3 DEF ++
  <1> HIDE DEF g
  <1>6. Registrati(g) = {} /\ Voci(g) = {}
    BY <1>4, <1>5 DEF Registrati, Voci
  <1>7. \A pdc \in {"PG_PM", "PM_LAB"} : ChiaveFile(pdc, c, tx) \notin DOMAIN g
    BY <1>1, <1>4, <1>5, IdAssumption
  <1>8. Adempie(l, tx, f, a ++ g)
    BY <1>1, <1>6, <1>7, AdempieAllegato DEF a
  <1> QED  BY <1>2, <1>8

-----------------------------------------------------------------------------
(* A client has a call of its job endorsed.                                *)

\* What a job is made of.
LEMMA CampiDelLavoro ==
    ASSUME NEW l \in Lavori
    PROVE  /\ l.fn = "CreaReperto" => l.r \in Reperti /\ l.priv \in RepertoPrivate
           /\ l.fn = "RegistraDocumento" =>
                /\ l.d \in IdDocumenti /\ l.c \in Casi
                /\ l.tipo \in TipiDocumento /\ l.r \in Reperti \cup {Nil}
           /\ l.fn = "RegistraEvidenza" =>
                l.e \in IdEvidenze /\ l.c \in Casi /\ l.r \in Reperti \cup {Nil}
           /\ l.fn \in {"RichiediAnalisi", "RiceviInLaboratorio"} =>
                l.r \in Reperti /\ l.lab \in Laboratori
           /\ l.fn = "AvviaTrasporto" => l.r \in Reperti /\ l.agente \in Agenti
           /\ l.fn \in {"CompletaAnalisi", "PreparaRiconsegna", "DepositaInSede"} =>
                l.r \in Reperti
  <1>1. CASE l \in LavoriReperto
    BY <1>1 DEF LavoriReperto
  <1>2. CASE l \in LavoriDocumento
    BY <1>2 DEF LavoriDocumento
  <1>3. CASE l \in LavoriEvidenza
    BY <1>3 DEF LavoriEvidenza
  <1>4. CASE l \in [fn : {"RichiediAnalisi", "RiceviInLaboratorio"}, r : Reperti,
                    lab : Laboratori]
    BY <1>4
  <1>5. CASE l \in [fn : {"AvviaTrasporto"}, r : Reperti, agente : Agenti]
    BY <1>5
  <1>6. CASE l \in [fn : {"CompletaAnalisi", "PreparaRiconsegna", "DepositaInSede"},
                    r : Reperti]
    BY <1>6
  <1> QED  BY <1>1, <1>2, <1>3, <1>4, <1>5, <1>6, LavoriAssumption DEF LavoriCiclo

\* The file cmd/upload makes is known to nobody.
LEMMA FileNuovoIgnoto ==
    \A f \in FileNuovo : f \in File \ FileCaricati /\ f \notin FileNoti
  BY DEF FileNuovo

\* The file an operator passes was uploaded beforehand or is on the ledger.
LEMMA FilePassatoNoto ==
    ASSUME Tipato(stato), NEW f \in FilePassati
    PROVE  f \in File /\ (f \in FileCaricati \/ ~NonDepositato(stato, f))
  <1>1. CASE f \in FileCaricati
    BY <1>1, LavoriAssumption
  <1>2. CASE f \in FileDepositati
    <2>1. PICK x \in Chiavi : x[1] \in {"DOC", "EVI"} /\ stato[x] # Nil /\ f = stato[x].cid
      BY <1>2 DEF FileDepositati
    <2>2. stato[x] \in FilePublic
      BY <2>1 DEF Tipato, ValoriDi
    <2>3. f \in File /\ stato[x] = [cid |-> f]
      BY <2>1, <2>2 DEF FilePublic
    <2> QED  BY <2>1, <2>3 DEF NonDepositato
  <1> QED  BY <1>1, <1>2 DEF FilePassati

\* What P knows of the verbale of an exhibit.
LEMMA VerbaleNoto ==
    P!Base => \A r \in Reperti : RepertoExists(stato, r)
                => Scheda(stato, r).verbale \in IdDocumenti \cup {Nil}
  BY DEF P!Base, P!SchedeInOrdine, P!PuntatoriDi, P!RepertoExists, P!Scheda, P!ChiaveReperto,
         RepertoExists, Scheda, ChiaveReperto

\* The call of job l is admitted, does the job, and goes in flight.
Parte(k, l, tx, f) ==
    \E msp \in Msp : \E R, w :
        /\ ValeFn(l.fn, stato, msp, tx, R, w)
        /\ Adempie(l, tx, f, w)
        /\ tx # Nil => TxNuova(tx)
        /\ Approva(k, tx, R, w)

\* The organisation a client signs with.
LEMMA OrgNote ==
    /\ \A fn : OrgDelModo(fn) \in Msp
    /\ \A tipo : scegliOrgFirmatariaDocumento(tipo) \in Msp
  BY DEF OrgDelModo, scegliOrgFirmatariaDocumento, Msp

\* cmd/upload.
LEMMA UploadParte ==
    ASSUME NEW k, NEW l \in Lavori, NEW tx \in TxDi(l), NEW f \in FileDi(l),
           EseguiUpload(k, l, f)
    PROVE  Parte(k, l, tx, f) /\ Chiamata(k)
  <1>1. CASE runReperto(k, l)
    <2>1. l.fn = "CreaReperto" /\ CreaReperto(k, "PGMSP", l.r, l.priv)
      BY <1>1 DEF runReperto, submitCreaReperto
    <2>2. tx = Nil /\ l.r \in Reperti /\ l.priv \in RepertoPrivate /\ "PGMSP" \in Msp
      BY <2>1, CampiDelLavoro DEF TxDi, ConAllegato, Msp
    <2> DEFINE R == LetturaCreaReperto(l.r)
               w == ScritturaCreaReperto(l.r, l.priv)
    <2>3. Approva(k, Nil, R, w) /\ AmmetteCreaReperto(stato, "PGMSP", l.r)
      BY <2>1 DEF CreaReperto
    <2>4. Adempie(l, Nil, f, w)
      BY <2>1, AdempieCreaReperto
    <2>5. ValeFn(l.fn, stato, "PGMSP", Nil, R, w)
      BY <2>1, <2>2, <2>3 DEF ValeFn, ValeCreaReperto
    <2>6. Chiamata(k)
      BY <2>1, <2>2 DEF Chiamata
    <2> HIDE DEF R, w
    <2> QED  BY <2>2, <2>3, <2>4, <2>5, <2>6 DEF Parte
  <1>2. CASE runDocumento(k, l, f)
    <2> DEFINE msp == scegliOrgFirmatariaDocumento(l.tipo)
    <2>1. l.fn = "RegistraDocumento" /\ RegistraDocumento(k, msp, l.d, l.c, l.tipo, l.r, f)
      BY <1>2 DEF runDocumento, submitRegistraDocumento
    <2>2. /\ tx = Nil /\ l.d \in IdDocumenti /\ l.c \in Casi /\ l.tipo \in TipiDocumento
          /\ l.r \in Reperti \cup {Nil} /\ f \in File /\ msp \in Msp
      BY <2>1, CampiDelLavoro, FileNuovoIgnoto, OrgNote
         DEF TxDi, FileDi, ConAllegato, ConUpload
    <2> HIDE DEF msp
    <2> DEFINE R == LetturaRegistraDocumento(l.d, l.c, l.r)
               w == ScritturaRegistraDocumento(stato, msp, l.d, l.c, l.tipo, l.r, f)
    <2>3. /\ Approva(k, Nil, R, w)
          /\ AmmetteRegistraDocumento(stato, msp, l.d, l.c, l.tipo, l.r)
      BY <2>1 DEF RegistraDocumento
    <2>4. Adempie(l, Nil, f, w)
      BY <2>1, <2>2, AdempieRegistraDocumento
    <2>5. ValeRegistraDocumento(stato, msp, Nil, R, w)
      BY <2>2, <2>3 DEF ValeRegistraDocumento
    <2>6. ValeFn(l.fn, stato, msp, Nil, R, w)
      BY <2>1, <2>5 DEF ValeFn
    <2>7. Chiamata(k)
      BY <2>1, <2>2 DEF Chiamata
    <2> HIDE DEF R, w
    <2> QED  BY <2>2, <2>3, <2>4, <2>6, <2>7 DEF Parte
  <1>3. CASE runEvidenza(k, l, f)
    <2>1. l.fn = "RegistraEvidenza" /\ RegistraEvidenza(k, "PGMSP", l.e, l.c, l.r, f)
      BY <1>3 DEF runEvidenza, submitRegistraEvidenza
    <2>2. /\ tx = Nil /\ l.e \in IdEvidenze /\ l.c \in Casi
          /\ l.r \in Reperti \cup {Nil} /\ f \in File /\ "PGMSP" \in Msp
      BY <2>1, CampiDelLavoro, FileNuovoIgnoto
         DEF TxDi, FileDi, ConAllegato, ConUpload, Msp
    <2> DEFINE R == LetturaRegistraEvidenza(l.e, l.c, l.r)
               w == ScritturaRegistraEvidenza("PGMSP", l.e, l.c, l.r, f)
    <2>3. Approva(k, Nil, R, w) /\ AmmetteRegistraEvidenza(stato, "PGMSP", l.e, l.c, l.r)
      BY <2>1 DEF RegistraEvidenza
    <2>4. Adempie(l, Nil, f, w)
      BY <2>1, <2>2, AdempieRegistraEvidenza
    <2>5. ValeRegistraEvidenza(stato, "PGMSP", Nil, R, w)
      BY <2>2, <2>3 DEF ValeRegistraEvidenza
    <2>6. ValeFn(l.fn, stato, "PGMSP", Nil, R, w)
      BY <2>1, <2>5 DEF ValeFn
    <2>7. Chiamata(k)
      BY <2>1, <2>2 DEF Chiamata
    <2> HIDE DEF R, w
    <2> QED  BY <2>2, <2>3, <2>4, <2>6, <2>7 DEF Parte
  <1> QED  BY <1>1, <1>2, <1>3 DEF EseguiUpload

\* cmd/workflow, the steps that attach a document.
LEMMA WorkflowAllegatoParte ==
    ASSUME P!Base, NEW k, NEW l \in Lavori, l.fn \in ConAllegato, NEW tx \in TxIds,
           NEW f \in FilePassati, EseguiWorkflow(k, tx, l, f)
    PROVE  Parte(k, l, tx, f) /\ Chiamata(k)
  <1> DEFINE msp == OrgDelModo(l.fn)
  <1>2. Tipato(stato) /\ CustodiNoti(stato)
    BY BaseNota
  <1>1. /\ l.r \in Reperti /\ f \in File /\ msp \in Msp
        /\ l.fn = "RichiediAnalisi" => l.lab \in Laboratori
    BY <1>2, CampiDelLavoro, FilePassatoNoto, OrgNote DEF ConAllegato
  <1>3. CASE l.fn = "RichiediAnalisi"
    <2>1. RichiediAnalisi(k, tx, msp, l.r, l.lab, f)
      BY <1>3 DEF EseguiWorkflow
    <2> HIDE DEF msp
    <2> DEFINE R == LetturaRichiediAnalisi(stato, l.r)
               w == ScritturaRichiediAnalisi(stato, tx, msp, l.r, l.lab, f)
    <2>2. /\ Approva(k, tx, R, w) /\ AmmetteRichiediAnalisi(stato, msp, l.r) /\ TxNuova(tx)
      BY <2>1 DEF RichiediAnalisi
    <2>3. Scheda(stato, l.r).verbale # tx
      <3>1. RepertoExists(stato, l.r)
        BY <2>2 DEF AmmetteRichiediAnalisi, InStato
      <3> QED  BY <1>1, <3>1, VerbaleNoto, IdAssumption, NilAssumption
    <2>4. Adempie(l, tx, f, w)
      BY <1>1, <1>2, <1>3, <2>2, <2>3, AdempieRichiediAnalisi
    <2>5. ValeRichiediAnalisi(stato, msp, tx, R, w)
      BY <1>1, <1>3, <2>2 DEF ValeRichiediAnalisi
    <2>6. ValeFn(l.fn, stato, msp, tx, R, w)
      BY <1>3, <2>5 DEF ValeFn
    <2>7. Chiamata(k)
      BY <1>1, <1>3, <2>1 DEF Chiamata
    <2> HIDE DEF R, w
    <2> QED  BY <1>1, <2>2, <2>4, <2>6, <2>7 DEF Parte
  <1>4. CASE l.fn = "CompletaAnalisi"
    <2>1. CompletaAnalisi(k, tx, msp, l.r, f)
      BY <1>4 DEF EseguiWorkflow
    <2> HIDE DEF msp
    <2> DEFINE R == LetturaScheda(l.r)
               w == ScritturaCompletaAnalisi(stato, tx, msp, l.r, f)
    <2>2. /\ Approva(k, tx, R, w) /\ AmmetteCompletaAnalisi(stato, msp, l.r) /\ TxNuova(tx)
      BY <2>1 DEF CompletaAnalisi
    <2>3. /\ Scheda(stato, l.r).caso \in Casi /\ Scheda(stato, l.r).custode \in Laboratori
          /\ "RELAZIONE_TECNICA" \in TipiDocumento
      <3>1. Scheda(stato, l.r) \in RepertoPublic
        BY <1>1, <1>2, <2>2, InStatoScheda DEF AmmetteCompletaAnalisi
      <3> QED  BY <1>1, <1>2, <2>2, <3>1 DEF AmmetteCompletaAnalisi, CustodiNoti, RepertoPublic,
                                             TipiDocumento
    <2>4. Adempie(l, tx, f, w)
      BY <1>1, <1>4, <2>3, AdempieConScheda DEF ScritturaCompletaAnalisi
    <2>5. ValeCompletaAnalisi(stato, msp, tx, R, w)
      BY <1>1, <2>2 DEF ValeCompletaAnalisi
    <2>6. ValeFn(l.fn, stato, msp, tx, R, w)
      BY <1>4, <2>5 DEF ValeFn
    <2>7. Chiamata(k)
      BY <1>1, <2>1 DEF Chiamata
    <2> HIDE DEF R, w
    <2> QED  BY <1>1, <2>2, <2>4, <2>6, <2>7 DEF Parte
  <1>5. CASE l.fn = "DepositaInSede"
    <2>1. DepositaInSede(k, tx, msp, l.r, f)
      BY <1>5 DEF EseguiWorkflow
    <2> HIDE DEF msp
    <2> DEFINE R == LetturaDepositaInSede(l.r)
               w == ScritturaDepositaInSede(stato, tx, msp, l.r, f)
    <2>2. /\ Approva(k, tx, R, w) /\ AmmetteDepositaInSede(stato, msp, l.r) /\ TxNuova(tx)
      BY <2>1 DEF DepositaInSede
    <2>3. /\ CasoDelReperto(stato, l.r) \in Casi /\ Privato(stato, l.r).distretto \in Distretti
          /\ "VERBALE_RICONSEGNA" \in TipiDocumento
      <3>1. Scheda(stato, l.r) \in RepertoPublic /\ Privato(stato, l.r) \in RepertoPrivate
        BY <1>1, <1>2, <2>2, InStatoScheda, SchedaTipata DEF AmmetteDepositaInSede
      <3> QED  BY <3>1 DEF CasoDelReperto, RepertoPublic, RepertoPrivate, TipiDocumento, TipiPg
    <2>4. Adempie(l, tx, f, w)
      BY <1>1, <1>5, <2>3, AdempieConScheda DEF ScritturaDepositaInSede
    <2>5. ValeDepositaInSede(stato, msp, tx, R, w)
      BY <1>1, <2>2 DEF ValeDepositaInSede
    <2>6. ValeFn(l.fn, stato, msp, tx, R, w)
      BY <1>5, <2>5 DEF ValeFn
    <2>7. Chiamata(k)
      BY <1>1, <2>1 DEF Chiamata
    <2> HIDE DEF R, w
    <2> QED  BY <1>1, <2>2, <2>4, <2>6, <2>7 DEF Parte
  <1> QED  BY <1>3, <1>4, <1>5 DEF ConAllegato

\* cmd/workflow, the steps that do not.
LEMMA WorkflowParte ==
    ASSUME NEW k, NEW l \in Lavori, l.fn \notin ConAllegato, NEW tx, NEW f,
           EseguiWorkflow(k, tx, l, f)
    PROVE  Parte(k, l, Nil, f) /\ Chiamata(k)
  <1> DEFINE msp == OrgDelModo(l.fn)
  <1>1. msp \in Msp
    BY OrgNote
  <1>2. CASE l.fn = "AvviaTrasporto"
    <2>1. /\ AvviaTrasporto(k, msp, l.r, l.agente)
          /\ l.r \in Reperti /\ l.agente \in Agenti
      BY <1>2, CampiDelLavoro DEF EseguiWorkflow
    <2> HIDE DEF msp
    <2> DEFINE R == LetturaScheda(l.r)
               w == ScritturaAvviaTrasporto(stato, l.r, l.agente)
    <2>2. Approva(k, Nil, R, w) /\ AmmetteAvviaTrasporto(stato, msp, l.r)
      BY <2>1 DEF AvviaTrasporto
    <2>3. Registrati(w) = {} /\ Voci(w) = {}
      BY SoloScheda DEF ScritturaAvviaTrasporto
    <2>4. ValeAvviaTrasporto(stato, msp, Nil, R, w)
      BY <2>1, <2>2 DEF ValeAvviaTrasporto
    <2>5. ValeFn(l.fn, stato, msp, Nil, R, w)
      BY <1>2, <2>4 DEF ValeFn
    <2>6. Chiamata(k)
      BY <1>1, <2>1 DEF Chiamata
    <2> HIDE DEF R, w
    <2>7. Adempie(l, Nil, f, w)
      BY <1>2, <2>3, AdempieScheda
    <2> QED  BY <1>1, <2>2, <2>5, <2>6, <2>7 DEF Parte
  <1>3. CASE l.fn = "RiceviInLaboratorio"
    <2>1. /\ RiceviInLaboratorio(k, msp, l.r, l.lab)
          /\ l.r \in Reperti /\ l.lab \in Laboratori
      BY <1>3, CampiDelLavoro DEF EseguiWorkflow
    <2> HIDE DEF msp
    <2> DEFINE R == LetturaScheda(l.r)
               w == ScritturaRiceviInLaboratorio(stato, l.r, l.lab)
    <2>2. Approva(k, Nil, R, w) /\ AmmetteRiceviInLaboratorio(stato, msp, l.r, l.lab)
      BY <2>1 DEF RiceviInLaboratorio
    <2>3. Registrati(w) = {} /\ Voci(w) = {}
      BY SoloScheda DEF ScritturaRiceviInLaboratorio
    <2>4. ValeRiceviInLaboratorio(stato, msp, Nil, R, w)
      BY <2>1, <2>2 DEF ValeRiceviInLaboratorio
    <2>5. ValeFn(l.fn, stato, msp, Nil, R, w)
      BY <1>3, <2>4 DEF ValeFn
    <2>6. Chiamata(k)
      BY <1>1, <2>1 DEF Chiamata
    <2> HIDE DEF R, w
    <2>7. Adempie(l, Nil, f, w)
      BY <1>3, <2>3, AdempieScheda
    <2> QED  BY <1>1, <2>2, <2>5, <2>6, <2>7 DEF Parte
  <1>4. CASE l.fn = "PreparaRiconsegna"
    <2>1. PreparaRiconsegna(k, msp, l.r) /\ l.r \in Reperti
      BY <1>4, CampiDelLavoro DEF EseguiWorkflow
    <2> HIDE DEF msp
    <2> DEFINE R == LetturaScheda(l.r)
    <2>2. Approva(k, Nil, R, Niente) /\ AmmettePreparaRiconsegna(stato, msp, l.r)
      BY <2>1 DEF PreparaRiconsegna
    <2>3. Registrati(Niente) = {} /\ Voci(Niente) = {}
      BY RegistratiUnione, SchedeEVociUnione
    <2>4. ValePreparaRiconsegna(stato, msp, Nil, R, Niente)
      BY <2>1, <2>2 DEF ValePreparaRiconsegna
    <2>5. ValeFn(l.fn, stato, msp, Nil, R, Niente)
      BY <1>4, <2>4 DEF ValeFn
    <2>6. Chiamata(k)
      BY <1>1, <2>1 DEF Chiamata
    <2> HIDE DEF R
    <2>7. Adempie(l, Nil, f, Niente)
      BY <1>4, <2>3, AdempieScheda
    <2> QED  BY <1>1, <2>2, <2>5, <2>6, <2>7 DEF Parte
  <1> QED  BY <1>2, <1>3, <1>4 DEF EseguiWorkflow, ConAllegato

-----------------------------------------------------------------------------
(* What a call does to the cards.  A function that has changed a card does *)
(* not change it again.                                                    *)

\* A ledger where a call saves a card, or none.
LEMMA DopoSalva ==
    ASSUME NEW s, Tipato(s), NEW w, NEW r \in Reperti
    PROVE  /\ Schede(w) = {} => Scheda(s ++ w, r) = Scheda(s, r)
           /\ \A q, p : Salva(w, q, p) /\ Scheda(s ++ w, r) # Scheda(s, r)
                => r = q /\ Scheda(s ++ w, r) = p
  <1>1. ChiaveReperto(r) \in DOMAIN s /\ ChiaveReperto(r)[1] = "PUB"
    BY ValoriDelleChiavi DEF Tipato, ChiaveReperto
  <1>2. ChiaveReperto(r) \notin Schede(w) => Scheda(s ++ w, r) = Scheda(s, r)
    BY <1>1 DEF Schede, Scheda, ++
  <1>3. ChiaveReperto(r) \in Schede(w) => Scheda(s ++ w, r) = w[ChiaveReperto(r)]
    BY <1>1 DEF Schede, Scheda, ++
  <1>4. \A q : ChiaveReperto(r) = ChiaveReperto(q) => r = q
    BY DEF ChiaveReperto
  <1> QED  BY <1>2, <1>3, <1>4 DEF Salva

\* Cards are not the absent value.
LEMMA SchedaPresente ==
    ASSUME NEW p \in RepertoPublic
    PROVE  p # Nil
  BY NilAssumption

\* Where a call of fn changes a card, it is because fn was not done with it;
\* now it is.
LEMMA SchedaCambiata ==
    ASSUME NEW s, Tipato(s), NEW fn, NEW msp, NEW tx, NEW R, NEW w, ValeFn(fn, s, msp, tx, R, w),
           NEW r \in Reperti, Scheda(s ++ w, r) # Scheda(s, r)
    PROVE  ~Esaurita(fn, Scheda(s, r)) /\ Esaurita(fn, Scheda(s ++ w, r))
  <1> DEFINE Fatto == ~Esaurita(fn, Scheda(s, r)) /\ Esaurita(fn, Scheda(s ++ w, r))
             q == Scheda(s ++ w, r)
  <1>1. CASE fn = "CreaReperto" /\ ValeCreaReperto(s, msp, tx, R, w)
    <2>1. PICK x \in Reperti, priv \in RepertoPrivate :
            AmmetteCreaReperto(s, msp, x) /\ w = ScritturaCreaReperto(x, priv)
      BY <1>1 DEF ValeCreaReperto
    <2> DEFINE a == Scrivi(ChiavePrivatoReperto(x), priv)
    <2>2. Schede(a) = {} /\ w = a ++ SalvaScheda(x, SchedaNuova(priv))
      BY <2>1, SchedeEVociGruppi DEF ChiavePrivatoReperto, ScritturaCreaReperto
    <2> HIDE DEF a
    <2>3. Salva(w, x, SchedaNuova(priv))
      BY <2>2, SchedeEVociGruppi
    <2>4. r = x /\ q = SchedaNuova(priv)
      BY <2>3, DopoSalva
    <2>5. Scheda(s, r) = Nil
      BY <2>1, <2>4 DEF AmmetteCreaReperto, RepertoExists, Scheda
    <2>6. SchedaNuova(priv) \in RepertoPublic
      BY DEF SchedaNuova, RepertoPublic, RepertoPrivate, Stati, AttoONil
    <2> QED  BY <1>1, <2>4, <2>5, <2>6, SchedaPresente DEF Esaurita, StatiDi
  <1>2. CASE fn = "RegistraDocumento" /\ ValeRegistraDocumento(s, msp, tx, R, w)
    <2>1. PICK d \in IdDocumenti, c \in Casi, tipo \in TipiDocumento,
               x \in Reperti \cup {Nil}, f \in File :
            /\ AmmetteRegistraDocumento(s, msp, d, c, tipo, x)
            /\ w = ScritturaRegistraDocumento(s, msp, d, c, tipo, x, f)
      BY <1>2 DEF ValeRegistraDocumento
    <2> DEFINE a == putDocumento(c, d, f, [caso |-> c, reperto |-> x, tipo |-> tipo,
                                           autore |-> msp, ente |-> Nil, chiave |-> f])
               g == aggiornaPuntatoreDocumentoSuReperto(s, x, d, tipo)
               p == IF Scheda(s, x).verbale = Nil
                    THEN [Scheda(s, x) EXCEPT !.verbale = d] ELSE Scheda(s, x)
    <2>2. Schede(a) = {} /\ w = a ++ g
      BY <2>1, SchedeEVociGruppi DEF ScritturaRegistraDocumento
    <2>3. IF x = Nil \/ tipo # "VERBALE_SEQUESTRO" THEN g = Niente ELSE g = SalvaScheda(x, p)
      BY DEF aggiornaPuntatoreDocumentoSuReperto
    <2> HIDE DEF a, g, p
    <2>4. ~(x = Nil \/ tipo # "VERBALE_SEQUESTRO")
      <3> SUFFICES ASSUME g = Niente PROVE FALSE
        BY <2>3
      <3>1. Schede(a ++ g) = Schede(a) \cup Schede(g)
        BY SchedeEVociUnione
      <3>2. Schede(w) = {}
        BY <2>2, <3>1, SchedeEVociUnione
      <3> QED  BY <3>2, DopoSalva
    <2>5. x \in Reperti /\ RepertoExists(s, x)
      BY <2>1, <2>4 DEF AmmetteRegistraDocumento
    <2>6. Scheda(s, x) \in RepertoPublic
      BY <2>5, SchedaTipata
    <2>7. Salva(w, x, p)
      BY <2>2, <2>3, <2>4, SchedeEVociGruppi
    <2>8. r = x /\ q = p
      BY <2>7, DopoSalva
    <2>9. Scheda(s, x).verbale = Nil /\ p = [Scheda(s, x) EXCEPT !.verbale = d]
      BY <2>8 DEF p
    <2>10. p \in RepertoPublic /\ p.verbale = d
      BY <2>6, <2>9 DEF RepertoPublic, AttoONil, IdAtto
    <2>11. d # Nil
      BY NilAssumption
    <2> QED  BY <1>2, <2>8, <2>9, <2>10, <2>11, SchedaPresente DEF Esaurita, StatiDi
  <1>3. CASE fn = "RegistraEvidenza" /\ ValeRegistraEvidenza(s, msp, tx, R, w)
    <2>1. PICK e \in IdEvidenze, c \in Casi, x \in Reperti \cup {Nil}, f \in File :
            w = ScritturaRegistraEvidenza(msp, e, c, x, f)
      BY <1>3 DEF ValeRegistraEvidenza
    <2>2. DOMAIN w \subseteq {ChiaveEvidenza(c, e), ChiaveFile("PG_PM", c, e), ChiaveEviRep(x, e)}
      BY <2>1 DEF ScritturaRegistraEvidenza, ++, Scrivi, Niente
    <2>3. Schede(w) = {}
      BY <2>2 DEF Schede, ChiaveEvidenza, ChiaveFile, ChiaveEviRep
    <2> QED  BY <2>3, DopoSalva
  <1>4. CASE fn = "RichiediAnalisi" /\ ValeRichiediAnalisi(s, msp, tx, R, w)
    <2>1. PICK x \in Reperti, lab \in Laboratori, f \in File :
            /\ AmmetteRichiediAnalisi(s, msp, x) /\ tx \in TxIds
            /\ w = ScritturaRichiediAnalisi(s, tx, msp, x, lab, f)
      BY <1>4 DEF ValeRichiediAnalisi
    <2> DEFINE c == Privato(s, x).caso
               a == registraDocumentoAllegato(tx, msp, c, x, "DECRETO_ACCERTAMENTO", f, lab)
               g == Scrivi(ChiavePrivatoPmLab(x), Privato(s, x))
               h == Scrivi(ChiaveVerbale(s, x, "PM_LAB"), s[ChiaveVerbale(s, x, "PG_PM")])
               p == [Scheda(s, x) EXCEPT !.decreto = tx, !.caso = c, !.lab = lab,
                                         !.stato = "ATTESA_TRASPORTO"]
    <2>2. /\ Scheda(s, x) \in RepertoPublic /\ Scheda(s, x).stato = "SEQUESTRATO" /\ c \in Casi
      BY <2>1, InStatoScheda, LettoPerRichiesta DEF AmmetteRichiediAnalisi
    <2>3. Schede(g) = {} /\ Voci(g) = {} /\ Schede(h) = {} /\ Voci(h) = {}
      BY SchedeEVociGruppi DEF ChiavePrivatoPmLab, ChiaveVerbale, ChiaveFile
    <2>4. w = a ++ (g ++ h) ++ SalvaScheda(x, p)
      BY <2>1, Associa DEF ScritturaRichiediAnalisi
    <2>5. p \in RepertoPublic /\ p.stato = "ATTESA_TRASPORTO"
      BY <2>1, <2>2 DEF RepertoPublic, AttoONil, IdAtto, Stati
    <2> HIDE DEF g, h, p, c
    <2> DEFINE gh == g ++ h
    <2>6. Schede(gh) = {} /\ Voci(gh) = {} /\ w = a ++ gh ++ SalvaScheda(x, p)
      BY <2>3, <2>4, SchedeEVociUnione
    <2> HIDE DEF gh
    <2>7. Salva(w, x, p)
      BY <2>1, <2>2, <2>6, SalvaConAllegato
    <2>8. r = x /\ q = p
      BY <2>7, DopoSalva
    <2> QED  BY <1>4, <2>2, <2>5, <2>8, SchedaPresente DEF Esaurita, StatiDi
  <1>5. CASE fn = "AvviaTrasporto" /\ ValeAvviaTrasporto(s, msp, tx, R, w)
    <2>1. PICK x \in Reperti, agente \in Agenti :
            AmmetteAvviaTrasporto(s, msp, x) /\ w = ScritturaAvviaTrasporto(s, x, agente)
      BY <1>5 DEF ValeAvviaTrasporto
    <2> DEFINE p == [Scheda(s, x) EXCEPT !.stato = "IN_TRANSITO", !.custode = agente]
    <2>2. /\ Scheda(s, x) \in RepertoPublic
          /\ Scheda(s, x).stato \in {"ATTESA_TRASPORTO", "ATTESA_RITIRO"}
      BY <2>1, InStatoScheda DEF AmmetteAvviaTrasporto
    <2>3. p \in RepertoPublic /\ p.stato = "IN_TRANSITO"
      BY <2>2 DEF RepertoPublic, Stati
    <2>4. Salva(w, x, p)
      BY <2>1, SchedeEVociGruppi DEF ScritturaAvviaTrasporto
    <2> HIDE DEF p
    <2>5. r = x /\ q = p
      BY <2>4, DopoSalva
    <2> QED  BY <1>5, <2>2, <2>3, <2>5, SchedaPresente DEF Esaurita, StatiDi
  <1>6. CASE fn = "RiceviInLaboratorio" /\ ValeRiceviInLaboratorio(s, msp, tx, R, w)
    <2>1. PICK x \in Reperti, lab \in Laboratori :
            /\ AmmetteRiceviInLaboratorio(s, msp, x, lab)
            /\ w = ScritturaRiceviInLaboratorio(s, x, lab)
      BY <1>6 DEF ValeRiceviInLaboratorio
    <2> DEFINE p == [Scheda(s, x) EXCEPT !.stato = "IN_ANALISI", !.custode = lab]
    <2>2. Scheda(s, x) \in RepertoPublic /\ Scheda(s, x).stato = "IN_TRANSITO"
      BY <2>1, InStatoScheda DEF AmmetteRiceviInLaboratorio
    <2>3. p \in RepertoPublic /\ p.stato = "IN_ANALISI"
      BY <2>2 DEF RepertoPublic, Stati
    <2>4. Salva(w, x, p)
      BY <2>1, SchedeEVociGruppi DEF ScritturaRiceviInLaboratorio
    <2> HIDE DEF p
    <2>5. r = x /\ q = p
      BY <2>4, DopoSalva
    <2> QED  BY <1>6, <2>2, <2>3, <2>5, SchedaPresente DEF Esaurita, StatiDi
  <1>7. CASE fn = "CompletaAnalisi" /\ ValeCompletaAnalisi(s, msp, tx, R, w)
    <2>1. PICK x \in Reperti, f \in File :
            /\ AmmetteCompletaAnalisi(s, msp, x) /\ tx \in TxIds
            /\ w = ScritturaCompletaAnalisi(s, tx, msp, x, f)
      BY <1>7 DEF ValeCompletaAnalisi
    <2> DEFINE p == [Scheda(s, x) EXCEPT !.relazione = tx, !.stato = "ATTESA_RITIRO"]
    <2>2. /\ Scheda(s, x) \in RepertoPublic /\ Scheda(s, x).stato = "IN_ANALISI"
          /\ Scheda(s, x).caso \in Casi
      <3>1. Scheda(s, x) \in RepertoPublic /\ Scheda(s, x).stato = "IN_ANALISI"
        BY <2>1, InStatoScheda DEF AmmetteCompletaAnalisi
      <3> QED  BY <3>1 DEF RepertoPublic
    <2>3. p \in RepertoPublic /\ p.stato = "ATTESA_RITIRO"
      BY <2>1, <2>2 DEF RepertoPublic, Stati, AttoONil, IdAtto
    <2>4. Salva(w, x, p)
      BY <2>1, <2>2, SalvaConAllegato, SchedeEVociUnione DEF ScritturaCompletaAnalisi
    <2> HIDE DEF p
    <2>5. r = x /\ q = p
      BY <2>4, DopoSalva
    <2> QED  BY <1>7, <2>2, <2>3, <2>5, SchedaPresente DEF Esaurita, StatiDi
  <1>8. CASE fn = "PreparaRiconsegna" /\ ValePreparaRiconsegna(s, msp, tx, R, w)
    BY <1>8, SchedeEVociUnione, DopoSalva DEF ValePreparaRiconsegna
  <1>9. CASE fn = "DepositaInSede" /\ ValeDepositaInSede(s, msp, tx, R, w)
    <2>1. PICK x \in Reperti, f \in File :
            /\ AmmetteDepositaInSede(s, msp, x) /\ tx \in TxIds
            /\ w = ScritturaDepositaInSede(s, tx, msp, x, f)
      BY <1>9 DEF ValeDepositaInSede
    <2> DEFINE p == [Scheda(s, x) EXCEPT !.riconsegna = tx, !.stato = "SEQUESTRATO",
                                         !.custode = Privato(s, x).distretto]
    <2>2. /\ Scheda(s, x) \in RepertoPublic /\ Scheda(s, x).stato = "IN_TRANSITO"
          /\ Privato(s, x) \in RepertoPrivate
      BY <2>1, InStatoScheda, SchedaTipata DEF AmmetteDepositaInSede
    <2>3. CasoDelReperto(s, x) \in Casi /\ Privato(s, x).distretto \in Distretti
      BY <2>2 DEF RepertoPublic, RepertoPrivate, CasoDelReperto
    <2>4. p \in RepertoPublic /\ p.stato = "SEQUESTRATO"
      BY <2>1, <2>2, <2>3 DEF RepertoPublic, Stati, AttoONil, IdAtto
    <2>5. Salva(w, x, p)
      BY <2>1, <2>3, SalvaConAllegato, SchedeEVociUnione DEF ScritturaDepositaInSede
    <2> HIDE DEF p
    <2>6. r = x /\ q = p
      BY <2>5, DopoSalva
    <2> QED  BY <1>9, <2>2, <2>4, <2>6, SchedaPresente DEF Esaurita, StatiDi
  <1> QED  BY <1>1, <1>2, <1>3, <1>4, <1>5, <1>6, <1>7, <1>8, <1>9 DEF ValeFn

-----------------------------------------------------------------------------
(* The invariant is inductive.                                             *)

\* A file nobody knows is not on the ledger.
LEMMA IgnotoNonDepositato ==
    ASSUME NEW f \in File, f \notin FileNoti
    PROVE  NonDepositato(stato, f)
  <1> SUFFICES ASSUME NEW x \in Chiavi, x[1] \in {"DOC", "EVI"}, stato[x] = [cid |-> f]
               PROVE  FALSE
    BY DEF NonDepositato
  <1>1. [cid |-> f] \in FilePublic
    BY DEF FilePublic
  <1>2. stato[x] # Nil /\ stato[x].cid = f
    BY <1>1, NilAssumption
  <1>3. f \in FileDepositati
    BY <1>2 DEF FileDepositati
  <1> QED  BY <1>3 DEF FileNoti

\* The files in the hands of clients and operators are known.
LEMMA FileInMano ==
    /\ \A k \in Canali : attesa[k] # Nil => attesa[k].file \in FileNoti
    /\ \A p \in Pratiche : pratica[p] # Nil => pratica[p].file \in FileNoti
    /\ Nil \in FileNoti
  BY DEF FileNoti

\* What clients and operators hold is present.
LEMMA Presenti ==
    /\ \A p \in Pratiche, f \in File \cup {Nil}, fase \in Fasi :
            [pratica |-> p, file |-> f, fase |-> fase] # Nil
    /\ \A l \in Lavori, f \in File \cup {Nil}, tx \in TxIds \cup {Nil}, esito \in Esiti :
            [lavoro |-> l, esito |-> esito, file |-> f, tx |-> tx] # Nil
  BY LavoriAssumption

\* A given-up attempt does not depend on the last answer.
LEMMA TentativoPratica ==
    ASSUME NEW s, NEW a, NEW v, NEW q, NEW qq, Tentativo(s, a, v, q),
           qq # Nil, qq.lavoro = q.lavoro, a.fase = "abbandonata" \/ qq = q
    PROVE  Tentativo(s, a, v, qq)
  BY DEF Tentativo, Riservato

\* The operator runs a client: a call of its job goes in flight, with a file that
\* either nobody knows or everybody may.
LEMMA AvviaParte ==
    ASSUME P!Base, NEW k \in Canali, NEW p \in Pratiche, NEW l \in Lavori, Avvia(k, p, l)
    PROVE  \E tx \in TxDi(l), f \in FileDi(l) :
            /\ Parte(k, l, tx, f) /\ Chiamata(k)
            /\ attesa' = [attesa EXCEPT
                            ![k] = [pratica |-> p, file |-> f, fase |-> "attende"]]
            /\ pratica' = [pratica EXCEPT
                            ![p] = [lavoro |-> l, esito |-> "nessuno", file |-> f, tx |-> tx]]
  <1>1. PICK tx \in TxDi(l), f \in FileDi(l) :
            /\ EseguiUpload(k, l, f) \/ EseguiWorkflow(k, tx, l, f)
            /\ attesa' = [attesa EXCEPT
                            ![k] = [pratica |-> p, file |-> f, fase |-> "attende"]]
            /\ pratica' = [pratica EXCEPT
                            ![p] = [lavoro |-> l, esito |-> "nessuno", file |-> f, tx |-> tx]]
    BY DEF Avvia
  <1>2. Parte(k, l, tx, f) /\ Chiamata(k)
    <2>1. CASE EseguiUpload(k, l, f)
      BY <2>1, UploadParte
    <2>2. CASE EseguiWorkflow(k, tx, l, f) /\ l.fn \in ConAllegato
      <3>1. tx \in TxIds /\ f \in FilePassati
        BY <2>2 DEF TxDi, FileDi, ConUpload, ConAllegato
      <3> QED  BY <2>2, <3>1, WorkflowAllegatoParte
    <2>3. CASE EseguiWorkflow(k, tx, l, f) /\ l.fn \notin ConAllegato
      <3>1. tx = Nil
        BY <2>3 DEF TxDi
      <3> QED  BY <2>3, <3>1, WorkflowParte
    <2> QED  BY <1>1, <2>1, <2>2, <2>3
  <1> QED  BY <1>1, <1>2

\* The operator runs a client: its call goes in flight.
LEMMA PassoAvvia ==
    ASSUME P!Base, volo = [j \in Canali |-> volo[j]], InvClienti, NEW k \in Canali,
           NEW p \in Pratiche, NEW l \in Lavori, Avvia(k, p, l)
    PROVE  InvClienti' /\ Chiamata(k) /\ stato' = stato
  <1>1. PICK tx \in TxDi(l), f \in FileDi(l) :
            /\ Parte(k, l, tx, f) /\ Chiamata(k)
            /\ attesa' = [attesa EXCEPT
                            ![k] = [pratica |-> p, file |-> f, fase |-> "attende"]]
            /\ pratica' = [pratica EXCEPT
                            ![p] = [lavoro |-> l, esito |-> "nessuno", file |-> f, tx |-> tx]]
    BY AvviaParte
  <1>2. /\ tx \in TxIds \cup {Nil} /\ f \in File \cup {Nil} /\ l \in Lavori
        /\ l.fn \in ConUpload => f \in File \ FileCaricati /\ f \notin FileNoti
        /\ l.fn \notin ConUpload => f = Nil \/ f \in FileCaricati \/ ~NonDepositato(stato, f)
    <2>1. Tipato(stato)
      BY BaseNota
    <2>2. CASE l.fn \in ConUpload
      BY <2>2, FileNuovoIgnoto DEF FileDi, TxDi
    <2>3. CASE l.fn \in ConAllegato /\ l.fn \notin ConUpload
      BY <2>1, <2>3, FilePassatoNoto DEF FileDi, TxDi
    <2>4. CASE l.fn \notin ConAllegato /\ l.fn \notin ConUpload
      BY <2>4 DEF FileDi, TxDi
    <2> QED  BY <2>2, <2>3, <2>4
  <1>3. Parte(k, l, tx, f) /\ Chiamata(k)
    BY <1>1
  <1>4. PICK msp \in Msp : \E R, w :
            /\ ValeFn(l.fn, stato, msp, tx, R, w) /\ Adempie(l, tx, f, w)
            /\ Approva(k, tx, R, w)
    BY <1>3 DEF Parte
  <1>5. PICK R, w :
            /\ ValeFn(l.fn, stato, msp, tx, R, w) /\ Adempie(l, tx, f, w)
            /\ Approva(k, tx, R, w)
    BY <1>4
  <1> DEFINE a == [pratica |-> p, file |-> f, fase |-> "attende"]
             q == [lavoro |-> l, esito |-> "nessuno", file |-> f, tx |-> tx]
             v == [tx |-> tx, letture |-> R, scritture |-> w, fresca |-> TRUE]
  <1>6. /\ a # Nil /\ a.pratica = p /\ a.file = f /\ a.fase = "attende"
        /\ a = [pratica |-> a.pratica, file |-> a.file, fase |-> a.fase]
        /\ q # Nil /\ q.lavoro = l /\ q.esito = "nessuno" /\ q.file = f /\ q.tx = tx
        /\ q = [lavoro |-> q.lavoro, esito |-> q.esito, file |-> q.file, tx |-> q.tx]
        /\ v.tx = tx /\ v.letture = R /\ v.scritture = w
    <2>1. "attende" \in Fasi /\ "nessuno" \in Esiti
      BY DEF Fasi, Esiti
    <2>2. a # Nil
      BY <1>2, <2>1, Presenti
    <2>3. q # Nil
      BY <1>2, <2>1, Presenti
    <2> QED  BY <2>2, <2>3
  <1>7. /\ stato' = stato /\ attesa[k] = Nil /\ ultima' = ultima
        /\ volo' = [j \in Canali |-> IF j = k THEN v ELSE volo[j]]
        /\ attesa' = [j \in Canali |-> IF j = k THEN a ELSE attesa[j]]
        /\ pratica' = [x \in Pratiche |-> IF x = p THEN q ELSE pratica[x]]
        /\ pratica[p] # Nil => pratica[p].lavoro = l /\ ~InCorso(p)
    BY <1>1, <1>5 DEF InvClienti, Approva, Avvia
  <1> HIDE DEF a, q, v
  <1>8. \A j \in Canali : attesa[j] # Nil => TentativoInOrdine(j)
    BY DEF InvClienti
  <1>9. ASSUME NEW j \in Canali, attesa[j] # Nil, attesa[j].pratica = p
        PROVE  attesa[j].fase = "abbandonata" /\ pratica[p] # Nil /\ pratica[p].lavoro = l
    <2>1. pratica[p] # Nil
      BY <1>8, <1>9 DEF TentativoInOrdine, Tentativo
    <2> QED  BY <1>7, <1>9, <2>1 DEF InCorso, CanaliDi
  <1>10. Tentativo(stato, a, v, q)
    <2>1. l.fn \in ConUpload => NonDepositato(stato, a.file)
      BY <1>2, <1>6, IgnotoNonDepositato
    <2> QED  BY <1>2, <1>5, <1>6, <2>1 DEF Tentativo, Riservato, Fasi
  <1>11. ASSUME NEW j \in Canali, attesa'[j] # Nil PROVE TentativoInOrdine(j)'
    <2>1. CASE j = k
      BY <1>6, <1>7, <1>10, <2>1 DEF TentativoInOrdine
    <2>2. CASE j # k
      <3>1. attesa'[j] = attesa[j] /\ volo'[j] = volo[j] /\ attesa[j] # Nil
        BY <1>7, <1>11, <2>2
      <3>2. Tentativo(stato, attesa[j], volo[j], pratica[attesa[j].pratica])
        BY <1>8, <3>1 DEF TentativoInOrdine
      <3>3. attesa[j].pratica \in Pratiche
        BY <3>2 DEF Tentativo
      <3>4. CASE attesa[j].pratica = p
        <4>1. pratica'[attesa[j].pratica] = q /\ q.lavoro = pratica[attesa[j].pratica].lavoro
          BY <1>6, <1>7, <1>9, <3>1, <3>4
        <4>2. Tentativo(stato, attesa[j], volo[j], q)
          BY <1>6, <1>9, <3>1, <3>2, <3>4, <4>1, TentativoPratica
        <4> QED  BY <1>7, <3>1, <4>1, <4>2 DEF TentativoInOrdine
      <3>5. CASE attesa[j].pratica # p
        <4>1. pratica'[attesa[j].pratica] = pratica[attesa[j].pratica]
          BY <1>7, <3>3, <3>5
        <4> QED  BY <1>7, <3>1, <3>2, <4>1 DEF TentativoInOrdine
      <3> QED  BY <3>4, <3>5
    <2> QED  BY <2>1, <2>2
  <1>12. ASSUME NEW x \in Pratiche, pratica'[x] # Nil PROVE PraticaInOrdine(x)'
    <2>1. CASE x = p
      BY <1>2, <1>6, <1>7, <2>1 DEF PraticaInOrdine
    <2>2. CASE x # p
      <3>1. pratica'[x] = pratica[x] /\ PraticaInOrdine(x)
        BY <1>7, <1>12, <2>2 DEF InvClienti
      <3>2. \A j \in Canali : attesa'[j] # Nil /\ attesa'[j] # attesa[j] => attesa'[j].file = f
        BY <1>6, <1>7
      <3>3. pratica[x].file \in FileNoti
        BY <1>12, <3>1, FileInMano
      <3>4. pratica[x].lavoro.fn \in ConUpload /\ pratica[x].esito = "non_valida" =>
                pratica[x].file # f
        BY <1>2, <3>1, <3>3, NilAssumption DEF PraticaInOrdine
      <3> QED  BY <1>7, <3>1, <3>2, <3>4 DEF PraticaInOrdine
    <2> QED  BY <2>1, <2>2
  <1>13. ClientiDistinti'
    <2> SUFFICES ASSUME NEW i \in Canali, NEW j \in Canali, i # j,
                        attesa'[i] # Nil, attesa'[j] # Nil
                 PROVE  /\ \/ attesa'[i].fase = "abbandonata" \/ attesa'[j].fase = "abbandonata"
                           \/ attesa'[i].pratica # attesa'[j].pratica
                        /\ Riservato(attesa'[j], pratica'[attesa'[j].pratica]) =>
                                attesa'[i].file # attesa'[j].file
      BY DEF ClientiDistinti
    <2>1. CASE i = k
      <3>1. attesa'[i] = a /\ attesa'[j] = attesa[j] /\ attesa[j].file \in FileNoti
        BY <1>7, <2>1, FileInMano
      <3>2. ASSUME Riservato(attesa[j], pratica'[attesa[j].pratica]) PROVE f # attesa[j].file
        <4>1. Tentativo(stato, attesa[j], volo[j], pratica'[attesa[j].pratica])
          BY <1>7, <1>11, <2>1, <3>1 DEF TentativoInOrdine
        <4>2. attesa[j].file \in File \ FileCaricati /\ NonDepositato(stato, attesa[j].file)
          BY <3>2, <4>1 DEF Tentativo, Riservato
        <4> QED  BY <1>2, <3>1, <4>2, NilAssumption
      <3> QED  BY <1>6, <1>7, <1>9, <3>1, <3>2
    <2>2. CASE j = k
      <3>1. attesa'[j] = a /\ attesa'[i] = attesa[i] /\ attesa[i].file \in FileNoti
        BY <1>7, <2>2, FileInMano
      <3>2. pratica'[a.pratica] = q
        BY <1>6, <1>7
      <3> QED  BY <1>2, <1>6, <1>7, <1>9, <3>1, <3>2 DEF Riservato
    <2>3. CASE i # k /\ j # k
      <3>1. attesa'[i] = attesa[i] /\ attesa'[j] = attesa[j]
        BY <1>7, <2>3
      <3>2. pratica'[attesa[j].pratica].lavoro = pratica[attesa[j].pratica].lavoro
        <4>1. attesa[j].pratica \in Pratiche
          BY <1>8, <3>1 DEF TentativoInOrdine, Tentativo
        <4> QED  BY <1>6, <1>7, <1>9, <3>1, <4>1
      <3> QED  BY <3>1, <3>2 DEF InvClienti, ClientiDistinti, Riservato
    <2> QED  BY <2>1, <2>2, <2>3
  <1>14. ASSUME NEW r \in Reperti, ultima'[r] # Nil PROVE UltimaInOrdine(r)'
    <2>1. UltimaInOrdine(r)
      BY <1>7, <1>14 DEF InvClienti
    <2>2. pratica'[ultima[r]] # Nil /\ pratica'[ultima[r]].lavoro = pratica[ultima[r]].lavoro
      BY <1>6, <1>7, <2>1 DEF UltimaInOrdine
    <2> QED  BY <1>7, <2>1, <2>2 DEF UltimaInOrdine
  <1>15. \A j \in Canali : attesa'[j] = Nil => volo'[j] = Nil
    BY <1>6, <1>7 DEF InvClienti
  <1>16. ultima' = [r \in Reperti |-> ultima'[r]]
    BY <1>7 DEF InvClienti
  <1>17. InvClienti'
    BY <1>7, <1>11, <1>12, <1>13, <1>14, <1>15, <1>16 DEF InvClienti
  <1> QED  BY <1>3, <1>7, <1>17

\* A call of a function depends on nothing but the keys it reads.
LEMMA BastaAllaFunzione ==
    ASSUME NEW fn, NEW s, NEW t, NEW msp, NEW tx, NEW R, NEW w, \A x \in R : t[x] = s[x],
           ValeFn(fn, s, msp, tx, R, w)
    PROVE  ValeFn(fn, t, msp, tx, R, w)
  BY LetturaDiOgnuna DEF ValeFn

\* A call with another file leaves a file off the ledger.
LEMMA NonDepositatoResta ==
    ASSUME NEW s, Tipato(s), NEW w, NEW f, NEW g, NonDepositato(s, f),
           \A x \in Registrati(w) : w[x] = [cid |-> g], f # g
    PROVE  NonDepositato(s ++ w, f)
  <1> SUFFICES ASSUME NEW x \in Chiavi, x[1] \in {"DOC", "EVI"} PROVE (s ++ w)[x] # [cid |-> f]
    BY DEF NonDepositato
  <1>1. x \in DOMAIN s /\ s[x] # [cid |-> f]
    BY DEF Tipato, NonDepositato
  <1>2. CASE x \in DOMAIN w
    <2>1. (s ++ w)[x] = w[x] /\ w[x] = [cid |-> g]
      BY <1>2 DEF ++, Registrati
    <2>2. [cid |-> g].cid = g /\ [cid |-> f].cid = f
      OBVIOUS
    <2> QED  BY <2>1, <2>2
  <1>3. CASE x \notin DOMAIN w
    BY <1>1, <1>3 DEF ++
  <1> QED  BY <1>2, <1>3

\* An attempt after another call was committed.
LEMMA TentativoDopo ==
    ASSUME NEW s, Tipato(s), NEW w, NEW g, \A x \in Registrati(w) : w[x] = [cid |-> g],
           NEW a, NEW v, NEW q, Tentativo(s, a, v, q), Riservato(a, q) => a.file # g,
           v # Nil => /\ v = [tx |-> v.tx, letture |-> v.letture, scritture |-> v.scritture,
                              fresca |-> v.fresca]
                      /\ v.letture \subseteq Chiavi,
           NEW vv, vv = IF v = Nil THEN Nil
                        ELSE [v EXCEPT !.fresca = v.fresca /\ v.letture \cap DOMAIN w = {}]
    PROVE  Tentativo(s ++ w, a, vv, q)
  <1> DEFINE libera == v.fresca /\ v.letture \cap DOMAIN w = {}
             u == [tx |-> v.tx, letture |-> v.letture, scritture |-> v.scritture,
                   fresca |-> libera]
  <1>1. Riservato(a, q) => NonDepositato(s ++ w, a.file)
    BY NonDepositatoResta DEF Tentativo
  <1>2. CASE v = Nil
    BY <1>1, <1>2 DEF Tentativo
  <1>3. CASE v # Nil
    <2>1. vv = u
      BY <1>3
    <2>2. /\ u.tx = v.tx /\ u.letture = v.letture /\ u.scritture = v.scritture
          /\ u.fresca = libera
      OBVIOUS
    <2>3. ASSUME libera
          PROVE  \E msp \in Msp : ValeFn(q.lavoro.fn, s ++ w, msp, v.tx, v.letture, v.scritture)
      <3>1. v.fresca
        BY <2>3
      <3>2. PICK msp \in Msp : ValeFn(q.lavoro.fn, s, msp, v.tx, v.letture, v.scritture)
        BY <1>3, <3>1 DEF Tentativo
      <3>3. \A x \in v.letture : (s ++ w)[x] = s[x]
        <4>1. v.letture \cap DOMAIN w = {}
          BY <2>3
        <4> QED  BY <1>3, <4>1 DEF ++, Tipato
      <3>4. ValeFn(q.lavoro.fn, s ++ w, msp, v.tx, v.letture, v.scritture)
        BY <3>2, <3>3, BastaAllaFunzione
      <3> QED  BY <3>4
    <2> HIDE DEF libera, u
    <2>4. u # Nil /\ u.fresca =>
            \E msp \in Msp : ValeFn(q.lavoro.fn, s ++ w, msp, u.tx, u.letture, u.scritture)
      BY <2>2, <2>3
    <2>5. Tentativo(s ++ w, a, u, q)
      BY <1>1, <1>3, <2>2, <2>4 DEF Tentativo
    <2> QED  BY <2>1, <2>5
  <1> QED  BY <1>2, <1>3

\* What the commit of the call in slot k is, for a client and the others.
LEMMA ConfermaDi ==
    ASSUME InvFabric, InvClienti, NEW k \in Canali, Valida(k)
    PROVE  LET w == volo[k].scritture
               q == pratica[attesa[k].pratica]
           IN  /\ attesa[k] # Nil /\ TentativoInOrdine(k) /\ Tipato(stato) /\ stato' = stato ++ w
               /\ Adempie(q.lavoro, volo[k].tx, attesa[k].file, w)
               /\ \E msp \in Msp : ValeFn(q.lavoro.fn, stato, msp, volo[k].tx, volo[k].letture, w)
               /\ pratica' = pratica
               /\ attesa' = [j \in Canali |->
                                IF j # k THEN attesa[j]
                                ELSE IF attesa[k].fase = "attende"
                                THEN [attesa[k] EXCEPT !.fase = "valida"] ELSE Nil]
               /\ volo'[k] = Nil
               /\ \A j \in Canali \ {k} :
                    volo'[j] = IF volo[j] = Nil THEN Nil
                               ELSE [volo[j] EXCEPT !.fresca =
                                        volo[j].fresca /\ volo[j].letture \cap DOMAIN w = {}]
  <1>1. /\ volo[k] # Nil /\ volo[k].fresca /\ stato' = stato ++ volo[k].scritture
        /\ volo' = DopoConferma(k, volo[k].scritture) /\ pratica' = pratica
    BY DEF Valida, Conferma
  <1>2. attesa[k] # Nil /\ TentativoInOrdine(k)
    BY <1>1 DEF InvClienti
  <1>3. Tipato(stato)
    BY BaseNota DEF InvFabric
  <1>4. attesa' = [j \in Canali |->
                    IF j # k THEN attesa[j]
                    ELSE IF attesa[k].fase = "attende"
                    THEN [attesa[k] EXCEPT !.fase = "valida"] ELSE Nil]
    BY DEF Valida, StatoNoto, InvClienti
  <1>5. volo'[k] = Nil
    BY <1>1 DEF DopoConferma
  <1>6. ASSUME NEW j \in Canali \ {k}
        PROVE  volo'[j] = IF volo[j] = Nil THEN Nil
                          ELSE [volo[j] EXCEPT !.fresca = volo[j].fresca
                                    /\ volo[j].letture \cap DOMAIN volo[k].scritture = {}]
    <2>1. volo[j] # Nil => volo[j] = [tx |-> volo[j].tx, letture |-> volo[j].letture,
                                      scritture |-> volo[j].scritture,
                                      fresca |-> volo[j].fresca]
      BY DEF InvFabric, ChiamataInVolo
    <2> QED  BY <1>1, <1>6, <2>1 DEF DopoConferma
  <1> QED  BY <1>1, <1>2, <1>3, <1>4, <1>5, <1>6 DEF TentativoInOrdine, Tentativo

\* A call is committed; its client, if it still waits, learns it.
LEMMA PassoValida ==
    ASSUME InvFabric, InvClienti, NEW k \in Canali, Valida(k)
    PROVE  /\ InvClienti'
           /\ \A r \in Reperti : stato'[ChiaveReperto(r)] # stato[ChiaveReperto(r)] =>
                ultima'[r] # Nil /\ ultima'[r] # ultima[r]
  <1> DEFINE w == volo[k].scritture
             a == attesa[k]
             q == pratica[a.pratica]
  <1>1. /\ a # Nil /\ TentativoInOrdine(k) /\ Tipato(stato) /\ stato' = stato ++ w
        /\ Adempie(q.lavoro, volo[k].tx, a.file, w)
        /\ \E msp \in Msp : ValeFn(q.lavoro.fn, stato, msp, volo[k].tx, volo[k].letture, w)
        /\ pratica' = pratica
        /\ attesa' = [j \in Canali |->
                        IF j # k THEN attesa[j]
                        ELSE IF a.fase = "attende" THEN [a EXCEPT !.fase = "valida"] ELSE Nil]
        /\ volo'[k] = Nil
        /\ \A j \in Canali \ {k} :
                volo'[j] = IF volo[j] = Nil THEN Nil
                           ELSE [volo[j] EXCEPT !.fresca =
                                    volo[j].fresca /\ volo[j].letture \cap DOMAIN w = {}]
    BY ConfermaDi
  <1>2. ultima' = [r \in Reperti |-> IF stato'[ChiaveReperto(r)] # stato[ChiaveReperto(r)]
                                     THEN a.pratica ELSE ultima[r]]
    BY DEF Valida
  <1>3. \A x \in Registrati(w) : w[x] = [cid |-> a.file]
    BY <1>1 DEF Adempie
  <1>4. \A j \in Canali : attesa[j] # Nil => TentativoInOrdine(j)
    BY DEF InvClienti
  <1>5. Tentativo(stato, a, volo[k], q)
    BY <1>1 DEF TentativoInOrdine
  <1>6. /\ a = [pratica |-> a.pratica, file |-> a.file, fase |-> a.fase]
        /\ a.pratica \in Pratiche /\ q # Nil
    BY <1>5 DEF Tentativo
  <1>7. ASSUME attesa'[k] # Nil
        PROVE  /\ a.fase = "attende" /\ attesa'[k].fase = "valida"
               /\ attesa'[k].pratica = a.pratica /\ attesa'[k].file = a.file
               /\ attesa'[k] = [pratica |-> a.pratica, file |-> a.file, fase |-> "valida"]
    BY <1>1, <1>6, <1>7
  <1>8. \A j \in Canali \ {k} : attesa'[j] = attesa[j]
    BY <1>1
  <1>9. \A j \in Canali \ {k} :
            attesa[j] # Nil /\ Riservato(attesa[j], pratica[attesa[j].pratica]) =>
                attesa[j].file # a.file
    BY <1>1 DEF InvClienti, ClientiDistinti
  <1> HIDE DEF w, a, q
  <1>10. ASSUME NEW j \in Canali, attesa'[j] # Nil PROVE TentativoInOrdine(j)'
    <2>1. CASE j = k
      <3>1. Tentativo(stato', attesa'[k], Nil, q)
        BY <1>5, <1>7, <1>10, <2>1 DEF Tentativo, Riservato, Fasi
      <3>2. pratica'[attesa'[k].pratica] = q /\ volo'[k] = Nil
        BY <1>1, <1>7, <1>10, <2>1 DEF q
      <3> QED  BY <2>1, <3>1, <3>2 DEF TentativoInOrdine
    <2>2. CASE j # k
      <3> DEFINE b == attesa[j]
                 v == volo[j]
                 p == pratica[b.pratica]
                 vv == volo'[j]
      <3>1. attesa'[j] = b /\ b # Nil
        BY <1>8, <1>10, <2>2
      <3>2. Tentativo(stato, b, v, p)
        BY <1>4, <3>1 DEF TentativoInOrdine
      <3>3. Riservato(b, p) => b.file # a.file
        BY <1>9, <2>2, <3>1
      <3>4. v # Nil => /\ v = [tx |-> v.tx, letture |-> v.letture, scritture |-> v.scritture,
                               fresca |-> v.fresca]
                       /\ v.letture \subseteq Chiavi
        BY DEF InvFabric, ChiamataInVolo
      <3>5. vv = IF v = Nil THEN Nil
                 ELSE [v EXCEPT !.fresca = v.fresca /\ v.letture \cap DOMAIN w = {}]
        BY <1>1, <2>2
      <3>6. pratica'[b.pratica] = p
        BY <1>1
      <3>7. TentativoInOrdine(j)' = Tentativo(stato', b, vv, p)
        BY <3>1, <3>6 DEF TentativoInOrdine
      <3> HIDE DEF b, v, p, vv
      <3>8. Tentativo(stato ++ w, b, vv, p)
        BY <1>1, <1>3, <3>2, <3>3, <3>4, <3>5, TentativoDopo
      <3> QED  BY <1>1, <3>7, <3>8
    <2> QED  BY <2>1, <2>2
  <1>11. ASSUME NEW p \in Pratiche, pratica'[p] # Nil PROVE PraticaInOrdine(p)'
    <2>1. pratica'[p] = pratica[p] /\ PraticaInOrdine(p)
      BY <1>1, <1>11 DEF InvClienti
    <2>2. ASSUME pratica[p].esito = "non_valida", pratica[p].lavoro.fn \in ConUpload
          PROVE  /\ NonDepositato(stato', pratica[p].file)
                 /\ \A j \in Canali : attesa'[j] # Nil => attesa'[j].file # pratica[p].file
      <3>1. /\ NonDepositato(stato, pratica[p].file)
            /\ \A j \in Canali : attesa[j] # Nil => attesa[j].file # pratica[p].file
        BY <2>1, <2>2 DEF PraticaInOrdine
      <3>2. pratica[p].file # a.file
        BY <1>1, <3>1 DEF a
      <3>3. NonDepositato(stato', pratica[p].file)
        BY <1>1, <1>3, <3>1, <3>2, NonDepositatoResta
      <3> QED  BY <1>7, <1>8, <3>1, <3>2, <3>3
    <2> QED  BY <2>1, <2>2 DEF PraticaInOrdine
  <1>12. ClientiDistinti'
    <2> SUFFICES ASSUME NEW i \in Canali, NEW j \in Canali, i # j,
                        attesa'[i] # Nil, attesa'[j] # Nil
                 PROVE  /\ \/ attesa'[i].fase = "abbandonata" \/ attesa'[j].fase = "abbandonata"
                           \/ attesa'[i].pratica # attesa'[j].pratica
                        /\ Riservato(attesa'[j], pratica'[attesa'[j].pratica]) =>
                                attesa'[i].file # attesa'[j].file
      BY DEF ClientiDistinti
    <2>1. ASSUME NEW x \in Canali, attesa'[x] # Nil
          PROVE  /\ attesa[x] # Nil /\ attesa'[x].pratica = attesa[x].pratica
                 /\ attesa'[x].file = attesa[x].file
                 /\ attesa[x].fase = "abbandonata" => attesa'[x].fase = "abbandonata"
                 /\ attesa'[x].fase # "valida" => attesa[x].fase # "valida"
      BY <1>1, <1>7, <1>8, <2>1 DEF a
    <2>2. /\ \/ attesa[i].fase = "abbandonata" \/ attesa[j].fase = "abbandonata"
             \/ attesa[i].pratica # attesa[j].pratica
          /\ Riservato(attesa[j], pratica[attesa[j].pratica]) =>
                attesa[i].file # attesa[j].file
      BY <2>1 DEF InvClienti, ClientiDistinti
    <2> QED  BY <1>1, <2>1, <2>2 DEF Riservato
  <1>13. PICK msp \in Msp : ValeFn(q.lavoro.fn, stato, msp, volo[k].tx, volo[k].letture, w)
    BY <1>1
  <1>14. ASSUME NEW r \in Reperti, stato'[ChiaveReperto(r)] # stato[ChiaveReperto(r)]
         PROVE  /\ ~Esaurita(q.lavoro.fn, Scheda(stato, r))
                /\ Esaurita(q.lavoro.fn, Scheda(stato', r))
    <2>1. Scheda(stato ++ w, r) # Scheda(stato, r)
      BY <1>1, <1>14 DEF Scheda
    <2>2. /\ ~Esaurita(q.lavoro.fn, Scheda(stato, r))
          /\ Esaurita(q.lavoro.fn, Scheda(stato ++ w, r))
      BY <1>1, <1>13, <2>1, SchedaCambiata
    <2> QED  BY <1>1, <2>2
  <1>15. ASSUME NEW r \in Reperti, ultima'[r] # Nil PROVE UltimaInOrdine(r)'
    <2>1. CASE stato'[ChiaveReperto(r)] # stato[ChiaveReperto(r)]
      <3>1. ultima'[r] = a.pratica /\ pratica'[a.pratica] = q
        BY <1>1, <1>2, <2>1 DEF q
      <3> QED  BY <1>6, <1>14, <2>1, <3>1 DEF UltimaInOrdine
    <2>2. CASE stato'[ChiaveReperto(r)] = stato[ChiaveReperto(r)]
      <3>1. ultima'[r] = ultima[r] /\ UltimaInOrdine(r)
        BY <1>2, <1>15, <2>2 DEF InvClienti
      <3> QED  BY <1>1, <2>2, <3>1 DEF UltimaInOrdine, Scheda
    <2> QED  BY <2>1, <2>2
  <1>16. ASSUME NEW r \in Reperti, stato'[ChiaveReperto(r)] # stato[ChiaveReperto(r)]
         PROVE  ultima'[r] # Nil /\ ultima'[r] # ultima[r]
    <2>1. ultima'[r] = a.pratica /\ a.pratica # Nil
      BY <1>2, <1>6, <1>16, LavoriAssumption
    <2>2. ultima[r] # Nil => Esaurita(pratica[ultima[r]].lavoro.fn, Scheda(stato, r))
      BY DEF InvClienti, UltimaInOrdine
    <2> QED  BY <1>14, <1>16, <2>1, <2>2 DEF q
  <1>17. \A j \in Canali : attesa'[j] = Nil => volo'[j] = Nil
    BY <1>1, <1>8 DEF InvClienti
  <1>18. /\ pratica' = [p \in Pratiche |-> pratica'[p]]
         /\ attesa' = [j \in Canali |-> attesa'[j]]
         /\ ultima' = [r \in Reperti |-> ultima'[r]]
    <2>1. pratica = [p \in Pratiche |-> pratica[p]]
      BY DEF InvClienti
    <2> QED  BY <1>1, <1>2, <2>1
  <1>19. InvClienti'
    BY <1>10, <1>11, <1>12, <1>15, <1>17, <1>18 DEF InvClienti
  <1> QED  BY <1>16, <1>19

\* The client in slot k ends with answer e, z is what is left of it: the other
\* clients of the same Pratica are given up, and their attempts stand as they did.
LEMMA PassoRisposta ==
    ASSUME InvClienti, NEW k \in Canali, attesa[k] # Nil, attesa[k].fase # "abbandonata",
           NEW e \in Esiti, Risposta(attesa[k].pratica, e), UNCHANGED <<vars, ultima>>,
           NEW z, attesa' = [attesa EXCEPT ![k] = z],
           \/ z = Nil /\ volo[k] = Nil
           \/ /\ volo[k] # Nil
              /\ z = [pratica |-> attesa[k].pratica, file |-> attesa[k].file,
                      fase |-> "abbandonata"],
           e = "non_valida" => z = Nil /\ attesa[k].fase # "valida"
    PROVE  InvClienti'
  <1> DEFINE a == attesa[k]
             p == a.pratica
             q == pratica[p]
             qq == [lavoro |-> q.lavoro, esito |-> e, file |-> q.file, tx |-> q.tx]
  <1>1. /\ stato' = stato /\ volo' = volo /\ ultima' = ultima
        /\ attesa' = [j \in Canali |-> IF j = k THEN z ELSE attesa[j]]
    BY DEF InvClienti, vars
  <1>2. \A j \in Canali : attesa[j] # Nil => TentativoInOrdine(j)
    BY DEF InvClienti
  <1>3. Tentativo(stato, a, volo[k], q)
    BY <1>2 DEF TentativoInOrdine
  <1>4. p \in Pratiche /\ q # Nil /\ q.file = a.file /\ a.file \in File \cup {Nil}
    BY <1>3 DEF Tentativo
  <1>5. PraticaInOrdine(p)
    BY <1>4 DEF InvClienti
  <1>6. /\ q = [lavoro |-> q.lavoro, esito |-> q.esito, file |-> q.file, tx |-> q.tx]
        /\ q.lavoro \in Lavori /\ q.file \in File \cup {Nil} /\ q.tx \in TxIds \cup {Nil}
        /\ q.lavoro.fn \in ConUpload => q.file \in File \ FileCaricati
    BY <1>5 DEF PraticaInOrdine
  <1>7. /\ qq # Nil /\ qq.lavoro = q.lavoro /\ qq.esito = e /\ qq.file = q.file /\ qq.tx = q.tx
        /\ qq = [lavoro |-> qq.lavoro, esito |-> qq.esito, file |-> qq.file, tx |-> qq.tx]
    BY <1>6, Presenti
  <1>8. pratica' = [x \in Pratiche |-> IF x = p THEN qq ELSE pratica[x]]
    <2>1. pratica = [x \in Pratiche |-> pratica[x]]
      BY DEF InvClienti
    <2>2. pratica' = [pratica EXCEPT ![p].esito = e]
      BY DEF Risposta
    <2>3. [q EXCEPT !.esito = e] = qq
      BY <1>6
    <2>4. pratica' = [pratica EXCEPT ![p] = [q EXCEPT !.esito = e]]
      BY <2>2
    <2> HIDE DEF q, qq, p
    <2> QED  BY <2>1, <2>3, <2>4
  <1>9. z # Nil => /\ z.pratica = p /\ z.file = a.file /\ z.fase = "abbandonata"
                   /\ volo[k] # Nil
                   /\ z = [pratica |-> z.pratica, file |-> z.file, fase |-> z.fase]
    OBVIOUS
  <1>10. \A j \in Canali \ {k} : attesa[j] # Nil =>
            /\ attesa[j].pratica = p => attesa[j].fase = "abbandonata"
            /\ Riservato(a, q) => attesa[j].file # a.file
    BY DEF InvClienti, ClientiDistinti
  <1>11. e = "non_valida" => z = Nil /\ a.fase # "valida"
    OBVIOUS
  <1>12. z = Nil => volo[k] = Nil
    <2>1. [pratica |-> a.pratica, file |-> a.file, fase |-> "abbandonata"] # Nil
      BY <1>4, Presenti DEF Fasi
    <2> QED  BY <2>1
  <1> HIDE DEF a, q, qq, p
  <1>nv. z # Nil => a.fase # "valida"
    BY <1>3, <1>9 DEF Tentativo
  <1>13. z # Nil => Tentativo(stato, z, volo[k], qq)
    BY <1>3, <1>7, <1>9, <1>4, <1>nv DEF Tentativo, Riservato, Fasi
  <1>14. ASSUME NEW j \in Canali, attesa'[j] # Nil PROVE TentativoInOrdine(j)'
    <2>1. CASE j = k
      <3>1. attesa'[j] = z /\ z # Nil /\ pratica'[z.pratica] = qq
        BY <1>1, <1>4, <1>8, <1>9, <1>14, <2>1
      <3> QED  BY <1>1, <1>13, <2>1, <3>1 DEF TentativoInOrdine
    <2>2. CASE j # k
      <3> DEFINE b == attesa[j]
                 o == pratica[b.pratica]
      <3>1. attesa'[j] = b /\ b # Nil
        BY <1>1, <1>14, <2>2
      <3>2. Tentativo(stato, b, volo[j], o)
        BY <1>2, <3>1 DEF TentativoInOrdine
      <3>3. b.pratica \in Pratiche
        BY <3>2 DEF Tentativo
      <3>4. CASE b.pratica = p
        <4>1. pratica'[b.pratica] = qq /\ o = q
          BY <1>8, <3>3, <3>4 DEF q
        <4>2. b.fase = "abbandonata"
          BY <1>10, <2>2, <3>1, <3>4
        <4>3. Tentativo(stato, b, volo[j], qq)
          BY <1>7, <3>2, <4>1, <4>2, TentativoPratica
        <4> QED  BY <1>1, <3>1, <4>1, <4>3 DEF TentativoInOrdine
      <3>5. CASE b.pratica # p
        BY <1>1, <1>8, <3>1, <3>2, <3>3, <3>5 DEF TentativoInOrdine
      <3> QED  BY <3>4, <3>5
    <2> QED  BY <2>1, <2>2
  <1>15. ASSUME NEW x \in Pratiche, pratica'[x] # Nil PROVE PraticaInOrdine(x)'
    <2>1. \A j \in Canali : attesa'[j] # Nil =>
            attesa[j] # Nil /\ attesa'[j].file = attesa[j].file
      BY <1>1, <1>9 DEF a
    <2>2. CASE x = p
      <3>1. pratica'[x] = qq
        BY <1>8, <2>2
      <3>2. ASSUME e = "non_valida", q.lavoro.fn \in ConUpload
            PROVE  /\ NonDepositato(stato, q.file)
                   /\ \A j \in Canali : attesa'[j] # Nil => attesa'[j].file # q.file
        <4>1. NonDepositato(stato, q.file)
          BY <1>3, <1>4, <1>11, <3>2 DEF Tentativo, Riservato
        <4>2. attesa'[k] = Nil
          BY <1>1, <1>11, <3>2
        <4> QED  BY <1>4, <1>10, <1>11, <2>1, <3>2, <4>1, <4>2 DEF Riservato
      <3> QED  BY <1>1, <1>6, <1>7, <3>1, <3>2 DEF PraticaInOrdine
    <2>3. CASE x # p
      <3>1. pratica'[x] = pratica[x] /\ PraticaInOrdine(x)
        BY <1>8, <1>15, <2>3 DEF InvClienti
      <3> QED  BY <1>1, <2>1, <3>1 DEF PraticaInOrdine
    <2> QED  BY <2>2, <2>3
  <1>16. ClientiDistinti'
    <2>1. ASSUME NEW j \in Canali, attesa'[j] # Nil
          PROVE  /\ attesa[j] # Nil /\ attesa'[j].pratica = attesa[j].pratica
                 /\ attesa'[j].file = attesa[j].file
                 /\ attesa[j].fase = "abbandonata" => attesa'[j].fase = "abbandonata"
                 /\ attesa'[j].fase # "valida" => attesa[j].fase # "valida"
      BY <1>1, <1>9, <1>nv, <2>1 DEF a, p
    <2>2. ASSUME NEW j \in Canali, attesa'[j] # Nil
          PROVE  pratica'[attesa[j].pratica].lavoro = pratica[attesa[j].pratica].lavoro
      <3>1. attesa[j].pratica \in Pratiche
        BY <1>2, <2>1, <2>2 DEF TentativoInOrdine, Tentativo
      <3> QED  BY <1>7, <1>8, <3>1 DEF q
    <2> QED  BY <2>1, <2>2 DEF InvClienti, ClientiDistinti, Riservato
  <1>17. ASSUME NEW r \in Reperti, ultima'[r] # Nil PROVE UltimaInOrdine(r)'
    <2>1. UltimaInOrdine(r)
      BY <1>1, <1>17 DEF InvClienti
    <2>2. pratica'[ultima[r]] # Nil /\ pratica'[ultima[r]].lavoro = pratica[ultima[r]].lavoro
      BY <1>7, <1>8, <2>1 DEF UltimaInOrdine, q
    <2> QED  BY <1>1, <2>1, <2>2 DEF UltimaInOrdine
  <1>18. \A j \in Canali : attesa'[j] = Nil => volo'[j] = Nil
    BY <1>1, <1>12 DEF InvClienti
  <1>19. ultima' = [r \in Reperti |-> ultima'[r]]
    BY <1>1 DEF InvClienti
  <1> QED  BY <1>1, <1>8, <1>14, <1>15, <1>16, <1>17, <1>18, <1>19 DEF InvClienti

\* A client is answered, or runs out of time.
LEMMA PassoFine ==
    ASSUME InvClienti, NEW k \in Canali, Risponde(k) \/ Scade(k)
    PROVE  InvClienti'
  <1> DEFINE a == attesa[k]
  <1>1. CASE Risponde(k)
    <2>1. a.fase \in {"valida", "invalida"} /\ a # Nil
      BY <1>1 DEF Risponde
    <2>2. volo[k] = Nil
      BY <2>1 DEF InvClienti, TentativoInOrdine, Tentativo
    <2>3. EsitoDi(a.fase) \in Esiti /\ (EsitoDi(a.fase) = "non_valida" => a.fase # "valida")
      BY DEF EsitoDi, Esiti
    <2> QED  BY <1>1, <2>1, <2>2, <2>3, PassoRisposta DEF Risponde
  <1>2. CASE Scade(k)
    <2> DEFINE z == IF volo[k] = Nil THEN Nil
                    ELSE [pratica |-> a.pratica, file |-> a.file, fase |-> "abbandonata"]
    <2>1. a # Nil /\ a.fase # "abbandonata"
      BY <1>2 DEF Scade
    <2>2. a = [pratica |-> a.pratica, file |-> a.file, fase |-> a.fase]
      BY <2>1 DEF InvClienti, TentativoInOrdine, Tentativo
    <2>3. attesa' = [attesa EXCEPT ![k] = z]
      <3>1. [a EXCEPT !.fase = "abbandonata"]
            = [pratica |-> a.pratica, file |-> a.file, fase |-> "abbandonata"]
        BY <2>2
      <3> QED  BY <1>2, <3>1 DEF Scade
    <2>4. EsitoScaduto \in Esiti /\ EsitoScaduto # "non_valida"
      BY DEF EsitoScaduto, Esiti
    <2>5. \/ z = Nil /\ volo[k] = Nil
          \/ /\ volo[k] # Nil
             /\ z = [pratica |-> a.pratica, file |-> a.file, fase |-> "abbandonata"]
      OBVIOUS
    <2> HIDE DEF z
    <2> QED  BY <1>2, <2>1, <2>3, <2>4, <2>5, PassoRisposta DEF Scade
  <1> QED  BY <1>1, <1>2

\* The call of slot k comes to nothing; z is what is left of its client.
LEMMA PassoSenzaEffetto ==
    ASSUME volo = [j \in Canali |-> volo[j]], InvClienti, NEW k \in Canali, attesa[k] # Nil,
           Scarta(k), UNCHANGED <<pratica, ultima>>, NEW z, attesa' = [attesa EXCEPT ![k] = z],
           \/ z = Nil
           \/ /\ attesa[k].fase = "attende"
              /\ z = [pratica |-> attesa[k].pratica, file |-> attesa[k].file, fase |-> "invalida"]
    PROVE  InvClienti'
  <1> DEFINE a == attesa[k]
             q == pratica[a.pratica]
  <1>1. /\ stato' = stato /\ pratica' = pratica /\ ultima' = ultima
        /\ volo' = [j \in Canali |-> IF j = k THEN Nil ELSE volo[j]]
        /\ attesa' = [j \in Canali |-> IF j = k THEN z ELSE attesa[j]]
    BY DEF InvClienti, Scarta
  <1>2. \A j \in Canali : attesa[j] # Nil => TentativoInOrdine(j)
    BY DEF InvClienti
  <1>3. Tentativo(stato, a, volo[k], q)
    BY <1>2 DEF TentativoInOrdine
  <1>4. z # Nil => /\ z.pratica = a.pratica /\ z.file = a.file /\ z.fase = "invalida"
                   /\ z = [pratica |-> z.pratica, file |-> z.file, fase |-> z.fase]
                   /\ a.fase = "attende"
    OBVIOUS
  <1> HIDE DEF a, q
  <1>5. z # Nil => Tentativo(stato, z, Nil, q)
    BY <1>3, <1>4 DEF Tentativo, Riservato, Fasi
  <1>6. ASSUME NEW j \in Canali, attesa'[j] # Nil PROVE TentativoInOrdine(j)'
    <2>1. CASE j = k
      <3>1. attesa'[j] = z /\ z # Nil /\ volo'[j] = Nil /\ pratica'[z.pratica] = q
        BY <1>1, <1>4, <1>6, <2>1 DEF q
      <3> QED  BY <1>1, <1>5, <3>1 DEF TentativoInOrdine
    <2>2. CASE j # k
      BY <1>1, <1>2, <1>6, <2>2 DEF TentativoInOrdine
    <2> QED  BY <2>1, <2>2
  <1>7. ASSUME NEW j \in Canali, attesa'[j] # Nil
        PROVE  /\ attesa[j] # Nil /\ attesa'[j].pratica = attesa[j].pratica
               /\ attesa'[j].file = attesa[j].file
               /\ attesa[j].fase = "abbandonata" => attesa'[j].fase = "abbandonata"
               /\ attesa'[j].fase # "valida" => attesa[j].fase # "valida"
    BY <1>1, <1>4, <1>7 DEF a
  <1>8. ASSUME NEW x \in Pratiche, pratica'[x] # Nil PROVE PraticaInOrdine(x)'
    <2>1. PraticaInOrdine(x)
      BY <1>1, <1>8 DEF InvClienti
    <2> QED  BY <1>1, <1>7, <2>1 DEF PraticaInOrdine
  <1>9. ClientiDistinti'
    BY <1>1, <1>7 DEF InvClienti, ClientiDistinti, Riservato
  <1>10. \A r \in Reperti : ultima'[r] # Nil => UltimaInOrdine(r)'
    BY <1>1 DEF InvClienti, UltimaInOrdine
  <1>11. \A j \in Canali : attesa'[j] = Nil => volo'[j] = Nil
    BY <1>1 DEF InvClienti
  <1>12. /\ pratica' = [x \in Pratiche |-> pratica'[x]]
         /\ ultima' = [r \in Reperti |-> ultima'[r]]
    BY <1>1 DEF InvClienti
  <1> QED  BY <1>1, <1>6, <1>8, <1>9, <1>10, <1>11, <1>12 DEF InvClienti

\* A call is found not valid, or is lost.
LEMMA PassoNullo ==
    ASSUME volo = [j \in Canali |-> volo[j]], InvClienti, NEW k \in Canali,
           Invalida(k) \/ Perde(k)
    PROVE  InvClienti' /\ Scarta(k)
  <1> DEFINE a == attesa[k]
  <1>1. CASE Invalida(k)
    <2> DEFINE z == IF a.fase = "attende"
                    THEN [pratica |-> a.pratica, file |-> a.file, fase |-> "invalida"]
                    ELSE Nil
    <2>1. a # Nil
      BY <1>1 DEF Invalida, InvClienti
    <2>2. a = [pratica |-> a.pratica, file |-> a.file, fase |-> a.fase]
      BY <2>1 DEF InvClienti, TentativoInOrdine, Tentativo
    <2>3. attesa' = [attesa EXCEPT ![k] = z]
      <3>1. [a EXCEPT !.fase = "invalida"]
            = [pratica |-> a.pratica, file |-> a.file, fase |-> "invalida"]
        BY <2>2
      <3> QED  BY <1>1, <3>1 DEF Invalida, StatoNoto
    <2>4. \/ z = Nil
          \/ /\ a.fase = "attende"
             /\ z = [pratica |-> a.pratica, file |-> a.file, fase |-> "invalida"]
      OBVIOUS
    <2> HIDE DEF z
    <2> QED  BY <1>1, <2>1, <2>3, <2>4, PassoSenzaEffetto DEF Invalida
  <1>2. CASE Perde(k)
    BY <1>2, PassoSenzaEffetto DEF Perde
  <1> QED  BY <1>1, <1>2

\* The operator has done with p.
LEMMA PassoArchivia ==
    ASSUME InvClienti, NEW p \in Pratiche, Archivia(p)
    PROVE  InvClienti'
  <1>1. /\ stato' = stato /\ volo' = volo /\ attesa' = attesa
        /\ pratica' = [x \in Pratiche |-> IF x = p THEN Nil ELSE pratica[x]]
        /\ ultima' = [r \in Reperti |-> IF ultima[r] = p THEN Nil ELSE ultima[r]]
        /\ \A k \in Canali : attesa[k] # Nil => attesa[k].pratica # p
    BY DEF InvClienti, Archivia, vars, CanaliDi
  <1>2. ASSUME NEW k \in Canali, attesa'[k] # Nil PROVE TentativoInOrdine(k)'
    <2>1. Tentativo(stato, attesa[k], volo[k], pratica[attesa[k].pratica])
      BY <1>1, <1>2 DEF InvClienti, TentativoInOrdine
    <2>2. attesa[k].pratica \in Pratiche \ {p}
      BY <1>1, <1>2, <2>1 DEF Tentativo
    <2> QED  BY <1>1, <2>1, <2>2 DEF TentativoInOrdine
  <1>3. \A x \in Pratiche : pratica'[x] # Nil => PraticaInOrdine(x)'
    BY <1>1 DEF InvClienti, PraticaInOrdine
  <1>4. ASSUME NEW r \in Reperti, ultima'[r] # Nil PROVE UltimaInOrdine(r)'
    <2>1. ultima'[r] = ultima[r] /\ ultima[r] # p /\ UltimaInOrdine(r)
      BY <1>1, <1>4 DEF InvClienti
    <2>2. pratica'[ultima[r]] = pratica[ultima[r]]
      BY <1>1, <2>1 DEF UltimaInOrdine
    <2> QED  BY <1>1, <2>1, <2>2 DEF UltimaInOrdine
  <1>5. ClientiDistinti' /\ \A k \in Canali : attesa'[k] = Nil => volo'[k] = Nil
    <2>1. ASSUME NEW k \in Canali, attesa[k] # Nil
          PROVE  pratica'[attesa[k].pratica] = pratica[attesa[k].pratica]
      BY <1>1, <2>1 DEF InvClienti, TentativoInOrdine, Tentativo
    <2> QED  BY <1>1, <2>1 DEF InvClienti, ClientiDistinti
  <1> QED  BY <1>1, <1>2, <1>3, <1>4, <1>5 DEF InvClienti

\* Nothing but a document or evidence is recorded by its file.
LEMMA SoloAtti ==
    ASSUME NEW s, Tipato(s), NEW f \in File, NEW k \in Chiavi, s[k] = [cid |-> f]
    PROVE  k[1] \in {"DOC", "EVI"}
  <1> DEFINE v == [cid |-> f]
  <1>1. v \in FilePublic /\ v # Nil /\ v \in ValoriDi(k)
    BY NilAssumption DEF Tipato, FilePublic
  <1>2. DOMAIN v = {"cid"}
    OBVIOUS
  <1> HIDE DEF v
  <1>3. v \notin RepertoPublic
    BY <1>2 DEF RepertoPublic
  <1>4. v \notin RepertoPrivate /\ v \notin FilePrivate /\ v \notin Marcatore
    BY <1>2 DEF RepertoPrivate, FilePrivate, Marcatore
  <1>5. k[1] \in {"PUB", "DOC", "EVI", "DOCREP", "EVIREP", "PG_PM", "PM_LAB"}
    BY DEF Chiavi, ChiaveReperto, ChiavePrivatoReperto, ChiavePrivatoPmLab, ChiaveDocumento,
           ChiaveEvidenza, ChiaveDocRep, ChiaveEviRep, ChiaveFile
  <1> QED  BY <1>1, <1>3, <1>4, <1>5 DEF ValoriDi

\* At the beginning nobody has asked for anything.
LEMMA InizioClienti == InitClienti => InvClienti /\ EsitiVeri /\ RifiutiSepolti
  <1> SUFFICES ASSUME InitClienti PROVE InvClienti /\ EsitiVeri /\ RifiutiSepolti
    OBVIOUS
  <1>1. /\ pratica = [p \in Pratiche |-> Nil] /\ attesa = [k \in Canali |-> Nil]
        /\ ultima = [r \in Reperti |-> Nil] /\ volo = [k \in Canali |-> Nil]
    BY DEF InitClienti, Init
  <1> QED  BY <1>1 DEF InvClienti, ClientiDistinti, EsitiVeri, RifiutiSepolti

\* A card changes by the hand of an operator who was not the last to change it.
Alternanza ==
    \A r \in Reperti : stato'[ChiaveReperto(r)] # stato[ChiaveReperto(r)] =>
        ultima'[r] # Nil /\ ultima'[r] # ultima[r]

\* Whatever clients and operators do, the ledger and the calls in flight take
\* a step of Fabric.
LEMMA PassoClienti == InvFabric /\ InvClienti /\ [NextClienti]_varsClienti =>
                        InvClienti' /\ [Next]_vars /\ [Alternanza]_varsClienti
  <1> SUFFICES ASSUME InvFabric, InvClienti, [NextClienti]_varsClienti
               PROVE  InvClienti' /\ [Next]_vars /\ Alternanza
    OBVIOUS
  <1> DEFINE Fermo == stato' = stato
  <1>1. Fermo => Alternanza
    BY DEF Alternanza
  <1>2. P!Base /\ volo = [j \in Canali |-> volo[j]]
    BY DEF InvFabric
  <1> HIDE DEF Fermo
  <1>3. ASSUME NEW k \in Canali, NEW p \in Pratiche, NEW l \in Lavori, Avvia(k, p, l)
        PROVE  InvClienti' /\ [Next]_vars /\ Fermo
    <2>1. InvClienti' /\ Chiamata(k) /\ stato' = stato
      BY <1>2, <1>3, PassoAvvia
    <2> QED  BY <2>1 DEF Next, Fermo
  <1>4. ASSUME NEW k \in Canali, Valida(k) PROVE InvClienti' /\ [Next]_vars /\ Alternanza
    <2>1. InvClienti' /\ Alternanza
      BY <1>4, PassoValida DEF Alternanza
    <2>2. Conferma(k)
      BY <1>4 DEF Valida
    <2> QED  BY <2>1, <2>2 DEF Next
  <1>5. ASSUME NEW k \in Canali, Invalida(k) \/ Perde(k)
        PROVE  InvClienti' /\ [Next]_vars /\ Fermo
    <2>1. InvClienti' /\ Scarta(k)
      BY <1>2, <1>5, PassoNullo
    <2>2. Next /\ stato' = stato
      BY <2>1 DEF Next, Scarta
    <2> QED  BY <2>1, <2>2 DEF Fermo
  <1>6. ASSUME NEW k \in Canali, Risponde(k) \/ Scade(k)
        PROVE  InvClienti' /\ [Next]_vars /\ Fermo
    <2>1. UNCHANGED vars
      BY <1>6 DEF Risponde, Scade
    <2> QED  BY <1>6, <2>1, PassoFine DEF vars, Fermo
  <1>7. ASSUME NEW p \in Pratiche, Archivia(p) PROVE InvClienti' /\ [Next]_vars /\ Fermo
    <2>1. UNCHANGED vars
      BY <1>7 DEF Archivia
    <2> QED  BY <1>7, <2>1, PassoArchivia DEF vars, Fermo
  <1>8. CASE UNCHANGED varsClienti
    <2>1. UNCHANGED <<stato, volo, pratica, attesa, ultima>>
      BY <1>8 DEF varsClienti, vars
    <2>2. InvClienti'
      BY <2>1 DEF InvClienti, TentativoInOrdine, PraticaInOrdine, ClientiDistinti,
                  UltimaInOrdine
    <2>3. [Next]_vars /\ Fermo
      BY <2>1 DEF vars, Fermo
    <2> QED  BY <1>1, <2>2, <2>3
  <1> QED  BY <1>1, <1>3, <1>4, <1>5, <1>6, <1>7, <1>8 DEF NextClienti

\* The invariant always holds, and the clients run over Fabric.
LEMMA ClientiSempre ==
    SpecClienti => Spec /\ []InvFabric /\ []InvClienti /\ [][Alternanza]_varsClienti
  <1>1. InitClienti => Init
    BY DEF InitClienti
  <1> QED  BY <1>1, InizioClienti, PassoClienti, InizioFabric, PassoFabric, PTL
           DEF SpecClienti, Spec

\* Whatever operators, clients and timeouts do, Fabric sees calls of the contract
\* endorsed, committed or lost, so all that is proved of these holds.
THEOREM ClientiSuFabric == SpecClienti => Spec
  BY ClientiSempre, PTL

\* A life-cycle step repeated because its answer was lost never changes a card
\* twice in a row (cmd/workflow, submitAndWait).
THEOREM RitentativoSempreInnocuo == SpecClienti => RitentativoInnocuo
  BY ClientiSempre, PTL DEF RitentativoInnocuo, Alternanza

-----------------------------------------------------------------------------
(* A refusal is final.                                                     *)

\* A call endorsed by a client goes in flight under an id nobody has been told.
LEMMA SepoltaAvvia ==
    ASSUME P!Base, volo = [j \in Canali |-> volo[j]], NEW k \in Canali, NEW p \in Pratiche,
           NEW l \in Lavori, Avvia(k, p, l), NEW tx \in TxNoti, SepoltaIn(stato, volo, tx)
    PROVE  SepoltaIn(stato', volo', tx)
  <1>1. PICK o \in TxDi(l), f \in FileDi(l) : Parte(k, l, o, f)
    BY AvviaParte
  <1>2. PICK msp \in Msp : \E R, w : Approva(k, o, R, w)
    BY <1>1 DEF Parte
  <1>3. PICK R, w : Approva(k, o, R, w)
    BY <1>2
  <1>4. /\ stato' = stato /\ \A j \in Canali : j # k => volo'[j] = volo[j]
        /\ volo'[k].tx = o
    BY <1>3 DEF Approva
  <1>5. tx # Nil => o # tx
    BY DEF TxDi
  <1> QED  BY <1>4, <1>5 DEF SepoltaIn

\* The commit of another call brings no refused transaction on the ledger.
LEMMA SepoltaConferma ==
    ASSUME InvFabric, NEW k \in Canali, Conferma(k), NEW tx \in TxIds \cup {Nil},
           SepoltaIn(stato, volo, tx)
    PROVE  SepoltaIn(stato', volo', tx)
  <1> SUFFICES ASSUME tx # Nil
               PROVE  /\ Assente(stato', tx)
                      /\ \A j \in Canali : volo'[j] # Nil => volo'[j].tx # tx
    BY DEF SepoltaIn
  <1>1. tx \in TxIds /\ Assente(stato, tx) /\ tx # volo[k].tx
    BY DEF SepoltaIn, Conferma
  <1>2. Assente(stato', tx)
    BY <1>1, AssenteDopo
  <1>3. \A j \in Canali : volo'[j] # Nil => volo[j] # Nil /\ volo'[j].tx = volo[j].tx
    BY DEF Conferma, DopoConferma, InvFabric, ChiamataInVolo
  <1> QED  BY <1>2, <1>3 DEF SepoltaIn

\* A call that comes to nothing leaves its id nowhere, and no other anywhere new.
LEMMA SepoltaScarta ==
    ASSUME InvFabric, NEW k \in Canali, Scarta(k)
    PROVE  /\ SepoltaIn(stato', volo', volo[k].tx)
           /\ \A tx : SepoltaIn(stato, volo, tx) => SepoltaIn(stato', volo', tx)
  <1>1. stato' = stato /\ volo' = [j \in Canali |-> IF j = k THEN Nil ELSE volo[j]]
    BY DEF Scarta, InvFabric
  <1>2. /\ volo[k].tx # Nil => Assente(stato, volo[k].tx)
        /\ \A j \in Canali : j # k /\ volo[j] # Nil /\ volo[k].tx # Nil =>
                volo[j].tx # volo[k].tx
    BY DEF Scarta, InvFabric, ChiamataInVolo, IdDistinti
  <1> QED  BY <1>1, <1>2 DEF SepoltaIn

\* What was refused stays refused, and what is refused is gone.
LEMMA RifiutiSepoltiPasso ==
    InvFabric /\ InvClienti /\ RifiutiSepolti /\ [NextClienti]_varsClienti => RifiutiSepolti'
  <1> SUFFICES ASSUME InvFabric, InvClienti, RifiutiSepolti, [NextClienti]_varsClienti
               PROVE  RifiutiSepolti'
    OBVIOUS
  <1> DEFINE Sepolta(tx) == SepoltaIn(stato, volo, tx)
             TxDelCliente(j) == pratica[attesa[j].pratica].tx
  <1>1. /\ \A j \in Canali : attesa[j] # Nil /\ attesa[j].fase = "invalida" =>
                Sepolta(TxDelCliente(j))
        /\ \A p \in Pratiche : pratica[p] # Nil /\ pratica[p].esito = "non_valida" =>
                Sepolta(pratica[p].tx)
    BY DEF RifiutiSepolti
  <1>2. /\ \A j \in Canali : attesa[j] # Nil =>
                /\ TentativoInOrdine(j) /\ attesa[j].pratica \in Pratiche
                /\ pratica[attesa[j].pratica] # Nil
        /\ \A p \in Pratiche : pratica[p] # Nil =>
                PraticaInOrdine(p) /\ pratica[p].tx \in (TxIds \cup {Nil}) \cap TxNoti
    <2>1. \A j \in Canali : attesa[j] # Nil =>
            /\ TentativoInOrdine(j) /\ attesa[j].pratica \in Pratiche
            /\ pratica[attesa[j].pratica] # Nil
      BY DEF InvClienti, TentativoInOrdine, Tentativo
    <2> QED  BY <2>1 DEF InvClienti, PraticaInOrdine, TxNoti
  <1>3. /\ pratica = [p \in Pratiche |-> pratica[p]]
        /\ attesa = [j \in Canali |-> attesa[j]]
    BY DEF InvClienti
  <1>4. ASSUME \A tx \in (TxIds \cup {Nil}) \cap TxNoti :
                    Sepolta(tx) => SepoltaIn(stato', volo', tx),
               \A j \in Canali : attesa'[j] # Nil /\ attesa'[j].fase = "invalida" =>
                    \/ SepoltaIn(stato', volo', pratica'[attesa'[j].pratica].tx)
                    \/ /\ attesa'[j] = attesa[j] /\ attesa[j] # Nil
                       /\ pratica'[attesa[j].pratica].tx = TxDelCliente(j),
               \A p \in Pratiche : pratica'[p] # Nil /\ pratica'[p].esito = "non_valida" =>
                    \/ pratica'[p] = pratica[p]
                    \/ /\ pratica[p] # Nil /\ pratica'[p].tx = pratica[p].tx
                       /\ Sepolta(pratica[p].tx)
        PROVE  RifiutiSepolti'
    <2>1. ASSUME NEW j \in Canali, attesa'[j] # Nil, attesa'[j].fase = "invalida"
          PROVE  SepoltaIn(stato', volo', pratica'[attesa'[j].pratica].tx)
      BY <1>1, <1>2, <1>4, <2>1
    <2>2. ASSUME NEW p \in Pratiche, pratica'[p] # Nil, pratica'[p].esito = "non_valida"
          PROVE  SepoltaIn(stato', volo', pratica'[p].tx)
      BY <1>1, <1>2, <1>4, <2>2
    <2> QED  BY <2>1, <2>2 DEF RifiutiSepolti
  <1>5. ASSUME NEW k \in Canali, NEW p \in Pratiche, NEW l \in Lavori, Avvia(k, p, l)
        PROVE  RifiutiSepolti'
    <2>1. PICK tx, f :
            /\ attesa' = [attesa EXCEPT
                            ![k] = [pratica |-> p, file |-> f, fase |-> "attende"]]
            /\ pratica' = [pratica EXCEPT
                            ![p] = [lavoro |-> l, esito |-> "nessuno", file |-> f, tx |-> tx]]
      BY <1>5 DEF Avvia
    <2>2. \A t \in (TxIds \cup {Nil}) \cap TxNoti : Sepolta(t) => SepoltaIn(stato', volo', t)
      BY <1>5, SepoltaAvvia DEF InvFabric
    <2>3. pratica[p] = Nil \/ ~InCorso(p)
      BY <1>5 DEF Avvia
    <2>4. \A j \in Canali : j # k => attesa'[j] = attesa[j]
      BY <1>3, <2>1
    <2>5. attesa'[k].fase = "attende"
      BY <1>3, <2>1
    <2>6. pratica'[p].esito = "nessuno" /\ \A x \in Pratiche : x # p => pratica'[x] = pratica[x]
      BY <1>3, <2>1
    <2>7. \A j \in Canali : attesa[j] # Nil /\ attesa[j].fase = "invalida" => attesa[j].pratica # p
      BY <1>2, <2>3 DEF InCorso, CanaliDi
    <2> QED  BY <1>2, <1>4, <2>2, <2>4, <2>5, <2>6, <2>7
  <1>6. ASSUME NEW k \in Canali, Valida(k) PROVE RifiutiSepolti'
    <2>1. Conferma(k) /\ pratica' = pratica
      BY <1>6 DEF Valida
    <2>2. \A t \in (TxIds \cup {Nil}) \cap TxNoti : Sepolta(t) => SepoltaIn(stato', volo', t)
      BY <2>1, SepoltaConferma
    <2>3. \A j \in Canali : j # k => attesa'[j] = attesa[j]
      BY <1>3, <1>6 DEF Valida, StatoNoto
    <2>4. attesa'[k] = Nil \/ attesa'[k].fase = "valida"
      <3>1. attesa[k] # Nil
        BY <2>1 DEF Conferma, InvClienti
      <3>2. attesa[k] = [pratica |-> attesa[k].pratica, file |-> attesa[k].file,
                         fase |-> attesa[k].fase]
        BY <1>2, <3>1 DEF TentativoInOrdine, Tentativo
      <3> QED  BY <1>3, <1>6, <3>2 DEF Valida, StatoNoto
    <2> QED  BY <1>2, <1>4, <2>1, <2>2, <2>3, <2>4
  <1>7. ASSUME NEW k \in Canali, Invalida(k) PROVE RifiutiSepolti'
    <2>1. Scarta(k) /\ volo[k] # Nil /\ pratica' = pratica
      BY <1>7 DEF Invalida
    <2>2. /\ SepoltaIn(stato', volo', volo[k].tx)
          /\ \A t : Sepolta(t) => SepoltaIn(stato', volo', t)
      BY <2>1, SepoltaScarta
    <2>3. \A j \in Canali : j # k => attesa'[j] = attesa[j]
      BY <1>3, <1>7 DEF Invalida, StatoNoto
    <2>4. attesa[k] # Nil
      BY <2>1 DEF InvClienti
    <2>5. attesa[k] = [pratica |-> attesa[k].pratica, file |-> attesa[k].file,
                       fase |-> attesa[k].fase]
      BY <1>2, <2>4 DEF TentativoInOrdine, Tentativo
    <2>6. attesa'[k] # Nil => attesa[k].fase = "attende" /\ attesa'[k].pratica = attesa[k].pratica
      BY <1>3, <1>7, <2>5 DEF Invalida, StatoNoto
    <2>7. attesa[k].fase = "attende" => volo[k].tx = TxDelCliente(k)
      BY <1>2, <2>1, <2>4 DEF TentativoInOrdine, Tentativo
    <2>8. attesa'[k] # Nil => SepoltaIn(stato', volo', pratica'[attesa'[k].pratica].tx)
      BY <2>1, <2>2, <2>6, <2>7
    <2> QED  BY <1>2, <1>4, <2>1, <2>2, <2>3, <2>8
  <1>8. ASSUME NEW k \in Canali, Perde(k) PROVE RifiutiSepolti'
    <2>1. Scarta(k) /\ pratica' = pratica
      BY <1>8 DEF Perde
    <2>2. \A t : Sepolta(t) => SepoltaIn(stato', volo', t)
      BY <2>1, SepoltaScarta
    <2>3. attesa'[k] = Nil /\ \A j \in Canali : j # k => attesa'[j] = attesa[j]
      BY <1>3, <1>8 DEF Perde
    <2> QED  BY <1>2, <1>4, <2>1, <2>2, <2>3
  <1>9. ASSUME NEW k \in Canali, Risponde(k) \/ Scade(k) PROVE RifiutiSepolti'
    <2> DEFINE a == attesa[k]
               p == a.pratica
               q == pratica[p]
    <2>1. /\ a # Nil /\ a.fase # "abbandonata" /\ stato' = stato /\ volo' = volo
          /\ \A j \in Canali : j # k => attesa'[j] = attesa[j]
      BY <1>3, <1>9 DEF Risponde, Scade, vars
    <2>2. /\ p \in Pratiche /\ q # Nil
          /\ a = [pratica |-> a.pratica, file |-> a.file, fase |-> a.fase]
      BY <1>2, <2>1 DEF TentativoInOrdine, Tentativo
    <2>3. q = [lavoro |-> q.lavoro, esito |-> q.esito, file |-> q.file, tx |-> q.tx]
      BY <1>2, <2>2 DEF PraticaInOrdine
    <2>4. attesa'[k] = Nil \/ attesa'[k].fase = "abbandonata"
      BY <1>3, <1>9, <2>2 DEF Risponde, Scade
    <2>5. PICK e : /\ pratica' = [pratica EXCEPT ![p].esito = e]
                   /\ e = "non_valida" => a.fase = "invalida"
      <3>1. CASE Risponde(k)
        <4>1. pratica' = [pratica EXCEPT ![p].esito = EsitoDi(a.fase)]
          BY <3>1 DEF Risponde, Risposta
        <4>2. EsitoDi(a.fase) = "non_valida" => a.fase = "invalida"
          BY <3>1 DEF Risponde, EsitoDi
        <4> QED  BY <4>1, <4>2
      <3>2. CASE Scade(k)
        <4>1. pratica' = [pratica EXCEPT ![p].esito = EsitoScaduto]
          BY <3>2 DEF Scade, Risposta
        <4>2. EsitoScaduto # "non_valida"
          BY DEF EsitoScaduto
        <4> QED  BY <4>1, <4>2
      <3> QED  BY <1>9, <3>1, <3>2
    <2>6. \A x \in Pratiche : x # p => pratica'[x] = pratica[x]
      BY <1>3, <2>5
    <2>7. pratica'[p] = [q EXCEPT !.esito = e]
      BY <1>3, <2>2, <2>5
    <2>8. pratica'[p].tx = q.tx /\ pratica'[p].esito = e
      BY <2>3, <2>7
    <2>9. e = "non_valida" => Sepolta(q.tx)
      BY <1>1, <2>1, <2>5
    <2>10. \A x \in Pratiche : pratica'[x].tx = pratica[x].tx
      BY <2>6, <2>8
    <2>11. \A j \in Canali : attesa'[j] # Nil /\ attesa'[j].fase = "invalida" =>
                attesa'[j] = attesa[j] /\ attesa[j] # Nil /\ attesa[j].pratica \in Pratiche
      BY <1>2, <2>1, <2>4
    <2>12. \A x \in Pratiche : pratica'[x] # Nil /\ pratica'[x].esito = "non_valida" =>
                \/ pratica'[x] = pratica[x]
                \/ /\ pratica[x] # Nil /\ pratica'[x].tx = pratica[x].tx
                   /\ Sepolta(pratica[x].tx)
      BY <2>2, <2>6, <2>8, <2>9
    <2> QED  BY <1>4, <2>1, <2>10, <2>11, <2>12
  <1>10. ASSUME NEW p \in Pratiche, Archivia(p) PROVE RifiutiSepolti'
    <2>1. /\ stato' = stato /\ volo' = volo /\ attesa' = attesa
          /\ pratica' = [x \in Pratiche |-> IF x = p THEN Nil ELSE pratica[x]]
          /\ \A j \in Canali : attesa[j] # Nil => attesa[j].pratica # p
      BY <1>3, <1>10 DEF Archivia, vars, CanaliDi
    <2> QED  BY <1>2, <1>4, <2>1
  <1>11. CASE UNCHANGED varsClienti
    BY <1>2, <1>4, <1>11 DEF varsClienti, vars
  <1> QED  BY <1>5, <1>6, <1>7, <1>8, <1>9, <1>10, <1>11 DEF NextClienti

\* A refusal is final for the attempt it answers: the file of a registration is
\* on the ledger under no key and in no call, and the transaction of a workflow
\* step is not on the ledger nor in flight, whatever file it was to attach and
\* whatever became of earlier attempts with the same file (submitAndWait).
THEOREM RifiutoSempreDefinitivo == SpecClienti => []RifiutoDefinitivo
  <1>1. InvFabric /\ InvClienti /\ RifiutiSepolti => RifiutoDefinitivo
    <2> SUFFICES ASSUME InvFabric, InvClienti, RifiutiSepolti, NEW p \in Pratiche,
                        pratica[p] # Nil, pratica[p].esito = "non_valida"
                 PROVE  /\ pratica[p].lavoro.fn \in ConUpload => FilePerduto(pratica[p].file)
                        /\ pratica[p].tx # Nil => TxPerduta(pratica[p].tx)
      BY DEF RifiutoDefinitivo
    <2>1. PraticaInOrdine(p)
      BY DEF InvClienti
    <2>2. ASSUME pratica[p].lavoro.fn \in ConUpload PROVE FilePerduto(pratica[p].file)
      <3> DEFINE f == pratica[p].file
      <3>1. /\ f \in File /\ NonDepositato(stato, f)
            /\ \A k \in Canali : attesa[k] # Nil => attesa[k].file # f
        BY <2>1, <2>2 DEF PraticaInOrdine
      <3>2. Tipato(stato)
        BY BaseNota DEF InvFabric
      <3> HIDE DEF f
      <3>3. ASSUME NEW k \in Chiavi, stato[k] = [cid |-> f] PROVE k[1] \in {"DOC", "EVI"}
        BY <3>1, <3>2, <3>3, SoloAtti
      <3>4. FilePerduto(f)
        BY <3>1, <3>3 DEF NonDepositato, FilePerduto
      <3> QED  BY <3>4 DEF f
    <2>3. ASSUME pratica[p].tx # Nil PROVE TxPerduta(pratica[p].tx)
      BY <2>3 DEF RifiutiSepolti, SepoltaIn, Assente, TxPerduta
    <2> QED  BY <2>2, <2>3
  <1> QED  BY <1>1, ClientiSempre, InizioClienti, RifiutiSepoltiPasso, PTL DEF SpecClienti

-----------------------------------------------------------------------------
(* What an operator was told stays true.                                   *)

\* The keys of what a job leaves are keys the contract never writes twice.
LEMMA ChiaviFerme ==
    /\ \A r \in Reperti : ChiavePrivatoReperto(r) \in P!ChiaviImmutabili
    /\ \A c \in Casi : /\ \A d \in IdAtto : /\ ChiaveDocumento(c, d) \in P!ChiaviImmutabili
                                            /\ ChiaveFile("PM_LAB", c, d) \in P!ChiaviImmutabili
                                            /\ ChiaveFile("PG_PM", c, d) \in P!ChiaviImmutabili
                       /\ \A e \in IdEvidenze :
                                /\ ChiaveEvidenza(c, e) \in P!ChiaviImmutabili
                                /\ ChiaveFile("PG_PM", c, e) \in P!ChiaviImmutabili
  BY StesseIpotesi, P!ChiaviDelFascicolo
     DEF ChiavePrivatoReperto, ChiaveDocumento, ChiaveFile, ChiaveEvidenza, IdAtto,
         P!ChiavePrivatoReperto, P!ChiaveDocumento, P!ChiaveFile, P!ChiaveEvidenza, P!IdAtto, P!Id

\* From ledger s to ledger t nothing registered was rewritten.
Intatti(s, t) == \A x \in P!ChiaviImmutabili : s[x] # Nil => t[x] = s[x]

\* A deposited file stays deposited.
LEMMA DepositatoResta ==
    ASSUME NEW s, NEW t, DOMAIN t = DOMAIN s, Intatti(s, t), NEW x, NEW pdc, NEW f,
           DepositatoIn(s, x, pdc, f), x \in P!ChiaviImmutabili,
           ChiaveFile(pdc, x[2], x[3]) \in P!ChiaviImmutabili
    PROVE  DepositatoIn(t, x, pdc, f)
  <1>1. PICK y \in FilePrivate : Ha(s, ChiaveFile(pdc, x[2], x[3]), y) /\ y.chiave = f
    BY DEF DepositatoIn
  <1>2. y # Nil /\ f \in File
    BY <1>1, NilAssumption DEF FilePrivate
  <1>3. [cid |-> f] # Nil
    <2>1. [cid |-> f] \in FilePublic
      BY <1>2 DEF FilePublic
    <2> QED  BY <2>1, NilAssumption
  <1>4. Ha(t, ChiaveFile(pdc, x[2], x[3]), y) /\ Ha(t, x, [cid |-> f])
    BY <1>1, <1>2, <1>3 DEF Ha, Intatti, DepositatoIn
  <1> QED  BY <1>1, <1>4 DEF DepositatoIn

\* The effect of a job stays, as long as the index entries under the id of its
\* transaction do.
LEMMA EffettoResta ==
    ASSUME NEW s, NEW t, DOMAIN t = DOMAIN s, Intatti(s, t), NEW l \in Lavori,
           NEW tx \in TxIds \cup {Nil}, NEW f, EffettoIn(s, l, tx, f),
           \A x \in DOMAIN s : x[1] = "DOCREP" /\ x[3] = tx => t[x] = s[x]
    PROVE  EffettoIn(t, l, tx, f)
  <1>1. ASSUME l.fn = "CreaReperto" PROVE Ha(t, ChiavePrivatoReperto(l.r), l.priv)
    <2>1. l.r \in Reperti /\ l.priv # Nil
      BY <1>1, CampiDelLavoro, NilAssumption
    <2> QED  BY <1>1, <2>1, ChiaviFerme DEF EffettoIn, Ha, Intatti
  <1>2. ASSUME l.fn = "RegistraDocumento"
        PROVE  DepositatoIn(t, ChiaveDocumento(l.c, l.d), pdcCollectionForTipoDocumento(l.tipo), f)
    <2> DEFINE x == ChiaveDocumento(l.c, l.d)
               pdc == pdcCollectionForTipoDocumento(l.tipo)
    <2>1. l.c \in Casi /\ l.d \in IdAtto /\ pdc \in {"PG_PM", "PM_LAB"}
      BY <1>2, CampiDelLavoro DEF IdAtto, pdcCollectionForTipoDocumento
    <2>2. x[2] = l.c /\ x[3] = l.d
      BY DEF ChiaveDocumento
    <2>3. DepositatoIn(s, x, pdc, f)
      BY <1>2 DEF EffettoIn
    <2> HIDE DEF pdc
    <2>4. x \in P!ChiaviImmutabili /\ ChiaveFile(pdc, x[2], x[3]) \in P!ChiaviImmutabili
      BY <2>1, <2>2, ChiaviFerme
    <2> HIDE DEF x
    <2>5. DepositatoIn(t, x, pdc, f)
      BY <2>3, <2>4, DepositatoResta
    <2> QED  BY <2>5 DEF x, pdc
  <1>3. ASSUME l.fn = "RegistraEvidenza"
        PROVE  DepositatoIn(t, ChiaveEvidenza(l.c, l.e), "PG_PM", f)
    <2> DEFINE x == ChiaveEvidenza(l.c, l.e)
    <2>1. l.c \in Casi /\ l.e \in IdEvidenze
      BY <1>3, CampiDelLavoro
    <2>2. x[2] = l.c /\ x[3] = l.e
      BY DEF ChiaveEvidenza
    <2>3. DepositatoIn(s, x, "PG_PM", f)
      BY <1>3 DEF EffettoIn
    <2>4. x \in P!ChiaviImmutabili /\ ChiaveFile("PG_PM", x[2], x[3]) \in P!ChiaviImmutabili
      BY <2>1, <2>2, ChiaviFerme
    <2> HIDE DEF x
    <2>5. DepositatoIn(t, x, "PG_PM", f)
      BY <2>3, <2>4, DepositatoResta
    <2> QED  BY <2>5 DEF x
  <1>4. ASSUME tx # Nil
        PROVE  \E c \in Casi, tipo \in TipiDocumento :
                /\ Ha(t, ChiaveDocRep(l.r, tx), [caso |-> c])
                /\ DepositatoIn(t, ChiaveDocumento(c, tx), pdcCollectionForTipoDocumento(tipo), f)
    <2>1. PICK c \in Casi, tipo \in TipiDocumento :
            /\ Ha(s, ChiaveDocRep(l.r, tx), [caso |-> c])
            /\ DepositatoIn(s, ChiaveDocumento(c, tx), pdcCollectionForTipoDocumento(tipo), f)
      BY <1>4 DEF EffettoIn
    <2> DEFINE x == ChiaveDocumento(c, tx)
               y == ChiaveDocRep(l.r, tx)
               pdc == pdcCollectionForTipoDocumento(tipo)
    <2>2. tx \in IdAtto /\ pdc \in {"PG_PM", "PM_LAB"}
      BY <1>4 DEF IdAtto, pdcCollectionForTipoDocumento
    <2>3. x[2] = c /\ x[3] = tx /\ y[1] = "DOCREP" /\ y[3] = tx
      BY DEF ChiaveDocumento, ChiaveDocRep
    <2> HIDE DEF pdc
    <2>4. x \in P!ChiaviImmutabili /\ ChiaveFile(pdc, x[2], x[3]) \in P!ChiaviImmutabili
      BY <2>2, <2>3, ChiaviFerme
    <2> HIDE DEF x, y
    <2>5. DepositatoIn(t, x, pdc, f)
      BY <2>1, <2>4, DepositatoResta DEF x, pdc
    <2>6. Ha(t, y, [caso |-> c])
      BY <2>1, <2>3 DEF Ha, y
    <2> QED  BY <2>5, <2>6 DEF x, y, pdc
  <1> QED  BY <1>1, <1>2, <1>3, <1>4 DEF EffettoIn

\* The effect of a job's call is on the ledger when the call is committed.
LEMMA EffettoScritto ==
    ASSUME NEW s, NEW w, NEW l, NEW tx, NEW f, EffettoIn(w, l, tx, f)
    PROVE  EffettoIn(s ++ w, l, tx, f)
  <1>1. \A x, v : Ha(w, x, v) => Ha(s ++ w, x, v)
    BY HaUnione
  <1>2. \A x, pdc : DepositatoIn(w, x, pdc, f) => DepositatoIn(s ++ w, x, pdc, f)
    BY <1>1 DEF DepositatoIn
  <1> QED  BY <1>1, <1>2 DEF EffettoIn

\* A transaction that did a job with a file is on the ledger.
LEMMA EffettoDepositato ==
    ASSUME NEW s, NEW l, NEW tx, tx # Nil, NEW f, EffettoIn(s, l, tx, f)
    PROVE  \E c \in Casi : s[ChiaveDocumento(c, tx)] # Nil
  <1>1. PICK c \in Casi, tipo \in TipiDocumento :
            DepositatoIn(s, ChiaveDocumento(c, tx), pdcCollectionForTipoDocumento(tipo), f)
    BY DEF EffettoIn
  <1>2. s[ChiaveDocumento(c, tx)] = [cid |-> f] /\ f \in File
    BY <1>1 DEF DepositatoIn, Ha, FilePrivate
  <1>3. [cid |-> f] \in FilePublic
    BY <1>2 DEF FilePublic
  <1> QED  BY <1>2, <1>3, NilAssumption

\* An effect on the ledger, as the clients' module says it.
LEMMA EffettoLetto ==
    ASSUME NEW l, NEW tx, NEW f, EffettoIn(stato, l, tx, f)
    PROVE  Effetto(l, tx, f)
  <1>1. ASSUME NEW x, NEW pdc, DepositatoIn(stato, x, pdc, f) PROVE Depositato(x, pdc, f)
    <2>1. PICK y \in FilePrivate : Ha(stato, ChiaveFile(pdc, x[2], x[3]), y) /\ y.chiave = f
      BY <1>1 DEF DepositatoIn
    <2> QED  BY <1>1, <2>1, NilAssumption DEF DepositatoIn, Depositato, Ha
  <1> QED  BY <1>1 DEF EffettoIn, Effetto, Ha

\* The effects on the ledger outlive the commit of a call.
LEMMA EffettoDopo ==
    ASSUME InvFabric, InvClienti, NEW k \in Canali, Valida(k), Intatti(stato, stato'),
           NEW l \in Lavori, NEW tx \in TxIds \cup {Nil}, NEW f, EffettoIn(stato, l, tx, f)
    PROVE  EffettoIn(stato', l, tx, f)
  <1> DEFINE w == volo[k].scritture
             o == volo[k].tx
  <1>1. /\ Tipato(stato) /\ stato' = stato ++ w
        /\ Adempie(pratica[attesa[k].pratica].lavoro, o, attesa[k].file, w)
    BY ConfermaDi
  <1>2. ChiamataInVolo(stato, volo[k])
    BY DEF InvFabric, Valida, Conferma
  <1>3. DOMAIN w \subseteq Chiavi /\ (o # Nil => Assente(stato, o)) /\ o \in TxIds \cup {Nil}
    BY <1>2 DEF ChiamataInVolo, Tipata
  <1>4. \A x \in Voci(w) : x[3] \in IdDocumenti \cup {o}
    BY <1>1 DEF Adempie
  <1> HIDE DEF w, o
  <1>5. DOMAIN stato = Chiavi /\ DOMAIN stato' = DOMAIN stato
    BY <1>1, <1>3 DEF Tipato, ++
  <1>6. tx # Nil => tx # o
    BY <1>3, EffettoDepositato DEF Assente
  <1>7. ASSUME NEW x \in DOMAIN stato, x[1] = "DOCREP", x[3] = tx
        PROVE  stato'[x] = stato[x]
    <2>1. CASE tx # Nil
      <3>1. tx \notin IdDocumenti
        BY <2>1, IdAssumption
      <3>2. x \notin DOMAIN w
        BY <1>4, <1>6, <1>7, <2>1, <3>1 DEF Voci
      <3> QED  BY <1>1, <3>2 DEF ++
    <2>2. CASE tx = Nil
      <3>1. \E r \in Reperti, d \in IdAtto : x = ChiaveDocRep(r, d)
        BY <1>5, <1>7 DEF Chiavi, ChiaveReperto, ChiavePrivatoReperto, ChiavePrivatoPmLab,
                         ChiaveDocumento, ChiaveEvidenza, ChiaveDocRep, ChiaveEviRep, ChiaveFile
      <3>2. x[3] \in IdAtto
        BY <3>1 DEF ChiaveDocRep
      <3> QED  BY <1>7, <2>2, <3>2, NilAssumption DEF IdAtto
    <2> QED  BY <2>1, <2>2
  <1> QED  BY <1>5, <1>7, EffettoResta

\* What was told stays true, and what is told is true.
LEMMA EsitiVeriPasso ==
    InvFabric /\ InvClienti /\ EsitiVeri /\ [NextClienti]_varsClienti
        /\ (stato' # stato => Intatti(stato, stato')) => EsitiVeri'
  <1> SUFFICES ASSUME InvFabric, InvClienti, EsitiVeri, [NextClienti]_varsClienti,
                      stato' # stato => Intatti(stato, stato')
               PROVE  EsitiVeri'
    OBVIOUS
  <1> DEFINE Detto(j) == EffettoIn(stato, pratica[attesa[j].pratica].lavoro,
                                   pratica[attesa[j].pratica].tx, attesa[j].file)
             Noto(p) == EffettoIn(stato, pratica[p].lavoro, pratica[p].tx, pratica[p].file)
  <1>1. /\ \A j \in Canali : attesa[j] # Nil /\ attesa[j].fase = "valida" => Detto(j)
        /\ \A p \in Pratiche : pratica[p] # Nil /\ pratica[p].esito = "ok" => Noto(p)
    BY DEF EsitiVeri
  <1>2. /\ \A j \in Canali : attesa[j] # Nil =>
                TentativoInOrdine(j) /\ attesa[j].pratica \in Pratiche
                    /\ pratica[attesa[j].pratica] # Nil
        /\ \A p \in Pratiche : pratica[p] # Nil => PraticaInOrdine(p)
    BY DEF InvClienti, TentativoInOrdine, Tentativo
  <1>3. /\ pratica = [p \in Pratiche |-> pratica[p]]
        /\ attesa = [j \in Canali |-> attesa[j]]
    BY DEF InvClienti
  <1>4. ASSUME stato' = stato,
               \A j \in Canali : attesa'[j] # Nil /\ attesa'[j].fase = "valida" =>
                    /\ attesa'[j] = attesa[j] /\ attesa[j] # Nil
                    /\ pratica'[attesa[j].pratica].lavoro = pratica[attesa[j].pratica].lavoro
                    /\ pratica'[attesa[j].pratica].tx = pratica[attesa[j].pratica].tx,
               \A p \in Pratiche : pratica'[p] # Nil /\ pratica'[p].esito = "ok" =>
                    \/ pratica'[p] = pratica[p]
                    \/ EffettoIn(stato, pratica'[p].lavoro, pratica'[p].tx, pratica'[p].file)
        PROVE  EsitiVeri'
    <2>1. \A j \in Canali : attesa'[j] # Nil /\ attesa'[j].fase = "valida" => Detto(j)'
      BY <1>1, <1>4
    <2>2. \A p \in Pratiche : pratica'[p] # Nil /\ pratica'[p].esito = "ok" => Noto(p)'
      BY <1>1, <1>4
    <2> QED  BY <2>1, <2>2 DEF EsitiVeri
  <1>5. ASSUME NEW k \in Canali, NEW p \in Pratiche, NEW l \in Lavori, Avvia(k, p, l)
        PROVE  EsitiVeri'
    <2>1. PICK tx, f :
            /\ attesa' = [attesa EXCEPT
                            ![k] = [pratica |-> p, file |-> f, fase |-> "attende"]]
            /\ pratica' = [pratica EXCEPT
                            ![p] = [lavoro |-> l, esito |-> "nessuno", file |-> f, tx |-> tx]]
      BY <1>5 DEF Avvia
    <2>2. stato' = stato
      BY <1>5, PassoAvvia DEF InvFabric
    <2>3. pratica[p] = Nil \/ ~InCorso(p)
      BY <1>5 DEF Avvia
    <2>4. \A j \in Canali : j # k => attesa'[j] = attesa[j]
      BY <1>3, <2>1
    <2>5. attesa'[k].fase = "attende"
      BY <1>3, <2>1
    <2>6. pratica'[p].esito = "nessuno" /\ \A x \in Pratiche : x # p => pratica'[x] = pratica[x]
      BY <1>3, <2>1
    <2>7. \A j \in Canali : attesa[j] # Nil /\ attesa[j].fase = "valida" => attesa[j].pratica # p
      BY <1>2, <2>3 DEF InCorso, CanaliDi
    <2> QED  BY <1>2, <1>4, <2>2, <2>4, <2>5, <2>6, <2>7
  <1>6. ASSUME NEW k \in Canali, Valida(k) PROVE EsitiVeri'
    <2> DEFINE a == attesa[k]
               q == pratica[a.pratica]
               w == volo[k].scritture
    <2>1. /\ a # Nil /\ TentativoInOrdine(k) /\ Tipato(stato) /\ stato' = stato ++ w
          /\ Adempie(q.lavoro, volo[k].tx, a.file, w)
          /\ pratica' = pratica
          /\ attesa' = [j \in Canali |->
                          IF j # k THEN attesa[j]
                          ELSE IF a.fase = "attende" THEN [a EXCEPT !.fase = "valida"] ELSE Nil]
      BY <1>6, ConfermaDi
    <2>2. a = [pratica |-> a.pratica, file |-> a.file, fase |-> a.fase]
      BY <2>1 DEF TentativoInOrdine, Tentativo
    <2>3. ASSUME NEW l \in Lavori, NEW tx \in TxIds \cup {Nil}, NEW f, EffettoIn(stato, l, tx, f)
          PROVE  EffettoIn(stato', l, tx, f)
      <3>1. CASE stato' = stato
        BY <2>3, <3>1
      <3>2. CASE stato' # stato
        BY <1>6, <2>3, <3>2, EffettoDopo
      <3> QED  BY <3>1, <3>2
    <2>4. ASSUME NEW p \in Pratiche, pratica[p] # Nil
          PROVE  pratica[p].lavoro \in Lavori /\ pratica[p].tx \in TxIds \cup {Nil}
      BY <1>2, <2>4 DEF PraticaInOrdine
    <2>5. ASSUME NEW j \in Canali, attesa'[j] # Nil, attesa'[j].fase = "valida" PROVE Detto(j)'
      <3>1. CASE j = k
        <4>1. a.fase = "attende" /\ attesa'[k].pratica = a.pratica /\ attesa'[k].file = a.file
          BY <2>1, <2>2, <2>5, <3>1
        <4>2. volo[k] # Nil
          BY <1>6 DEF Valida, Conferma
        <4>3. volo[k].tx = q.tx
          BY <2>1, <4>1, <4>2 DEF TentativoInOrdine, Tentativo
        <4>4. EffettoIn(stato ++ w, q.lavoro, q.tx, a.file)
          BY <2>1, <4>3, EffettoScritto DEF Adempie
        <4> QED  BY <2>1, <3>1, <4>1, <4>4
      <3>2. CASE j # k
        <4>1. attesa'[j] = attesa[j] /\ Detto(j)
          BY <1>1, <2>1, <2>5, <3>2
        <4>2. EffettoIn(stato', pratica[attesa[j].pratica].lavoro, pratica[attesa[j].pratica].tx,
                        attesa[j].file)
          BY <1>2, <2>3, <2>4, <2>5, <4>1
        <4> QED  BY <2>1, <4>1, <4>2
      <3> QED  BY <3>1, <3>2
    <2>6. ASSUME NEW p \in Pratiche, pratica'[p] # Nil, pratica'[p].esito = "ok" PROVE Noto(p)'
      <3>1. Noto(p) /\ pratica'[p] = pratica[p]
        BY <1>1, <2>1, <2>6
      <3>2. EffettoIn(stato', pratica[p].lavoro, pratica[p].tx, pratica[p].file)
        BY <2>1, <2>3, <2>4, <2>6, <3>1
      <3> QED  BY <3>1, <3>2
    <2> QED  BY <2>5, <2>6 DEF EsitiVeri
  <1>7. ASSUME NEW k \in Canali, Invalida(k) \/ Perde(k) PROVE EsitiVeri'
    <2>1. stato' = stato /\ pratica' = pratica
      BY <1>7 DEF Invalida, Perde, Scarta
    <2>2. \A j \in Canali : j # k => attesa'[j] = attesa[j]
      BY <1>3, <1>7 DEF Invalida, Perde, StatoNoto
    <2>3. attesa'[k] = Nil \/ attesa'[k].fase = "invalida"
      <3>1. CASE Invalida(k)
        <4>1. attesa[k] # Nil
          BY <3>1 DEF Invalida, InvClienti
        <4>2. attesa[k] = [pratica |-> attesa[k].pratica, file |-> attesa[k].file,
                           fase |-> attesa[k].fase]
          BY <1>2, <4>1 DEF TentativoInOrdine, Tentativo
        <4> QED  BY <1>3, <3>1, <4>2 DEF Invalida, StatoNoto
      <3>2. CASE Perde(k)
        BY <1>3, <3>2 DEF Perde
      <3> QED  BY <1>7, <3>1, <3>2
    <2> QED  BY <1>4, <2>1, <2>2, <2>3
  <1>8. ASSUME NEW k \in Canali, Risponde(k) \/ Scade(k) PROVE EsitiVeri'
    <2> DEFINE a == attesa[k]
               p == a.pratica
               q == pratica[p]
    <2>1. /\ a # Nil /\ a.fase # "abbandonata" /\ stato' = stato
          /\ \A j \in Canali : j # k => attesa'[j] = attesa[j]
      BY <1>3, <1>8 DEF Risponde, Scade, vars
    <2>2. /\ p \in Pratiche /\ q # Nil /\ q.file = a.file
          /\ a = [pratica |-> a.pratica, file |-> a.file, fase |-> a.fase]
      BY <1>2, <2>1 DEF TentativoInOrdine, Tentativo
    <2>3. q = [lavoro |-> q.lavoro, esito |-> q.esito, file |-> q.file, tx |-> q.tx]
      BY <1>2, <2>2 DEF PraticaInOrdine
    <2>4. attesa'[k] = Nil \/ attesa'[k].fase = "abbandonata"
      BY <1>3, <1>8, <2>2 DEF Risponde, Scade
    <2>5. PICK e : /\ pratica' = [pratica EXCEPT ![p].esito = e]
                   /\ e = "ok" => a.fase = "valida"
      BY <1>8 DEF Risponde, Scade, Risposta, EsitoDi, EsitoScaduto
    <2>6. \A x \in Pratiche : x # p => pratica'[x] = pratica[x]
      BY <1>3, <2>5
    <2>7. pratica'[p] = [q EXCEPT !.esito = e]
      BY <1>3, <2>2, <2>5
    <2>8. /\ pratica'[p].lavoro = q.lavoro /\ pratica'[p].tx = q.tx
          /\ pratica'[p].file = q.file /\ pratica'[p].esito = e
      BY <2>3, <2>7
    <2>9. e = "ok" => EffettoIn(stato, q.lavoro, q.tx, q.file)
      BY <1>1, <2>1, <2>2, <2>5
    <2>10. \A x \in Pratiche : pratica'[x].lavoro = pratica[x].lavoro
                               /\ pratica'[x].tx = pratica[x].tx
      BY <2>6, <2>8
    <2>11. \A j \in Canali : attesa'[j] # Nil /\ attesa'[j].fase = "valida" =>
                attesa'[j] = attesa[j] /\ attesa[j] # Nil /\ attesa[j].pratica \in Pratiche
      BY <1>2, <2>1, <2>4
    <2>12. \A x \in Pratiche : pratica'[x] # Nil /\ pratica'[x].esito = "ok" =>
                \/ pratica'[x] = pratica[x]
                \/ EffettoIn(stato, pratica'[x].lavoro, pratica'[x].tx, pratica'[x].file)
      BY <2>6, <2>8, <2>9
    <2> QED  BY <1>4, <2>1, <2>10, <2>11, <2>12
  <1>9. ASSUME NEW p \in Pratiche, Archivia(p) PROVE EsitiVeri'
    <2>1. /\ stato' = stato /\ attesa' = attesa
          /\ pratica' = [x \in Pratiche |-> IF x = p THEN Nil ELSE pratica[x]]
          /\ \A j \in Canali : attesa[j] # Nil => attesa[j].pratica # p
      BY <1>3, <1>9 DEF Archivia, vars, CanaliDi
    <2> QED  BY <1>2, <1>4, <2>1
  <1>10. CASE UNCHANGED varsClienti
    BY <1>4, <1>10 DEF varsClienti, vars
  <1> QED  BY <1>5, <1>6, <1>7, <1>8, <1>9, <1>10 DEF NextClienti

\* What an operator was told is confirmed is on the ledger ever after: the very
\* file of that attempt, with its key (submitAndWait, submitRegistraDocumento).
THEOREM EsitoSempreVeritiero ==
    ASSUME P!IdSeparati
    PROVE  SpecClienti => []EsitoVeritiero
  <1> DEFINE Intatto ==
        /\ \A k \in P!ChiaviImmutabili : stato[k] # Nil => stato'[k] = stato[k]
        /\ \A r \in P!RepertiNoti :
            /\ P!RepertoExists(stato', r)
            /\ P!Scheda(stato, r).verbale # Nil
                    => P!Scheda(stato', r).verbale = P!Scheda(stato, r).verbale
  <1>1. P!Spec => [][Intatto]_(P!vars)
    <2>1. P!Spec => P!FascicoloImmutabile
      BY StesseIpotesi, P!FascicoloSempreImmutabile
    <2> QED  BY <2>1, PTL DEF P!FascicoloImmutabile
  <1>2. [Intatto]_(P!vars) => (stato' # stato => Intatti(stato, stato'))
    BY DEF P!vars, Intatti
  <1>3. InvClienti /\ EsitiVeri => EsitoVeritiero
    <2> SUFFICES ASSUME InvClienti, EsitiVeri, NEW p \in Pratiche, pratica[p] # Nil,
                        pratica[p].esito = "ok"
                 PROVE  Effetto(pratica[p].lavoro, pratica[p].tx, pratica[p].file)
      BY DEF EsitoVeritiero
    <2>1. EffettoIn(stato, pratica[p].lavoro, pratica[p].tx, pratica[p].file)
      BY DEF EsitiVeri
    <2> QED  BY <2>1, EffettoLetto
  <1> HIDE DEF Intatto
  <1>4. Spec => P!Spec
    BY FabricSempre, PTL
  <1> QED  BY <1>1, <1>2, <1>3, <1>4, ClientiSempre, InizioClienti, EsitiVeriPasso, PTL
           DEF SpecClienti
=============================================================================
