-------------------------------- MODULE Storia -------------------------------
(***************************************************************************)
(* The histories the contract gives out (OttieniStoriaReperto,             *)
(* OttieniStoriaDocumento, OttieniStoriaEvidenza).  Each peer keeps, for   *)
(* each public key, the writes of the valid transactions, also those that  *)
(* leave the value as it was; GetHistoryForKey returns them newest first.  *)
(* Calls with no write (PreparaRiconsegna) leave no entry, nor does what a *)
(* call writes in a private collection.                                    *)
(*                                                                         *)
(* Nothing is ever deleted, so isDelete is false in every entry; the       *)
(* timestamp is left out.  tx is Nil for a transaction that attaches no    *)
(* document: no key is named after it.                                     *)
(***************************************************************************)
EXTENDS Fabric, SequencesExt

VARIABLE storia   \* storia[k]: the entries of public key k, oldest first

varsStoria == <<vars, storia>>

ChiaviPubbliche == {k \in Chiavi : k[1] \in {"PUB", "DOC", "EVI"}}

InitStoria == Init /\ storia = [k \in ChiaviPubbliche |-> <<>>]

\* The peer commits the transaction of slot k and notes what it wrote.
Annota(k) ==
    storia' = [x \in ChiaviPubbliche |->
                IF x \in DOMAIN volo[k].scritture
                THEN Append(storia[x], [tx |-> volo[k].tx,
                                        valore |-> volo[k].scritture[x]])
                ELSE storia[x]]

NextStoria ==
    \E k \in Canali :
        \/ (Chiamata(k) \/ Scarta(k)) /\ UNCHANGED storia
        \/ Conferma(k) /\ Annota(k)

SpecStoria == InitStoria /\ [][NextStoria]_varsStoria

-----------------------------------------------------------------------------
(* The queries.  A key that was never written has an empty history.        *)

OttieniStoriaReperto(r) == Reverse(storia[ChiaveReperto(r)])
OttieniStoriaDocumento(c, d) == Reverse(storia[ChiaveDocumento(c, d)])
OttieniStoriaEvidenza(c, e) == Reverse(storia[ChiaveEvidenza(c, e)])

-----------------------------------------------------------------------------
(* Properties.                                                             *)

\* The history of a file of the dossier is its registration and nothing else,
\* however many registrations of it were on their way: the ledger has exactly
\* one entry for it, with the CID it has now.
StoriaUnica ==
    LET Unica(voci, k, tx) ==
            voci = IF stato[k] = Nil THEN <<>> ELSE <<[tx |-> tx, valore |-> stato[k]]>>
    IN  \A c \in Casi :
            /\ \A d \in IdAtto :
                Unica(OttieniStoriaDocumento(c, d), ChiaveDocumento(c, d),
                      IF d \in TxIds THEN d ELSE Nil)
            /\ \A e \in IdEvidenze :
                Unica(OttieniStoriaEvidenza(c, e), ChiaveEvidenza(c, e), Nil)

\* The handovers no document goes with, as (state before, state after).
Trasporti ==
    {<<"ATTESA_TRASPORTO", "IN_TRANSITO">>, <<"ATTESA_RITIRO", "IN_TRANSITO">>,
     <<"IN_TRANSITO", "IN_ANALISI">>}

\* From card p to the card of entry v: a handover with the document that goes
\* with it, attached by that very transaction, or a link to a seizure report.
Passo(p, v) ==
    LET q == v.valore
        Allega(campo, prima, dopo) ==
            /\ p.stato = prima /\ q.stato = dopo
            /\ q = [p EXCEPT !.stato = dopo, ![campo] = v.tx,
                             !.custode = q.custode, !.lab = q.lab]
    IN  \/ /\ Allega("decreto", "SEQUESTRATO", "ATTESA_TRASPORTO")
           /\ q.custode = p.custode
        \/ /\ Allega("relazione", "IN_ANALISI", "ATTESA_RITIRO")
           /\ q.custode = p.custode /\ q.lab = p.lab
        \/ /\ Allega("riconsegna", "IN_TRANSITO", "SEQUESTRATO")
           /\ q.lab = p.lab
        \/ /\ <<p.stato, q.stato>> \in Trasporti
           /\ q = [p EXCEPT !.stato = q.stato, !.custode = q.custode]
        \/ /\ p.verbale \in {Nil, q.verbale}
           /\ q = [p EXCEPT !.verbale = q.verbale]

\* Who reads an exhibit's history, the last entry first, sees its present card
\* and every handover one by one back to the seizure: no entry undoes another
\* (OttieniStoriaReperto; a card written from a stale read would).
StoriaContinua ==
    \A r \in Reperti :
        LET voci == OttieniStoriaReperto(r)
        IN  /\ (voci = <<>>) = ~RepertoExists(stato, r)
            /\ voci # <<>> =>
                /\ Head(voci).valore = Scheda(stato, r)
                /\ \E priv \in RepertoPrivate : Last(voci).valore = SchedaNuova(priv)
            /\ \A i \in 1..(Len(voci) - 1) : Passo(voci[i + 1].valore, voci[i])

\* The card has room for one decree, one report and one return, a later cycle
\* replaces them; the history has them all: every document a transaction
\* attached to an exhibit is on the card of exactly one entry of that
\* transaction.
StoriaCompleta ==
    \A r \in Reperti, tx \in TxIds :
        stato[ChiaveDocRep(r, tx)] # Nil =>
            LET voci == OttieniStoriaReperto(r)
            IN  Cardinality({i \in DOMAIN voci :
                    /\ voci[i].tx = tx
                    /\ tx \in {voci[i].valore.decreto, voci[i].valore.relazione,
                               voci[i].valore.riconsegna}}) = 1
=============================================================================
