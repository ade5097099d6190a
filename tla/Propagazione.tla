----------------------------- MODULE Propagazione ----------------------------
(***************************************************************************)
(* Private data on their way between peers.  A call is executed on one     *)
(* peer, the one its client is connected to (openOrgContract of            *)
(* cmd/workflow and cmd/upload); the private data it writes are sure to be *)
(* there, if that peer's organisation is a member of the collection, when  *)
(* the transaction is committed.  The collections ask for no other peer    *)
(* (requiredPeerCount 0): the peers of the other members get them by       *)
(* gossip, later and in any order.  Until then such a peer knows only the  *)
(* hash, and the contract finds nothing: where it must have the record it  *)
(* returns an error, in a query it goes on without                         *)
(* (pdcIgnorabileInLettura).                                               *)
(***************************************************************************)
EXTENDS Consultazione

CONSTANT MaxRitardi   \* bound: private data on their way at the same time

ASSUME MaxRitardiAssumption == MaxRitardi \in Nat

VARIABLE manca   \* <<peer, key>>: a member whose peer lacks the key's value

varsPropagazione == <<stato, manca>>

-----------------------------------------------------------------------------
\* Each organisation asks its own peer.
openOrgContract_PeerProprio(msp) == msp

\* Everybody asks PG's peer, as cmd/download does.
openOrgContract_PeerDiPg(msp) == "PGMSP"

\* The peer of a client of cmd/workflow or cmd/upload.
openOrgContract(msp) == PeerWorkflow[msp]

ChiaviPrivate == {k \in Chiavi : k[1] \in DOMAIN Membri}

\* The ledger as the contract sees it on a peer, for a client of msp.
Vista(msp, peer) ==
    [k \in Chiavi |->
        IF k \in ChiaviPrivate
           /\ (~({msp, peer} \subseteq Membri[k[1]]) \/ <<peer, k>> \in manca)
        THEN Nil ELSE stato[k]]

\* What the other members are to get of the writes w made on a peer.
Consegne(peer, w) ==
    {x \in Msp \X (ChiaviPrivate \cap DOMAIN w) :
        x[1] # peer /\ x[1] \in Membri[x[2][1]]}

\* A call of a client of msp, endorsed on its peer and committed: some of the
\* deliveries have not been made by then.
Esegue(msp, ammessa, w) ==
    LET peer == openOrgContract(msp)
    IN  /\ ammessa
        /\ stato' = stato ++ w
        /\ \E tardi \in SUBSET Consegne(peer, w) :
            /\ Cardinality(manca \cup tardi) <= MaxRitardi
            /\ manca' = {x \in manca : x[2] \notin DOMAIN w} \cup tardi

\* Transaction ids are new to the whole network.
Chiamata(msp) ==
    LET v == Vista(msp, openOrgContract(msp))
        Nuove == {tx \in TxIds : TxNuova(stato, tx)}
    IN  \/ \E r \in Reperti, priv \in RepertoPrivate :
            Esegue(msp, AmmetteCreaReperto(v, msp, r), ScritturaCreaReperto(r, priv))
        \/ \E d \in IdDocumenti, c \in Casi, tipo \in TipiDocumento,
              r \in Reperti \cup {Nil}, f \in File :
            Esegue(msp, AmmetteRegistraDocumento(v, msp, d, c, tipo, r),
                   ScritturaRegistraDocumento(v, msp, d, c, tipo, r, f))
        \/ \E e \in IdEvidenze, c \in Casi, r \in Reperti \cup {Nil}, f \in File :
            Esegue(msp, AmmetteRegistraEvidenza(v, msp, e, c, r),
                   ScritturaRegistraEvidenza(msp, e, c, r, f))
        \/ \E tx \in Nuove, r \in Reperti, lab \in Laboratori, f \in File :
            Esegue(msp, AmmetteRichiediAnalisi(v, msp, r),
                   ScritturaRichiediAnalisi(v, tx, msp, r, lab, f))
        \/ \E r \in Reperti, agente \in Agenti :
            Esegue(msp, AmmetteAvviaTrasporto(v, msp, r),
                   ScritturaAvviaTrasporto(v, r, agente))
        \/ \E r \in Reperti, lab \in Laboratori :
            Esegue(msp, AmmetteRiceviInLaboratorio(v, msp, r, lab),
                   ScritturaRiceviInLaboratorio(v, r, lab))
        \/ \E tx \in Nuove, r \in Reperti, f \in File :
            Esegue(msp, AmmetteCompletaAnalisi(v, msp, r),
                   ScritturaCompletaAnalisi(v, tx, msp, r, f))
        \/ \E r \in Reperti : Esegue(msp, AmmettePreparaRiconsegna(v, msp, r), Niente)
        \/ \E tx \in Nuove, r \in Reperti, f \in File :
            Esegue(msp, AmmetteDepositaInSede(v, msp, r),
                   ScritturaDepositaInSede(v, tx, msp, r, f))

\* Gossip brings a peer what it lacks.
Arriva(x) ==
    /\ x \in manca
    /\ manca' = manca \ {x}
    /\ UNCHANGED stato

InitPropagazione == Init /\ manca = {}

NextPropagazione ==
    \/ \E msp \in Msp : Chiamata(msp)
    \/ \E x \in Msp \X ChiaviPrivate : Arriva(x)

SpecPropagazione == InitPropagazione /\ [][NextPropagazione]_varsPropagazione

-----------------------------------------------------------------------------
(* Properties.                                                             *)

\* The calls the contract admits on ledger s for a client of msp.
Ammesse(s, msp) ==
    {<<"CreaReperto", r>> : r \in {r \in Reperti : AmmetteCreaReperto(s, msp, r)}}
    \cup {x \in {"RichiediAnalisi"} \X Reperti : AmmetteRichiediAnalisi(s, msp, x[2])}
    \cup {x \in {"AvviaTrasporto"} \X Reperti : AmmetteAvviaTrasporto(s, msp, x[2])}
    \cup {x \in {"RiceviInLaboratorio"} \X Reperti \X Laboratori :
            AmmetteRiceviInLaboratorio(s, msp, x[2], x[3])}
    \cup {x \in {"CompletaAnalisi"} \X Reperti : AmmetteCompletaAnalisi(s, msp, x[2])}
    \cup {x \in {"PreparaRiconsegna"} \X Reperti : AmmettePreparaRiconsegna(s, msp, x[2])}
    \cup {x \in {"DepositaInSede"} \X Reperti : AmmetteDepositaInSede(s, msp, x[2])}

\* With the peers the clients choose nobody has to wait for gossip: a step of
\* the life cycle is admitted where it is executed exactly when the complete
\* ledger admits it (the routing table of openOrgContract, workflow/fabric.go).
InstradamentoSufficiente ==
    \A msp \in Msp :
        Ammesse(Vista(msp, openOrgContract(msp)), msp) = Ammesse(stato, msp)

\* Late data delay the laboratory by no more than themselves.  From the request
\* of analysis on, its peer shows LAB the card PG and PM see on theirs as soon
\* as that peer has the exhibit's private data, and shows a file LAB can open
\* as soon as it has the record of the seizure report or of the decree: nothing
\* LAB needs is where its peer is not to receive it, and the one record that is
\* late hides no other (evaluateQuery, cmd/workflow/main.go).
LaboratorioServito ==
    LET peer == openOrgContract("LABMSP")
        v == Vista("LABMSP", peer)
        Leggi(msp, r) == ReadReperto(Vista(msp, openOrgContract(msp)), msp,
                                     openOrgContract(msp), r)
    IN  \A r \in RepertiNoti :
            LET p == Scheda(stato, r)
            IN  p.decreto # Nil =>
                    /\ <<peer, ChiavePrivatoPmLab(r)>> \notin manca =>
                        \A msp \in Msp : Leggi(msp, r) = Leggi("LABMSP", r)
                    /\ \A d \in {p.verbale, p.decreto} :
                        <<peer, ChiaveFile("PM_LAB", p.caso, d)>> \notin manca =>
                            Apre(LeggiDocumento(v, "LABMSP", peer, p.caso, d))

\* However late private data are, no reader gets a half truth: on any peer a
\* document or an evidence is what PM reads when nothing is missing, or an
\* error; the public side of an exhibit's card is complete everywhere.
LettureVere ==
    \A msp \in Msp, peer \in Msp :
        LET v == Vista(msp, peer)
        IN  /\ \A c \in Casi, d \in IdAtto :
                LeggiDocumento(v, msp, peer, c, d)
                    \in {Errore, LeggiDocumento(stato, "PMMSP", "PMMSP", c, d)}
            /\ \A c \in Casi, e \in IdEvidenze :
                LeggiEvidenza(v, msp, peer, c, e)
                    \in {Errore, LeggiEvidenza(stato, "PMMSP", "PMMSP", c, e)}
            /\ \A r \in RepertiNoti :
                ReadReperto(v, msp, peer, r).pubblica
                    = ReadReperto(stato, "PMMSP", "PMMSP", r).pubblica
=============================================================================
