------------------------- MODULE RaffinamentoProofs -------------------------
(***************************************************************************)
(* Proofs about the two refinements around Custodia, for every value of    *)
(* the constants: Custodia implements the life cycle of CicloVita, and     *)
(* Propagazione implements Custodia, as the peer a client of cmd/workflow  *)
(* or cmd/upload is routed to always has what the contract needs; besides, *)
(* a query tells the truth or fails, on any peer.                          *)
(***************************************************************************)
EXTENDS CustodiaCiclo, Propagazione, FascicoloProofs

-----------------------------------------------------------------------------
(* Custodia implements the life cycle.                                     *)

\* All the custody cards of a ledger.
Cartella(s) == [r \in Reperti |-> CartellaDi(s, r)]

\* The custody card of an exhibit that exists.
LEMMA CartellaNota ==
    ASSUME NEW s, NEW r \in Reperti, RepertoExists(s, r), Scheda(s, r) \in RepertoPublic,
           Privato(s, r) \in RepertoPrivate
    PROVE  /\ CartellaDi(s, r) = [fase |-> Scheda(s, r).stato,
                                  custode |-> Scheda(s, r).custode,
                                  sede |-> Privato(s, r).distretto,
                                  lab |-> Scheda(s, r).lab]
           /\ CartellaDi(s, r) # Nil
  <1>1. statoEffettivoReperto(Scheda(s, r)) = Scheda(s, r).stato
    BY NilAssumption DEF statoEffettivoReperto, RepertoPublic
  <1>2. CartellaDi(s, r) \in Cartelle
    BY <1>1 DEF CartellaDi, Cartelle, RepertoPublic, RepertoPrivate
  <1> QED  BY <1>1, <1>2, CartellaAssumption DEF CartellaDi

\* When the data of one exhibit only differ, its custody card only does.
LEMMA CambiaCartella ==
    ASSUME NEW s, NEW t, NEW r \in Reperti, NEW p, CartellaDi(t, r) = p,
           \A q \in Reperti \ {r} : /\ Scheda(t, q) = Scheda(s, q)
                                    /\ Privato(t, q) = Privato(s, q)
    PROVE  Cartella(t) = [Cartella(s) EXCEPT ![r] = p]
  <1>1. \A q \in Reperti \ {r} : CartellaDi(t, q) = CartellaDi(s, q)
    BY DEF CartellaDi, RepertoExists, Scheda
  <1> QED  BY <1>1 DEF Cartella

\* From the step of a card, from p to q, the step of the life cycle.
PassoDiCartella(r, p, q, sede) ==
    /\ /\ p.stato = "SEQUESTRATO" /\ q.stato = "ATTESA_TRASPORTO" /\ q.custode = p.custode
       => Ciclo!Incarica(r, q.lab)
    /\ /\ p.stato \in {"ATTESA_TRASPORTO", "ATTESA_RITIRO"}
       /\ q.stato = "IN_TRANSITO" /\ q.lab = p.lab
       => Ciclo!Preleva(r, q.custode)
    /\ /\ p.stato = "IN_TRANSITO" /\ q.stato = "IN_ANALISI"
       /\ q.custode = p.lab /\ q.lab = p.lab
       => Ciclo!ConsegnaAlLaboratorio(r)
    /\ /\ p.stato = "IN_ANALISI" /\ q.stato = "ATTESA_RITIRO"
       /\ q.custode = p.custode /\ q.lab = p.lab
       => Ciclo!Referta(r)
    /\ /\ p.stato = "IN_TRANSITO" /\ q.stato = "SEQUESTRATO"
       /\ q.custode = sede /\ q.lab = p.lab
       => Ciclo!Rientra(r)

\* The custody card of one exhibit moves on: which step of the life cycle it
\* takes can be told from the card before and after.
LEMMA CartellaPassa ==
    ASSUME NEW r \in Reperti, NEW p, NEW q, NEW sede,
           CartellaDi(stato, r) = [fase |-> p.stato, custode |-> p.custode,
                                   sede |-> sede, lab |-> p.lab],
           CartellaDi(stato, r) # Nil,
           Cartella(stato') = [Cartella(stato) EXCEPT ![r] =
                [fase |-> q.stato, custode |-> q.custode, sede |-> sede, lab |-> q.lab]]
    PROVE  PassoDiCartella(r, p, q, sede)
  <1> DEFINE c == CartellaDi(stato, r)
             d == [fase |-> q.stato, custode |-> q.custode, sede |-> sede, lab |-> q.lab]
  <1>0. [x \in Reperti |-> CartellaDi(stato, x)][r] = c
    OBVIOUS
  <1>1. \A fasi : p.stato \in fasi => Ciclo!Passa(r, fasi, d)
    BY DEF Ciclo!Passa, Cartella
  <1> HIDE DEF c, d
  <1>2. /\ c = [fase |-> p.stato, custode |-> p.custode, sede |-> sede, lab |-> p.lab]
        /\ c.sede = sede /\ c.lab = p.lab
    BY DEF c
  <1>3. q.lab = p.lab => [c EXCEPT !.fase = q.stato, !.custode = q.custode] = d
    <2> DEFINE e == [c EXCEPT !.fase = q.stato]
    <2>1. e = [fase |-> q.stato, custode |-> p.custode, sede |-> sede, lab |-> p.lab]
      BY <1>2
    <2>2. [c EXCEPT !.fase = q.stato, !.custode = q.custode] = [e EXCEPT !.custode = q.custode]
      OBVIOUS
    <2> HIDE DEF e
    <2>3. [e EXCEPT !.custode = q.custode]
            = [fase |-> q.stato, custode |-> q.custode, sede |-> sede, lab |-> p.lab]
      BY <2>1
    <2> QED  BY <2>2, <2>3 DEF d
  <1>4. q.custode = p.custode => [c EXCEPT !.fase = q.stato, !.lab = q.lab] = d
    <2> DEFINE e == [c EXCEPT !.fase = q.stato]
    <2>1. e = [fase |-> q.stato, custode |-> p.custode, sede |-> sede, lab |-> p.lab]
      BY <1>2
    <2>2. [c EXCEPT !.fase = q.stato, !.lab = q.lab] = [e EXCEPT !.lab = q.lab]
      OBVIOUS
    <2> HIDE DEF e
    <2>3. [e EXCEPT !.lab = q.lab]
            = [fase |-> q.stato, custode |-> p.custode, sede |-> sede, lab |-> q.lab]
      BY <2>1
    <2> QED  BY <2>2, <2>3 DEF d
  <1>5. q.lab = p.lab /\ q.custode = p.custode => [c EXCEPT !.fase = q.stato] = d
    BY <1>2 DEF d
  <1>6. ASSUME p.stato = "SEQUESTRATO", q.stato = "ATTESA_TRASPORTO", q.custode = p.custode
        PROVE  Ciclo!Incarica(r, q.lab)
    BY <1>0, <1>1, <1>4, <1>6 DEF Ciclo!Incarica
  <1>7. ASSUME p.stato \in {"ATTESA_TRASPORTO", "ATTESA_RITIRO"}, q.stato = "IN_TRANSITO",
               q.lab = p.lab
        PROVE  Ciclo!Preleva(r, q.custode)
    BY <1>0, <1>1, <1>3, <1>7 DEF Ciclo!Preleva
  <1>8. ASSUME p.stato = "IN_TRANSITO", q.stato = "IN_ANALISI", q.custode = p.lab, q.lab = p.lab
        PROVE  Ciclo!ConsegnaAlLaboratorio(r)
    <2>1. [c EXCEPT !.fase = "IN_ANALISI", !.custode = c.lab] = d
      BY <1>2, <1>3, <1>8
    <2> QED  BY <1>0, <1>1, <1>8, <2>1 DEF Ciclo!ConsegnaAlLaboratorio
  <1>9. ASSUME p.stato = "IN_ANALISI", q.stato = "ATTESA_RITIRO",
               q.custode = p.custode, q.lab = p.lab
        PROVE  Ciclo!Referta(r)
    BY <1>0, <1>1, <1>5, <1>9 DEF Ciclo!Referta
  <1>10. ASSUME p.stato = "IN_TRANSITO", q.stato = "SEQUESTRATO", q.custode = sede, q.lab = p.lab
         PROVE  Ciclo!Rientra(r)
    <2>1. [c EXCEPT !.fase = "SEQUESTRATO", !.custode = c.sede] = d
      BY <1>2, <1>3, <1>10
    <2> QED  BY <1>0, <1>1, <1>10, <2>1 DEF Ciclo!Rientra
  <1> QED  BY <1>6, <1>7, <1>8, <1>9, <1>10 DEF PassoDiCartella

\* A step of the contract is a step of the life cycle for one exhibit, or
\* leaves every custody card as it is.
LEMMA PassoCiclo ==
    ASSUME Base, Base', Cambiamento
    PROVE  [Ciclo!Next]_(Cartella(stato))
  <1> DEFINE C == Cartella(stato)
  <1>0. \A r \in Reperti : C[r] = CartellaDi(stato, r)
    BY DEF Cartella
  <1>1. CASE Fermo
    <2>1. \A q \in Reperti : CartellaDi(stato', q) = CartellaDi(stato, q)
      BY <1>1 DEF Fermo, SchedeUguali, CartellaDi, RepertoExists, Scheda
    <2> QED  BY <2>1 DEF Cartella
  <1>2. ASSUME NEW r \in Reperti, NEW priv \in RepertoPrivate, Nasce(r, priv)
        PROVE  Ciclo!Next
    <2>1. /\ Scheda(stato', r) = SchedaNuova(priv) /\ Privato(stato', r) = priv
          /\ Scheda(stato', r) \in RepertoPublic /\ C[r] = Nil
      BY <1>0, <1>2, TipataCreaReperto DEF Nasce, CartellaDi
    <2>2. RepertoExists(stato', r)
      BY <2>1, NilAssumption DEF RepertoExists, Scheda
    <2>3. CartellaDi(stato', r) = [fase |-> "SEQUESTRATO", custode |-> priv.distretto,
                                   sede |-> priv.distretto, lab |-> Nil]
      BY <2>1, <2>2, CartellaNota DEF SchedaNuova
    <2>4. Ciclo!Sequestra(r, priv.distretto)
      BY <1>2, <2>1, <2>3, CambiaCartella DEF Ciclo!Sequestra, Nasce, Cartella
    <2>5. priv.distretto \in Distretti
      BY DEF RepertoPrivate
    <2> QED  BY <2>4, <2>5 DEF Ciclo!Next
  <1>3. ASSUME NEW r \in Reperti, NEW q \in RepertoPublic, RepertoExists(stato, r),
               CambiaScheda(stato, stato', r, q)
        PROVE  LET p == Scheda(stato, r)
                   sede == Privato(stato, r).distretto
               IN  /\ p \in RepertoPublic
                   /\ C[r] = [fase |-> p.stato, custode |-> p.custode,
                              sede |-> sede, lab |-> p.lab]
                   /\ C[r] # Nil
                   /\ Cartella(stato')
                        = [C EXCEPT ![r] = [fase |-> q.stato, custode |-> q.custode,
                                            sede |-> sede, lab |-> q.lab]]
    <2>1. /\ Scheda(stato, r) \in RepertoPublic /\ Privato(stato, r) \in RepertoPrivate
      BY <1>3, SchedaTipata DEF Base, SchedeInOrdine, CustodiaDi
    <2>2. /\ Scheda(stato', r) = q /\ Privato(stato', r) = Privato(stato, r)
          /\ RepertoExists(stato', r)
      BY <1>3, NilAssumption DEF CambiaScheda, RepertoExists, Scheda
    <2>3. CartellaDi(stato', r) = [fase |-> q.stato, custode |-> q.custode,
                                   sede |-> Privato(stato, r).distretto, lab |-> q.lab]
      BY <2>1, <2>2, CartellaNota
    <2>4. Cartella(stato') = [C EXCEPT ![r] = CartellaDi(stato', r)]
      BY <1>3, CambiaCartella DEF CambiaScheda
    <2> QED  BY <1>0, <1>3, <2>1, <2>3, <2>4, CartellaNota
  <1>4. ASSUME NEW r \in Reperti, NEW q \in RepertoPublic, Avanza(r, q)
        PROVE  Ciclo!Next \/ Cartella(stato') = C
    <2> DEFINE p == Scheda(stato, r)
               sede == Privato(stato, r).distretto
               c == CartellaDi(stato, r)
    <2>1. /\ p \in RepertoPublic
          /\ c = [fase |-> p.stato, custode |-> p.custode, sede |-> sede, lab |-> p.lab]
          /\ c # Nil
          /\ Cartella(stato') = [C EXCEPT ![r] = [fase |-> q.stato, custode |-> q.custode,
                                                  sede |-> sede, lab |-> q.lab]]
      BY <1>0, <1>3, <1>4 DEF Avanza
    <2>0. PassoDiCartella(r, p, q, sede)
      BY <2>1, CartellaPassa
    <2>2. ASSUME NEW d \in IdDocumenti, q = [p EXCEPT !.verbale = d]
          PROVE  Cartella(stato') = C
      <3>1. q.stato = p.stato /\ q.custode = p.custode /\ q.lab = p.lab
        BY <2>1, <2>2 DEF RepertoPublic
      <3> QED  BY <2>1, <3>1 DEF Cartella
    <2>3. ASSUME NEW a \in Agenti, p.stato \in {"ATTESA_TRASPORTO", "ATTESA_RITIRO"},
                 q = [p EXCEPT !.stato = "IN_TRANSITO", !.custode = a]
          PROVE  Ciclo!Next
      <3>1. q.stato = "IN_TRANSITO" /\ q.custode = a /\ q.lab = p.lab
        BY <2>1, <2>3 DEF RepertoPublic
      <3>2. Ciclo!Preleva(r, a)
        BY <2>0, <2>3, <3>1 DEF PassoDiCartella
      <3> QED  BY <3>2 DEF Ciclo!Next
    <2>4. ASSUME p.stato = "IN_TRANSITO",
                 q = [p EXCEPT !.stato = "IN_ANALISI", !.custode = p.lab]
          PROVE  Ciclo!Next
      <3>1. q.stato = "IN_ANALISI" /\ q.custode = p.lab /\ q.lab = p.lab
        BY <2>1, <2>4 DEF RepertoPublic
      <3>2. Ciclo!ConsegnaAlLaboratorio(r)
        BY <2>0, <2>4, <3>1 DEF PassoDiCartella
      <3> QED  BY <3>2 DEF Ciclo!Next
    <2> QED  BY <1>4, <2>2, <2>3, <2>4 DEF Avanza, Semplice
  <1>5. ASSUME NEW r \in Reperti, NEW q \in RepertoPublic, NEW tx \in TxIds,
               NEW a \in FilePrivate, AvanzaConAtto(r, q, tx, a)
        PROVE  Ciclo!Next
    <2> DEFINE p == Scheda(stato, r)
               sede == Privato(stato, r).distretto
               c == CartellaDi(stato, r)
    <2>1. /\ p \in RepertoPublic
          /\ c = [fase |-> p.stato, custode |-> p.custode, sede |-> sede, lab |-> p.lab]
          /\ c # Nil
          /\ Cartella(stato') = [C EXCEPT ![r] = [fase |-> q.stato, custode |-> q.custode,
                                                  sede |-> sede, lab |-> q.lab]]
      BY <1>0, <1>3, <1>5 DEF AvanzaConAtto
    <2>0. PassoDiCartella(r, p, q, sede)
      BY <2>1, CartellaPassa
    <2>2. ASSUME a.ente \in Laboratori, p.stato = "SEQUESTRATO",
                 q = [p EXCEPT !.decreto = tx, !.caso = Privato(stato, r).caso,
                               !.lab = a.ente, !.stato = "ATTESA_TRASPORTO"]
          PROVE  Ciclo!Next
      <3>1. q.stato = "ATTESA_TRASPORTO" /\ q.custode = p.custode /\ q.lab = a.ente
        BY <2>1, <2>2 DEF RepertoPublic
      <3>2. Ciclo!Incarica(r, a.ente)
        BY <2>0, <2>2, <3>1 DEF PassoDiCartella
      <3> QED  BY <2>2, <3>2 DEF Ciclo!Next
    <2>3. ASSUME p.stato = "IN_ANALISI",
                 q = [p EXCEPT !.relazione = tx, !.stato = "ATTESA_RITIRO"]
          PROVE  Ciclo!Next
      <3>1. q.stato = "ATTESA_RITIRO" /\ q.custode = p.custode /\ q.lab = p.lab
        BY <2>1, <2>3 DEF RepertoPublic
      <3>2. Ciclo!Referta(r)
        BY <2>0, <2>3, <3>1 DEF PassoDiCartella
      <3> QED  BY <3>2 DEF Ciclo!Next
    <2>4. ASSUME p.stato = "IN_TRANSITO",
                 q = [p EXCEPT !.riconsegna = tx, !.stato = "SEQUESTRATO",
                               !.custode = sede]
          PROVE  Ciclo!Next
      <3>1. q.stato = "SEQUESTRATO" /\ q.custode = sede /\ q.lab = p.lab
        BY <2>1, <2>4 DEF RepertoPublic
      <3>2. Ciclo!Rientra(r)
        BY <2>0, <2>4, <3>1 DEF PassoDiCartella
      <3> QED  BY <3>2 DEF Ciclo!Next
    <2> QED  BY <1>5, <2>2, <2>3, <2>4 DEF AvanzaConAtto, ConAtto
  <1> QED  BY <1>1, <1>2, <1>4, <1>5 DEF Cambiamento

\* The ledger implements the life cycle: seen through the custody cards, the
\* transactions of the contract are the steps of CicloVita.
THEOREM CicloImplementato == Spec => ImplementaCiclo
  <1>1. Init => Ciclo!Init
    <2> SUFFICES ASSUME Init PROVE Ciclo!Init
      OBVIOUS
    <2>1. \A r \in Reperti : CartellaDi(stato, r) = Nil
      BY ValoriDelleChiavi DEF Init, RegistroVuoto, CartellaDi, RepertoExists
    <2> QED  BY <2>1 DEF Ciclo!Init
  <1>2. [Base /\ Base' /\ Cambiamento]_stato => [Ciclo!Next]_(Cartella(stato))
    <2>1. UNCHANGED stato => UNCHANGED Cartella(stato)
      OBVIOUS
    <2> QED  BY <2>1, PassoCiclo
  <1>3. [][Ciclo!Next]_(Cartella(stato))
            <=> [][Ciclo!Next]_([r \in Reperti |-> CartellaDi(stato, r)])
    BY DEF Cartella
  <1> QED  BY <1>1, <1>2, <1>3, BaseSempre, PTL DEF Spec, ImplementaCiclo, Ciclo!Spec

-----------------------------------------------------------------------------
(* The ledger on the peer of a client.                                     *)

\* Gossip never owes anything to PG: only PG's peer executes what writes to
\* collezione_PG_PM.
PgCompleto == \A x \in manca : x[1] # "PGMSP"

\* What a client of msp sees through the peer it is routed to.
VistaPropria(msp) == Vista(msp, openOrgContract(msp))

\* The routing table, and the collections each organisation belongs to.
LEMMA Instradamento ==
    /\ DOMAIN Membri = {"PG_PM", "PM_LAB"}
    /\ openOrgContract("PGMSP") = "PGMSP"
    /\ openOrgContract("PMMSP") = "PGMSP"
    /\ openOrgContract("LABMSP") = "LABMSP"
    /\ Membri["PG_PM"] = {"PGMSP", "PMMSP"}
    /\ Membri["PM_LAB"] = {"PMMSP", "LABMSP"}
  BY DEF Membri, openOrgContract, PeerWorkflow

\* A view hides values, and changes none; public keys it shows as they are.
LEMMA VistaVera ==
    ASSUME NEW msp, NEW peer
    PROVE  /\ Vista(msp, peer) = [k \in Chiavi |-> Vista(msp, peer)[k]]
           /\ \A k \in Chiavi : Vista(msp, peer)[k] \in {Nil, stato[k]}
           /\ \A k \in Chiavi : k[1] \notin {"PG_PM", "PM_LAB"}
                    => Vista(msp, peer)[k] = stato[k]
  BY Instradamento DEF Vista, ChiaviPrivate

\* A view has the types of the ledger, and the same cards.
LEMMA VistaTipata ==
    ASSUME Tipato(stato), NEW msp, NEW peer
    PROVE  /\ Tipato(Vista(msp, peer))
           /\ \A r \in Reperti :
                /\ Scheda(Vista(msp, peer), r) = Scheda(stato, r)
                /\ RepertoExists(Vista(msp, peer), r) <=> RepertoExists(stato, r)
                /\ \A S : InStato(Vista(msp, peer), r, S) <=> InStato(stato, r, S)
  <1> DEFINE v == Vista(msp, peer)
  <1>1. /\ v = [k \in Chiavi |-> v[k]]
        /\ \A k \in Chiavi : v[k] \in {Nil, stato[k]}
        /\ \A k \in Chiavi : k[1] \notin {"PG_PM", "PM_LAB"} => v[k] = stato[k]
    BY VistaVera
  <1> HIDE DEF v
  <1>2. Tipato(v)
    BY <1>1 DEF Tipato
  <1>3. \A r \in Reperti : v[ChiaveReperto(r)] = stato[ChiaveReperto(r)]
    <2>1. \A r \in Reperti : ChiaveReperto(r) \in Chiavi
      BY ValoriDelleChiavi
    <2>2. \A r \in Reperti : ChiaveReperto(r)[1] = "PUB"
      BY DEF ChiaveReperto
    <2> QED BY <1>1, <2>1, <2>2
  <1>4. \A r \in Reperti :
            /\ Scheda(v, r) = Scheda(stato, r)
            /\ RepertoExists(v, r) <=> RepertoExists(stato, r)
            /\ \A S : InStato(v, r, S) <=> InStato(stato, r, S)
    BY <1>3 DEF Scheda, RepertoExists, InStato
  <1> QED BY <1>2, <1>4 DEF v

\* PG and PM see all of collezione_PG_PM on PG's peer.
LEMMA VistaSufficiente ==
    ASSUME PgCompleto, NEW msp \in {"PGMSP", "PMMSP"},
           NEW k \in Chiavi, k[1] # "PM_LAB"
    PROVE  VistaPropria(msp)[k] = stato[k]
  <1>1. openOrgContract(msp) = "PGMSP"
    BY Instradamento
  <1>2. k \in ChiaviPrivate => k[1] = "PG_PM" /\ {msp, "PGMSP"} \subseteq Membri[k[1]]
    BY Instradamento DEF ChiaviPrivate
  <1>3. <<"PGMSP", k>> \notin manca
    BY DEF PgCompleto
  <1> QED BY <1>1, <1>2, <1>3 DEF VistaPropria, Vista

-----------------------------------------------------------------------------
(* The keys a call reads, by organisation.                                 *)

\* No call reads collezione_PM_LAB, and those of LAB read public keys only.
LEMMA LetturePerMsp ==
    ASSUME NEW s, NEW msp \in Msp, NEW tx, NEW R, NEW w, ValePer(s, msp, tx, R, w)
    PROVE  \A k \in R : /\ k[1] # "PM_LAB"
                        /\ msp = "LABMSP" => k[1] # "PG_PM"
  <1> DEFINE Bene == \A k \in R : k[1] # "PM_LAB" /\ (msp = "LABMSP" => k[1] # "PG_PM")
  <1>1. ASSUME ValeCreaReperto(s, msp, tx, R, w) PROVE Bene
    BY <1>1 DEF ValeCreaReperto, LetturaCreaReperto, ChiaveReperto
  <1>2. ASSUME ValeRegistraDocumento(s, msp, tx, R, w) PROVE Bene
    <2>1. PICK d \in IdDocumenti, c \in Casi, tipo \in TipiDocumento,
               r \in Reperti \cup {Nil} :
            /\ AmmetteRegistraDocumento(s, msp, d, c, tipo, r)
            /\ R = LetturaRegistraDocumento(d, c, r)
      BY <1>2 DEF ValeRegistraDocumento
    <2> QED BY <2>1 DEF LetturaRegistraDocumento, ChiaveDocumento, ChiaveReperto
  <1>3. ASSUME ValeRegistraEvidenza(s, msp, tx, R, w) PROVE Bene
    BY <1>3 DEF ValeRegistraEvidenza, AmmetteRegistraEvidenza, LetturaRegistraEvidenza,
                ChiaveEvidenza, ChiaveReperto
  <1>4. ASSUME ValeRichiediAnalisi(s, msp, tx, R, w) PROVE Bene
    BY <1>4 DEF ValeRichiediAnalisi, AmmetteRichiediAnalisi, LetturaRichiediAnalisi,
                ChiaveReperto, ChiavePrivatoReperto, ChiaveVerbale, ChiaveFile
  <1>5. ASSUME ValeAvviaTrasporto(s, msp, tx, R, w) PROVE Bene
    BY <1>5 DEF ValeAvviaTrasporto, LetturaScheda, ChiaveReperto
  <1>6. ASSUME ValeRiceviInLaboratorio(s, msp, tx, R, w) PROVE Bene
    BY <1>6 DEF ValeRiceviInLaboratorio, LetturaScheda, ChiaveReperto
  <1>7. ASSUME ValeCompletaAnalisi(s, msp, tx, R, w) PROVE Bene
    BY <1>7 DEF ValeCompletaAnalisi, LetturaScheda, ChiaveReperto
  <1>8. ASSUME ValePreparaRiconsegna(s, msp, tx, R, w) PROVE Bene
    BY <1>8 DEF ValePreparaRiconsegna, LetturaScheda, ChiaveReperto
  <1>9. ASSUME ValeDepositaInSede(s, msp, tx, R, w) PROVE Bene
    BY <1>9 DEF ValeDepositaInSede, AmmetteDepositaInSede, LetturaDepositaInSede,
                ChiaveReperto, ChiavePrivatoReperto
  <1> QED BY <1>1, <1>2, <1>3, <1>4, <1>5, <1>6, <1>7, <1>8, <1>9 DEF ValePer

\* A client of LAB writes nothing to collezione_PG_PM.
LEMMA ScrittureLab ==
    ASSUME NEW s, NEW tx, NEW R, NEW w, ValePer(s, "LABMSP", tx, R, w)
    PROVE  \A k \in DOMAIN w : k[1] # "PG_PM"
  <1> DEFINE Bene(g) == \A k \in DOMAIN g : k[1] # "PG_PM"
  <1>1. /\ \A f, g : Bene(f) /\ Bene(g) => Bene(f ++ g)
        /\ \A k, v : k[1] # "PG_PM" => Bene(Scrivi(k, v))
        /\ Bene(Niente)
    BY DEF ++, Scrivi, Niente
  <1> HIDE DEF Bene
  <1>2. \A r, p : Bene(SalvaScheda(r, p))
    BY <1>1 DEF SalvaScheda, ChiaveReperto
  <1>3. ASSUME NEW c, NEW d, NEW f, NEW priv, priv.tipo \notin TipiPg
        PROVE  Bene(putDocumento(c, d, f, priv))
    <2>1. Bene(Scrivi(ChiaveDocumento(c, d), [cid |-> f]))
      BY <1>1 DEF ChiaveDocumento
    <2>2. Bene(Scrivi(ChiaveFile(pdcCollectionForTipoDocumento(priv.tipo), c, d), priv))
      BY <1>1, <1>3 DEF ChiaveFile, pdcCollectionForTipoDocumento
    <2>3. Bene(IF priv.reperto = Nil THEN Niente
               ELSE Scrivi(ChiaveDocRep(priv.reperto, d), [caso |-> c]))
      BY <1>1 DEF ChiaveDocRep
    <2> QED BY <1>1, <2>1, <2>2, <2>3 DEF putDocumento
  <1>4. "LABMSP" # "PGMSP" /\ "LABMSP" # "PMMSP" /\ "RELAZIONE_TECNICA" \notin TipiPg
    BY DEF TipiPg
  <1>5. ASSUME ValeRegistraDocumento(s, "LABMSP", tx, R, w) PROVE Bene(w)
    <2>1. PICK d \in IdDocumenti, c \in Casi, tipo \in TipiDocumento,
               r \in Reperti \cup {Nil}, f \in File :
            /\ AmmetteRegistraDocumento(s, "LABMSP", d, c, tipo, r)
            /\ w = ScritturaRegistraDocumento(s, "LABMSP", d, c, tipo, r, f)
      BY <1>5 DEF ValeRegistraDocumento
    <2>2. tipo = "RELAZIONE_TECNICA"
      BY <1>4, <2>1 DEF AmmetteRegistraDocumento, requireMSPForTipoDocumento
    <2>3. aggiornaPuntatoreDocumentoSuReperto(s, r, d, tipo) = Niente
      BY <2>2 DEF aggiornaPuntatoreDocumentoSuReperto
    <2> DEFINE priv == [caso |-> c, reperto |-> r, tipo |-> tipo, autore |-> "LABMSP",
                        ente |-> Nil, chiave |-> f]
    <2>4. priv.tipo = tipo
      OBVIOUS
    <2>5. w = putDocumento(c, d, f, priv) ++ Niente
      BY <2>1, <2>3 DEF ScritturaRegistraDocumento
    <2> HIDE DEF priv
    <2> QED BY <1>1, <1>3, <1>4, <2>2, <2>4, <2>5
  <1>6. ASSUME ValeCompletaAnalisi(s, "LABMSP", tx, R, w) PROVE Bene(w)
    <2>1. PICK r \in Reperti, f \in File : w = ScritturaCompletaAnalisi(s, tx, "LABMSP", r, f)
      BY <1>6 DEF ValeCompletaAnalisi
    <2> DEFINE c == Scheda(s, r).caso
               priv == [caso |-> c, reperto |-> r, tipo |-> "RELAZIONE_TECNICA",
                        autore |-> "LABMSP", ente |-> Scheda(s, r).custode, chiave |-> f]
               q == [Scheda(s, r) EXCEPT !.relazione = tx, !.stato = "ATTESA_RITIRO"]
    <2>2. priv.tipo = "RELAZIONE_TECNICA"
      OBVIOUS
    <2>3. w = putDocumento(c, tx, f, priv) ++ SalvaScheda(r, q)
      BY <2>1 DEF ScritturaCompletaAnalisi, registraDocumentoAllegato
    <2> HIDE DEF priv, c, q
    <2> QED BY <1>1, <1>2, <1>3, <1>4, <2>2, <2>3
  <1>7. ASSUME ValeRiceviInLaboratorio(s, "LABMSP", tx, R, w) PROVE Bene(w)
    BY <1>2, <1>7 DEF ValeRiceviInLaboratorio, ScritturaRiceviInLaboratorio
  <1>8. ASSUME ValePreparaRiconsegna(s, "LABMSP", tx, R, w) PROVE Bene(w)
    BY <1>1, <1>8 DEF ValePreparaRiconsegna
  <1>9. /\ ~ValeCreaReperto(s, "LABMSP", tx, R, w)
        /\ ~ValeRegistraEvidenza(s, "LABMSP", tx, R, w)
        /\ ~ValeRichiediAnalisi(s, "LABMSP", tx, R, w)
        /\ ~ValeAvviaTrasporto(s, "LABMSP", tx, R, w)
        /\ ~ValeDepositaInSede(s, "LABMSP", tx, R, w)
    BY <1>4 DEF ValeCreaReperto, ValeRegistraEvidenza, ValeRichiediAnalisi,
                ValeAvviaTrasporto, ValeDepositaInSede, AmmetteCreaReperto,
                AmmetteRegistraEvidenza, AmmetteRichiediAnalisi, AmmetteAvviaTrasporto,
                AmmetteDepositaInSede
  <1> QED BY <1>5, <1>6, <1>7, <1>8, <1>9 DEF ValePer, Bene

-----------------------------------------------------------------------------
(* A call executed on a peer is a call on the complete ledger.             *)

\* The cards a peer shows name the laboratories the ledger names.
LEMMA CustodiNotiVista ==
    ASSUME Base, NEW msp, NEW peer
    PROVE  CustodiNoti(Vista(msp, peer))
  <1>1. \A r \in Reperti : InStato(stato, r, {"IN_ANALISI"})
            => Scheda(stato, r).custode \in Laboratori
    BY InStatoNoto DEF CustodiaDi
  <1> QED BY <1>1, VistaTipata DEF CustodiNoti, Base

\* What a client is admitted to on its peer it is admitted to on the complete
\* ledger, with the same writes.
LEMMA ValePropria ==
    ASSUME Base, PgCompleto, NEW msp \in Msp, NEW tx, NEW R, NEW w,
           ValePer(VistaPropria(msp), msp, tx, R, w)
    PROVE  /\ ValePer(stato, msp, tx, R, w)
           /\ tx \in TxIds \cup {Nil} /\ Tipata(w)
  <1> DEFINE v == VistaPropria(msp)
  <1>1. Tipato(v) /\ CustodiNoti(v)
    BY VistaTipata, CustodiNotiVista DEF VistaPropria, Base
  <1>2. tx \in TxIds \cup {Nil} /\ R \subseteq Chiavi /\ Tipata(w)
    BY <1>1, ValeTipata
  <1>3. \A k \in R : k[1] # "PM_LAB" /\ (msp = "LABMSP" => k[1] # "PG_PM")
    BY LetturePerMsp
  <1>4. \A k \in R : stato[k] = v[k]
    <2>1. CASE msp = "LABMSP"
      BY <1>2, <1>3, <2>1, VistaVera DEF VistaPropria
    <2>2. CASE msp \in {"PGMSP", "PMMSP"}
      BY <1>2, <1>3, <2>2, VistaSufficiente
    <2> QED BY <2>1, <2>2 DEF Msp
  <1> HIDE DEF v
  <1>5. ValePer(v, msp, tx, R, w)
    BY DEF v
  <1>6. ValePer(stato, msp, tx, R, w)
    BY <1>4, <1>5, BastaLaLettura
  <1> QED BY <1>2, <1>6

\* Every call is one of the contract's, with a transaction id of its own.
LEMMA ChiamataVale ==
    ASSUME NEW msp \in Msp, Chiamata(msp)
    PROVE  \E tx, R, w :
            /\ ValePer(VistaPropria(msp), msp, tx, R, w)
            /\ tx # Nil => TxNuova(stato, tx)
            /\ Esegue(msp, TRUE, w)
  <1> DEFINE v == VistaPropria(msp)
             Nuove == {tx \in TxIds : TxNuova(stato, tx)}
             Fatto(tx, R, w) == /\ ValePer(v, msp, tx, R, w)
                                /\ tx # Nil => TxNuova(stato, tx)
                                /\ Esegue(msp, TRUE, w)
  <1>0. Vista(msp, openOrgContract(msp)) = v
    BY DEF VistaPropria
  <1>1. ASSUME NEW r \in Reperti, NEW priv \in RepertoPrivate,
               Esegue(msp, AmmetteCreaReperto(v, msp, r), ScritturaCreaReperto(r, priv))
        PROVE  \E tx, R, w : Fatto(tx, R, w)
    <2>0. AmmetteCreaReperto(v, msp, r) /\ Esegue(msp, TRUE, ScritturaCreaReperto(r, priv))
      BY <1>1 DEF Esegue
    <2>1. ValeCreaReperto(v, msp, Nil, LetturaCreaReperto(r), ScritturaCreaReperto(r, priv))
      BY <2>0 DEF ValeCreaReperto
    <2>2. ValePer(v, msp, Nil, LetturaCreaReperto(r), ScritturaCreaReperto(r, priv))
      BY <2>1 DEF ValePer
    <2>4. Fatto(Nil, LetturaCreaReperto(r), ScritturaCreaReperto(r, priv))
      BY <2>0, <2>2
    <2> QED BY <2>4
  <1>2. ASSUME NEW d \in IdDocumenti, NEW c \in Casi, NEW tipo \in TipiDocumento,
               NEW r \in Reperti \cup {Nil}, NEW f \in File,
               Esegue(msp, AmmetteRegistraDocumento(v, msp, d, c, tipo, r),
                      ScritturaRegistraDocumento(v, msp, d, c, tipo, r, f))
        PROVE  \E tx, R, w : Fatto(tx, R, w)
    <2> DEFINE R == LetturaRegistraDocumento(d, c, r)
               w == ScritturaRegistraDocumento(v, msp, d, c, tipo, r, f)
    <2>0. AmmetteRegistraDocumento(v, msp, d, c, tipo, r) /\ Esegue(msp, TRUE, w)
      BY <1>2 DEF Esegue
    <2>1. ValeRegistraDocumento(v, msp, Nil, R, w)
      BY <2>0 DEF ValeRegistraDocumento
    <2>2. ValePer(v, msp, Nil, R, w)
      BY <2>1 DEF ValePer
    <2>4. Fatto(Nil, R, w)
      BY <2>0, <2>2
    <2> QED BY <2>4
  <1>3. ASSUME NEW e \in IdEvidenze, NEW c \in Casi, NEW r \in Reperti \cup {Nil},
               NEW f \in File,
               Esegue(msp, AmmetteRegistraEvidenza(v, msp, e, c, r),
                      ScritturaRegistraEvidenza(msp, e, c, r, f))
        PROVE  \E tx, R, w : Fatto(tx, R, w)
    <2> DEFINE R == LetturaRegistraEvidenza(e, c, r)
               w == ScritturaRegistraEvidenza(msp, e, c, r, f)
    <2>0. AmmetteRegistraEvidenza(v, msp, e, c, r) /\ Esegue(msp, TRUE, w)
      BY <1>3 DEF Esegue
    <2>1. ValeRegistraEvidenza(v, msp, Nil, R, w)
      BY <2>0 DEF ValeRegistraEvidenza
    <2>2. ValePer(v, msp, Nil, R, w)
      BY <2>1 DEF ValePer
    <2>4. Fatto(Nil, R, w)
      BY <2>0, <2>2
    <2> QED BY <2>4
  <1>4. ASSUME NEW tx \in Nuove, NEW r \in Reperti, NEW lab \in Laboratori, NEW f \in File,
               Esegue(msp, AmmetteRichiediAnalisi(v, msp, r),
                      ScritturaRichiediAnalisi(v, tx, msp, r, lab, f))
        PROVE  \E t, R, w : Fatto(t, R, w)
    <2> DEFINE R == LetturaRichiediAnalisi(v, r)
               w == ScritturaRichiediAnalisi(v, tx, msp, r, lab, f)
    <2>0. AmmetteRichiediAnalisi(v, msp, r) /\ Esegue(msp, TRUE, w)
      BY <1>4 DEF Esegue
    <2>1. ValeRichiediAnalisi(v, msp, tx, R, w)
      BY <2>0 DEF ValeRichiediAnalisi
    <2>2. ValePer(v, msp, tx, R, w)
      BY <2>1 DEF ValePer
    <2>4. Fatto(tx, R, w)
      BY <2>0, <2>2
    <2> QED BY <2>4
  <1>5. ASSUME NEW r \in Reperti, NEW agente \in Agenti,
               Esegue(msp, AmmetteAvviaTrasporto(v, msp, r),
                      ScritturaAvviaTrasporto(v, r, agente))
        PROVE  \E tx, R, w : Fatto(tx, R, w)
    <2> DEFINE w == ScritturaAvviaTrasporto(v, r, agente)
    <2>0. AmmetteAvviaTrasporto(v, msp, r) /\ Esegue(msp, TRUE, w)
      BY <1>5 DEF Esegue
    <2>1. ValeAvviaTrasporto(v, msp, Nil, LetturaScheda(r), w)
      BY <2>0 DEF ValeAvviaTrasporto
    <2>2. ValePer(v, msp, Nil, LetturaScheda(r), w)
      BY <2>1 DEF ValePer
    <2>4. Fatto(Nil, LetturaScheda(r), w)
      BY <2>0, <2>2
    <2> QED BY <2>4
  <1>6. ASSUME NEW r \in Reperti, NEW lab \in Laboratori,
               Esegue(msp, AmmetteRiceviInLaboratorio(v, msp, r, lab),
                      ScritturaRiceviInLaboratorio(v, r, lab))
        PROVE  \E tx, R, w : Fatto(tx, R, w)
    <2> DEFINE w == ScritturaRiceviInLaboratorio(v, r, lab)
    <2>0. AmmetteRiceviInLaboratorio(v, msp, r, lab) /\ Esegue(msp, TRUE, w)
      BY <1>6 DEF Esegue
    <2>1. ValeRiceviInLaboratorio(v, msp, Nil, LetturaScheda(r), w)
      BY <2>0 DEF ValeRiceviInLaboratorio
    <2>2. ValePer(v, msp, Nil, LetturaScheda(r), w)
      BY <2>1 DEF ValePer
    <2>4. Fatto(Nil, LetturaScheda(r), w)
      BY <2>0, <2>2
    <2> QED BY <2>4
  <1>7. ASSUME NEW tx \in Nuove, NEW r \in Reperti, NEW f \in File,
               Esegue(msp, AmmetteCompletaAnalisi(v, msp, r),
                      ScritturaCompletaAnalisi(v, tx, msp, r, f))
        PROVE  \E t, R, w : Fatto(t, R, w)
    <2> DEFINE w == ScritturaCompletaAnalisi(v, tx, msp, r, f)
    <2>0. AmmetteCompletaAnalisi(v, msp, r) /\ Esegue(msp, TRUE, w)
      BY <1>7 DEF Esegue
    <2>1. ValeCompletaAnalisi(v, msp, tx, LetturaScheda(r), w)
      BY <2>0 DEF ValeCompletaAnalisi
    <2>2. ValePer(v, msp, tx, LetturaScheda(r), w)
      BY <2>1 DEF ValePer
    <2>4. Fatto(tx, LetturaScheda(r), w)
      BY <2>0, <2>2
    <2> QED BY <2>4
  <1>8. ASSUME NEW r \in Reperti, Esegue(msp, AmmettePreparaRiconsegna(v, msp, r), Niente)
        PROVE  \E tx, R, w : Fatto(tx, R, w)
    <2>0. AmmettePreparaRiconsegna(v, msp, r) /\ Esegue(msp, TRUE, Niente)
      BY <1>8 DEF Esegue
    <2>1. ValePreparaRiconsegna(v, msp, Nil, LetturaScheda(r), Niente)
      BY <2>0 DEF ValePreparaRiconsegna
    <2>2. ValePer(v, msp, Nil, LetturaScheda(r), Niente)
      BY <2>1 DEF ValePer
    <2>4. Fatto(Nil, LetturaScheda(r), Niente)
      BY <2>0, <2>2
    <2> QED BY <2>4
  <1>9. ASSUME NEW tx \in Nuove, NEW r \in Reperti, NEW f \in File,
               Esegue(msp, AmmetteDepositaInSede(v, msp, r),
                      ScritturaDepositaInSede(v, tx, msp, r, f))
        PROVE  \E t, R, w : Fatto(t, R, w)
    <2> DEFINE R == LetturaDepositaInSede(r)
               w == ScritturaDepositaInSede(v, tx, msp, r, f)
    <2>0. AmmetteDepositaInSede(v, msp, r) /\ Esegue(msp, TRUE, w)
      BY <1>9 DEF Esegue
    <2>1. ValeDepositaInSede(v, msp, tx, R, w)
      BY <2>0 DEF ValeDepositaInSede
    <2>2. ValePer(v, msp, tx, R, w)
      BY <2>1 DEF ValePer
    <2>4. Fatto(tx, R, w)
      BY <2>0, <2>2
    <2> QED BY <2>4
  <1> HIDE DEF Fatto, v
  <1>10. \E tx, R, w : Fatto(tx, R, w)
    BY <1>0, <1>1, <1>2, <1>3, <1>4, <1>5, <1>6, <1>7, <1>8, <1>9 DEF Chiamata
  <1> QED BY <1>10 DEF Fatto, v

\* A call on the complete ledger is a step of the contract.
LEMMA PassoContratto ==
    ASSUME Tipato(stato), NEW msp \in Msp, NEW tx, NEW R, NEW w,
           ValePer(stato, msp, tx, R, w),
           tx # Nil => TxNuova(stato, tx),
           stato' = stato ++ w
    PROVE  Next
  <1>1. ASSUME ValeCreaReperto(stato, msp, tx, R, w) PROVE Next
    BY <1>1 DEF ValeCreaReperto, CreaReperto, Next
  <1>2. ASSUME ValeRegistraDocumento(stato, msp, tx, R, w) PROVE Next
    BY <1>2 DEF ValeRegistraDocumento, RegistraDocumento, Next
  <1>3. ASSUME ValeRegistraEvidenza(stato, msp, tx, R, w) PROVE Next
    BY <1>3 DEF ValeRegistraEvidenza, RegistraEvidenza, Next
  <1>4. ASSUME ValeRichiediAnalisi(stato, msp, tx, R, w) PROVE Next
    BY <1>4, NilAssumption DEF ValeRichiediAnalisi, RichiediAnalisi, Next
  <1>5. ASSUME ValeAvviaTrasporto(stato, msp, tx, R, w) PROVE Next
    BY <1>5 DEF ValeAvviaTrasporto, AvviaTrasporto, Next
  <1>6. ASSUME ValeRiceviInLaboratorio(stato, msp, tx, R, w) PROVE Next
    BY <1>6 DEF ValeRiceviInLaboratorio, RiceviInLaboratorio, Next
  <1>7. ASSUME ValeCompletaAnalisi(stato, msp, tx, R, w) PROVE Next
    BY <1>7, NilAssumption DEF ValeCompletaAnalisi, CompletaAnalisi, Next
  <1>8. ASSUME ValePreparaRiconsegna(stato, msp, tx, R, w) PROVE Next
    <2>1. w = Niente => stato' = stato
      BY DEF ++, Niente, Tipato
    <2> QED BY <1>8, <2>1 DEF ValePreparaRiconsegna, PreparaRiconsegna, Next
  <1>9. ASSUME ValeDepositaInSede(stato, msp, tx, R, w) PROVE Next
    BY <1>9, NilAssumption DEF ValeDepositaInSede, DepositaInSede, Next
  <1> QED BY <1>1, <1>2, <1>3, <1>4, <1>5, <1>6, <1>7, <1>8, <1>9 DEF ValePer

\* What a call leaves to be delivered is for members other than the peer that
\* executed it; PG's peer executes all that is written to collezione_PG_PM.
LEMMA ConsegneAltrui ==
    ASSUME PgCompleto, NEW msp \in Msp, NEW w, Esegue(msp, TRUE, w),
           msp = "LABMSP" => \A k \in DOMAIN w : k[1] # "PG_PM"
    PROVE  PgCompleto'
  <1> DEFINE peer == openOrgContract(msp)
  <1>1. PICK tardi \in SUBSET Consegne(peer, w) :
            manca' = {x \in manca : x[2] \notin DOMAIN w} \cup tardi
    BY DEF Esegue
  <1>2. ASSUME NEW x \in Consegne(peer, w) PROVE x[1] # "PGMSP"
    <2>1. /\ x \in Msp \X (ChiaviPrivate \cap DOMAIN w)
          /\ x[1] # peer /\ x[1] \in Membri[x[2][1]]
      BY <1>2 DEF Consegne
    <2>2. x[2] \in DOMAIN w /\ x[2][1] \in DOMAIN Membri
      BY <2>1 DEF ChiaviPrivate
    <2>3. CASE msp = "LABMSP"
      <3>1. x[2][1] = "PM_LAB"
        BY <2>2, <2>3, Instradamento
      <3> QED BY <2>1, <3>1, Instradamento
    <2>4. CASE msp \in {"PGMSP", "PMMSP"}
      <3>1. peer = "PGMSP"
        BY <2>4, Instradamento
      <3> QED BY <2>1, <3>1
    <2> QED BY <2>3, <2>4 DEF Msp
  <1> HIDE DEF peer
  <1> QED BY <1>1, <1>2 DEF PgCompleto

\* Every step is one of the contract or leaves the ledger as it is.
LEMMA PassoPropagazione ==
    ASSUME Base, PgCompleto, [NextPropagazione]_varsPropagazione
    PROVE  PgCompleto' /\ [Next]_vars
  <1>1. ASSUME NEW msp \in Msp, Chiamata(msp) PROVE PgCompleto' /\ Next
    <2>1. PICK tx, R, w : /\ ValePer(VistaPropria(msp), msp, tx, R, w)
                          /\ tx # Nil => TxNuova(stato, tx)
                          /\ Esegue(msp, TRUE, w)
      BY <1>1, ChiamataVale
    <2>2. ValePer(stato, msp, tx, R, w)
      BY <2>1, ValePropria
    <2>3. stato' = stato ++ w
      BY <2>1 DEF Esegue
    <2>4. Next
      BY <2>1, <2>2, <2>3, PassoContratto DEF Base
    <2>5. msp = "LABMSP" => \A k \in DOMAIN w : k[1] # "PG_PM"
      BY <2>2, ScrittureLab
    <2> QED BY <2>1, <2>4, <2>5, ConsegneAltrui
  <1>2. ASSUME NEW x, Arriva(x) PROVE PgCompleto' /\ UNCHANGED stato
    BY <1>2 DEF Arriva, PgCompleto
  <1>3. CASE UNCHANGED varsPropagazione
    BY <1>3 DEF varsPropagazione, PgCompleto, vars
  <1> QED BY <1>1, <1>2, <1>3 DEF NextPropagazione, vars

\* Late private data change nothing of the custody: what is committed is what
\* the contract does on the complete ledger, one call at a time.
THEOREM PropagazioneImplementaCustodia == SpecPropagazione => Spec /\ []PgCompleto
  <1>1. InitPropagazione => Base /\ PgCompleto /\ Init
    BY InizioBase DEF InitPropagazione, PgCompleto
  <1>2. Base /\ PgCompleto /\ [NextPropagazione]_varsPropagazione
            => Base' /\ PgCompleto' /\ [Next]_vars
    BY PassoPropagazione, PassoBase
  <1> QED BY <1>1, <1>2, PTL DEF SpecPropagazione, Spec

-----------------------------------------------------------------------------
(* The routing table is enough.                                            *)

\* What PG and PM read of the private data of an exhibit and of its verbale.
LEMMA PrivatiVisti ==
    ASSUME Base, PgCompleto, NEW msp \in {"PGMSP", "PMMSP"}, NEW r \in Reperti
    PROVE  LET v == VistaPropria(msp)
           IN  /\ Privato(v, r) = Privato(stato, r)
               /\ Privato(stato, r) # Nil /\ RepertoExists(stato, r)
                    /\ Scheda(stato, r).verbale # Nil
                  => v[ChiaveVerbale(v, r, "PG_PM")]
                        = stato[ChiaveVerbale(stato, r, "PG_PM")]
  <1> DEFINE v == VistaPropria(msp)
  <1>1. Privato(v, r) = Privato(stato, r)
    <2>1. ChiavePrivatoReperto(r) \in Chiavi
      BY ValoriDelleChiavi
    <2>2. ChiavePrivatoReperto(r)[1] # "PM_LAB"
      BY DEF ChiavePrivatoReperto
    <2> QED BY <2>1, <2>2, VistaSufficiente DEF Privato
  <1>2. Scheda(v, r) = Scheda(stato, r)
    BY VistaTipata DEF VistaPropria, Base
  <1>3. ASSUME Privato(stato, r) # Nil, RepertoExists(stato, r),
               Scheda(stato, r).verbale # Nil
        PROVE  v[ChiaveVerbale(stato, r, "PG_PM")] = stato[ChiaveVerbale(stato, r, "PG_PM")]
    <2> DEFINE c == Privato(stato, r).caso
               d == Scheda(stato, r).verbale
    <2>1. c \in Casi /\ d \in IdAtto
      <3>1. Privato(stato, r) \in RepertoPrivate /\ Scheda(stato, r) \in RepertoPublic
        BY <1>3, SchedaTipata DEF Base
      <3> QED BY <1>3, <3>1 DEF RepertoPrivate, RepertoPublic, AttoONil
    <2> HIDE DEF c, d
    <2>2. ChiaveFile("PG_PM", c, d) \in Chiavi
      BY <2>1, ValoriDelleChiavi DEF Id
    <2>3. ChiaveFile("PG_PM", c, d)[1] # "PM_LAB"
      BY DEF ChiaveFile
    <2>4. v[ChiaveFile("PG_PM", c, d)] = stato[ChiaveFile("PG_PM", c, d)]
      BY <2>2, <2>3, VistaSufficiente
    <2> QED BY <2>4 DEF ChiaveVerbale, c, d
  <1>4. ChiaveVerbale(v, r, "PG_PM") = ChiaveVerbale(stato, r, "PG_PM")
    BY <1>1, <1>2 DEF ChiaveVerbale
  <1> QED BY <1>1, <1>3, <1>4

\* A client is admitted through its peer to what the complete ledger admits.
LEMMA StesseAmmissioni ==
    ASSUME Base, PgCompleto, NEW msp \in Msp, NEW r \in Reperti
    PROVE  LET v == VistaPropria(msp)
           IN  /\ AmmetteCreaReperto(v, msp, r) <=> AmmetteCreaReperto(stato, msp, r)
               /\ AmmetteRichiediAnalisi(v, msp, r) <=> AmmetteRichiediAnalisi(stato, msp, r)
               /\ AmmetteAvviaTrasporto(v, msp, r) <=> AmmetteAvviaTrasporto(stato, msp, r)
               /\ \A lab : AmmetteRiceviInLaboratorio(v, msp, r, lab)
                            <=> AmmetteRiceviInLaboratorio(stato, msp, r, lab)
               /\ AmmetteCompletaAnalisi(v, msp, r) <=> AmmetteCompletaAnalisi(stato, msp, r)
               /\ AmmettePreparaRiconsegna(v, msp, r)
                            <=> AmmettePreparaRiconsegna(stato, msp, r)
               /\ AmmetteDepositaInSede(v, msp, r) <=> AmmetteDepositaInSede(stato, msp, r)
  <1> DEFINE v == VistaPropria(msp)
  <1>1. /\ Scheda(v, r) = Scheda(stato, r)
        /\ RepertoExists(v, r) <=> RepertoExists(stato, r)
        /\ \A S : InStato(v, r, S) <=> InStato(stato, r, S)
    BY VistaTipata DEF VistaPropria, Base
  <1>2. msp \in {"PGMSP", "PMMSP"} =>
            /\ Privato(v, r) = Privato(stato, r)
            /\ Privato(stato, r) # Nil /\ RepertoExists(stato, r)
                    /\ Scheda(stato, r).verbale # Nil
                  => v[ChiaveVerbale(v, r, "PG_PM")]
                        = stato[ChiaveVerbale(stato, r, "PG_PM")]
    BY PrivatiVisti
  <1> HIDE DEF v
  <1>3. AmmetteCreaReperto(v, msp, r) <=> AmmetteCreaReperto(stato, msp, r)
    BY <1>1 DEF AmmetteCreaReperto
  <1>4. AmmetteRichiediAnalisi(v, msp, r) <=> AmmetteRichiediAnalisi(stato, msp, r)
    <2>1. \A s : AmmetteRichiediAnalisi(s, msp, r) => RepertoExists(s, r) /\ msp = "PMMSP"
      BY DEF AmmetteRichiediAnalisi, InStato
    <2> QED BY <1>1, <1>2, <2>1 DEF AmmetteRichiediAnalisi
  <1>5. AmmetteAvviaTrasporto(v, msp, r) <=> AmmetteAvviaTrasporto(stato, msp, r)
    BY <1>1 DEF AmmetteAvviaTrasporto
  <1>6. \A lab : AmmetteRiceviInLaboratorio(v, msp, r, lab)
                    <=> AmmetteRiceviInLaboratorio(stato, msp, r, lab)
    BY <1>1 DEF AmmetteRiceviInLaboratorio
  <1>7. AmmetteCompletaAnalisi(v, msp, r) <=> AmmetteCompletaAnalisi(stato, msp, r)
    BY <1>1 DEF AmmetteCompletaAnalisi
  <1>8. AmmettePreparaRiconsegna(v, msp, r) <=> AmmettePreparaRiconsegna(stato, msp, r)
    BY <1>1 DEF AmmettePreparaRiconsegna
  <1>9. AmmetteDepositaInSede(v, msp, r) <=> AmmetteDepositaInSede(stato, msp, r)
    BY <1>1, <1>2 DEF AmmetteDepositaInSede, CasoDelReperto
  <1> QED BY <1>3, <1>4, <1>5, <1>6, <1>7, <1>8, <1>9 DEF v

\* Nobody has to wait for gossip: where the clients send it, a step of the
\* life cycle is admitted exactly when the complete ledger admits it.
THEOREM InstradamentoSempreSufficiente ==
    SpecPropagazione => []InstradamentoSufficiente
  <1>1. ASSUME Base, PgCompleto, NEW msp \in Msp
        PROVE  Ammesse(VistaPropria(msp), msp) = Ammesse(stato, msp)
    BY <1>1, StesseAmmissioni DEF Ammesse
  <1>2. Base /\ PgCompleto => InstradamentoSufficiente
    BY <1>1 DEF InstradamentoSufficiente, VistaPropria
  <1> QED BY <1>2, PropagazioneImplementaCustodia, BaseSempre, PTL

-----------------------------------------------------------------------------
(* What queries return while private data are missing.                     *)

\* A document looked up on any peer gives nothing, or the record PM reads
\* when nothing is missing.
LEMMA DocumentoTrovato ==
    ASSUME NEW msp \in Msp, NEW peer \in Msp, NEW c \in Casi, NEW d \in IdAtto,
           DocumentoInOrdine(stato, c, d)
    PROVE  tryLoadDocumentoPrivate(Vista(msp, peer), msp, peer, c, d)
                \in {Nil, tryLoadDocumentoPrivate(stato, "PMMSP", "PMMSP", c, d)}
  <1> DEFINE v == Vista(msp, peer)
             kg == ChiaveFile("PG_PM", c, d)
             kl == ChiaveFile("PM_LAB", c, d)
  <1>1. v[kg] \in {Nil, stato[kg]} /\ v[kl] \in {Nil, stato[kl]}
    BY VistaVera, ValoriDelleChiavi DEF Id
  <1>2. stato[kg] # Nil => stato[kl] \in {Nil, stato[kg]}
    BY DEF DocumentoInOrdine
  <1>3. \A pdc, k : Trova(v, pdc, k, msp, peer) \in {Nil, v[k]}
    BY DEF Trova
  <1>4. \A k : /\ Trova(stato, "PG_PM", k, "PMMSP", "PMMSP") = stato[k]
               /\ Trova(stato, "PM_LAB", k, "PMMSP", "PMMSP") = stato[k]
    BY Instradamento DEF Trova
  <1>5. tryLoadDocumentoPrivate(stato, "PMMSP", "PMMSP", c, d)
            = IF stato[kg] # Nil THEN stato[kg] ELSE stato[kl]
    BY <1>4 DEF tryLoadDocumentoPrivate
  <1>6. tryLoadDocumentoPrivate(v, msp, peer, c, d) \in {Nil, v[kg], v[kl]}
    BY <1>3 DEF tryLoadDocumentoPrivate
  <1>7. /\ stato[kg] = Nil => v[kg] = Nil
        /\ stato[kl] = Nil => v[kl] = Nil
    BY <1>1
  <1> HIDE DEF v, kg, kl
  <1>8. tryLoadDocumentoPrivate(v, msp, peer, c, d)
            \in {Nil, tryLoadDocumentoPrivate(stato, "PMMSP", "PMMSP", c, d)}
    BY <1>1, <1>2, <1>5, <1>6, <1>7
  <1> QED BY <1>8 DEF v

\* A document read on any peer is the one PM reads when nothing is missing, or
\* an error.
LEMMA DocumentoVero ==
    ASSUME NEW msp \in Msp, NEW peer \in Msp, NEW c \in Casi, NEW d \in IdAtto,
           DocumentoInOrdine(stato, c, d)
    PROVE  LeggiDocumento(Vista(msp, peer), msp, peer, c, d)
                \in {Errore, LeggiDocumento(stato, "PMMSP", "PMMSP", c, d)}
  <1> DEFINE v == Vista(msp, peer)
             pub == stato[ChiaveDocumento(c, d)]
             priv == tryLoadDocumentoPrivate(v, msp, peer, c, d)
             intero == tryLoadDocumentoPrivate(stato, "PMMSP", "PMMSP", c, d)
  <1>1. v[ChiaveDocumento(c, d)] = pub
    <2>1. ChiaveDocumento(c, d) \in Chiavi
      BY ValoriDelleChiavi
    <2>2. ChiaveDocumento(c, d)[1] \notin {"PG_PM", "PM_LAB"}
      BY DEF ChiaveDocumento
    <2> QED BY <2>1, <2>2, VistaVera
  <1>2. priv \in {Nil, intero}
    BY DocumentoTrovato
  <1>3. /\ loadDocumentoMerged(v, msp, peer, c, d) = Unito(pub, priv, c)
        /\ loadDocumentoMerged(stato, "PMMSP", "PMMSP", c, d) = Unito(pub, intero, c)
    BY <1>1 DEF loadDocumentoMerged
  <1> HIDE DEF v, pub, priv, intero
  <1>4. CASE priv = intero
    BY <1>3, <1>4 DEF LeggiDocumento, v
  <1>5. CASE priv = Nil
    <2>1. Unito(pub, Nil, c) \in {Errore, [cid |-> pub.cid, privato |-> Nil]}
      BY DEF Unito
    <2>2. [cid |-> pub.cid, privato |-> Nil].privato = Nil
      OBVIOUS
    <2>3. LeggiDocumento(v, msp, peer, c, d) = Errore
      BY <1>3, <1>5, <2>1, <2>2 DEF LeggiDocumento
    <2> QED BY <2>3 DEF v
  <1> QED BY <1>2, <1>4, <1>5

\* The same of evidence.
LEMMA EvidenzaVera ==
    ASSUME NEW msp \in Msp, NEW peer \in Msp, NEW c \in Casi, NEW e \in IdEvidenze
    PROVE  LeggiEvidenza(Vista(msp, peer), msp, peer, c, e)
                \in {Errore, LeggiEvidenza(stato, "PMMSP", "PMMSP", c, e)}
  <1> DEFINE v == Vista(msp, peer)
             pub == stato[ChiaveEvidenza(c, e)]
             priv == loadEvidenzaPrivate(v, msp, peer, c, e)
             intero == loadEvidenzaPrivate(stato, "PMMSP", "PMMSP", c, e)
  <1>1. v[ChiaveEvidenza(c, e)] = pub
    <2>1. ChiaveEvidenza(c, e) \in Chiavi
      BY ValoriDelleChiavi
    <2>2. ChiaveEvidenza(c, e)[1] \notin {"PG_PM", "PM_LAB"}
      BY DEF ChiaveEvidenza
    <2> QED BY <2>1, <2>2, VistaVera
  <1>2. priv \in {Nil, intero}
    <2>1. v[ChiaveFile("PG_PM", c, e)] \in {Nil, stato[ChiaveFile("PG_PM", c, e)]}
      BY VistaVera, ValoriDelleChiavi DEF Id
    <2>2. intero = stato[ChiaveFile("PG_PM", c, e)]
      BY Instradamento DEF loadEvidenzaPrivate, Trova
    <2>3. priv \in {Nil, v[ChiaveFile("PG_PM", c, e)]}
      BY DEF loadEvidenzaPrivate, Trova
    <2> QED BY <2>1, <2>2, <2>3
  <1>3. /\ loadEvidenzaMerged(v, msp, peer, c, e) = Unito(pub, priv, c)
        /\ loadEvidenzaMerged(stato, "PMMSP", "PMMSP", c, e) = Unito(pub, intero, c)
    BY <1>1 DEF loadEvidenzaMerged
  <1> HIDE DEF v, pub, priv, intero
  <1>4. CASE priv = intero
    BY <1>3, <1>4 DEF LeggiEvidenza, v
  <1>5. CASE priv = Nil
    <2>1. Unito(pub, Nil, c) \in {Errore, [cid |-> pub.cid, privato |-> Nil]}
      BY DEF Unito
    <2>2. [cid |-> pub.cid, privato |-> Nil].privato = Nil
      OBVIOUS
    <2>3. LeggiEvidenza(v, msp, peer, c, e) = Errore
      BY <1>3, <1>5, <2>1, <2>2 DEF LeggiEvidenza
    <2> QED BY <2>3 DEF v
  <1> QED BY <1>2, <1>4, <1>5

\* The public side of card p.
SchedaPubblica(p) == [p EXCEPT !.stato = statoEffettivoReperto(p), !.caso = p.caso]

\* The card of an exhibit as a reader sees it, where the private data it finds
\* are of the case on the card.
LEMMA SchedaLetta ==
    ASSUME NEW s, NEW msp, NEW peer, NEW r, RepertoExists(s, r), NEW priv,
           priv = IF msp = "LABMSP"
                  THEN Trova(s, "PM_LAB", ChiavePrivatoPmLab(r), msp, peer)
                  ELSE Trova(s, "PG_PM", ChiavePrivatoReperto(r), msp, peer),
           priv # Nil => priv.caso = Scheda(s, r).caso
    PROVE  ReadReperto(s, msp, peer, r).pubblica = SchedaPubblica(Scheda(s, r))
  <1> DEFINE p == Scheda(s, r)
             q == [p EXCEPT !.stato = statoEffettivoReperto(p),
                            !.caso = IF priv = Nil THEN @ ELSE priv.caso]
             sede == IF priv = Nil THEN Nil ELSE priv.distretto
  <1>1. ReadReperto(s, msp, peer, r) = [pubblica |-> q, sede |-> sede]
    BY DEF ReadReperto
  <1>2. [pubblica |-> q, sede |-> sede].pubblica = q
    OBVIOUS
  <1>3. q = [p EXCEPT !.stato = statoEffettivoReperto(p), !.caso = p.caso]
    <2>1. CASE priv = Nil
      BY <2>1
    <2>2. CASE priv # Nil
      BY <2>2
    <2> QED BY <2>1, <2>2
  <1> QED BY <1>1, <1>2, <1>3 DEF SchedaPubblica

\* On any peer the public side of a card is the one PM reads when nothing is
\* missing.
LEMMA SchedaVera ==
    ASSUME Base, PrivatiInOrdine(stato), NEW msp \in Msp, NEW peer \in Msp,
           NEW r \in RepertiNoti
    PROVE  ReadReperto(Vista(msp, peer), msp, peer, r).pubblica
                = ReadReperto(stato, "PMMSP", "PMMSP", r).pubblica
  <1> DEFINE v == Vista(msp, peer)
             cerca(s, m, q) == IF m = "LABMSP"
                               THEN Trova(s, "PM_LAB", ChiavePrivatoPmLab(r), m, q)
                               ELSE Trova(s, "PG_PM", ChiavePrivatoReperto(r), m, q)
  <1>1. r \in Reperti /\ RepertoExists(stato, r)
    BY DEF RepertiNoti
  <1>2. RepertoExists(v, r) /\ Scheda(v, r) = Scheda(stato, r)
    BY <1>1, VistaTipata DEF Base
  <1>3. /\ Privato(stato, r) # Nil /\ Privato(stato, r).caso = Scheda(stato, r).caso
        /\ stato[ChiavePrivatoPmLab(r)] \in {Nil, Privato(stato, r)}
    BY <1>1 DEF Base, SchedeInOrdine, CustodiaDi, PrivatiInOrdine
  <1>4. /\ v[ChiavePrivatoReperto(r)] \in {Nil, Privato(stato, r)}
        /\ v[ChiavePrivatoPmLab(r)] \in {Nil, Privato(stato, r)}
    <2>1. ChiavePrivatoReperto(r) \in Chiavi /\ ChiavePrivatoPmLab(r) \in Chiavi
      BY <1>1, ValoriDelleChiavi
    <2> QED BY <1>3, <2>1, VistaVera DEF Privato
  <1>5. cerca(v, msp, peer) \in {Nil, Privato(stato, r)}
    BY <1>4 DEF Trova
  <1>6. cerca(stato, "PMMSP", "PMMSP") = Privato(stato, r)
    BY Instradamento DEF Trova, Privato
  <1>7. ReadReperto(v, msp, peer, r).pubblica = SchedaPubblica(Scheda(v, r))
    <2> DEFINE priv == cerca(v, msp, peer)
    <2>1. priv # Nil => priv.caso = Scheda(v, r).caso
      BY <1>2, <1>3, <1>5
    <2>2. priv = IF msp = "LABMSP"
                 THEN Trova(v, "PM_LAB", ChiavePrivatoPmLab(r), msp, peer)
                 ELSE Trova(v, "PG_PM", ChiavePrivatoReperto(r), msp, peer)
      OBVIOUS
    <2> HIDE DEF priv, v
    <2> QED BY <1>2, <2>1, <2>2, SchedaLetta
  <1>8. ReadReperto(stato, "PMMSP", "PMMSP", r).pubblica = SchedaPubblica(Scheda(stato, r))
    <2> DEFINE priv == cerca(stato, "PMMSP", "PMMSP")
    <2>1. priv # Nil => priv.caso = Scheda(stato, r).caso
      BY <1>3, <1>6
    <2>2. priv = IF "PMMSP" = "LABMSP"
                 THEN Trova(stato, "PM_LAB", ChiavePrivatoPmLab(r), "PMMSP", "PMMSP")
                 ELSE Trova(stato, "PG_PM", ChiavePrivatoReperto(r), "PMMSP", "PMMSP")
      OBVIOUS
    <2> HIDE DEF priv
    <2> QED BY <1>1, <2>1, <2>2, SchedaLetta
  <1> QED BY <1>2, <1>7, <1>8

\* However late private data are, a reader gets the truth or an error.
THEOREM LettureSempreVere ==
    ASSUME IdSeparati
    PROVE  SpecPropagazione => []LettureVere
  <1>1. ASSUME Base, InvFascicolo, NEW msp \in Msp, NEW peer \in Msp
        PROVE  /\ \A c \in Casi, d \in IdAtto :
                    LeggiDocumento(Vista(msp, peer), msp, peer, c, d)
                        \in {Errore, LeggiDocumento(stato, "PMMSP", "PMMSP", c, d)}
               /\ \A c \in Casi, e \in IdEvidenze :
                    LeggiEvidenza(Vista(msp, peer), msp, peer, c, e)
                        \in {Errore, LeggiEvidenza(stato, "PMMSP", "PMMSP", c, e)}
               /\ \A r \in RepertiNoti :
                    ReadReperto(Vista(msp, peer), msp, peer, r).pubblica
                        = ReadReperto(stato, "PMMSP", "PMMSP", r).pubblica
    <2>1. /\ PrivatiInOrdine(stato)
          /\ \A c \in Casi, d \in IdAtto : DocumentoInOrdine(stato, c, d)
      BY <1>1 DEF InvFascicolo, Fascicolo, FileInOrdine
    <2> QED BY <1>1, <2>1, DocumentoVero, EvidenzaVera, SchedaVera
  <1>2. Base /\ InvFascicolo => LettureVere
    BY <1>1 DEF LettureVere
  <1> QED BY <1>2, PropagazioneImplementaCustodia, BaseSempre, FascicoloSempre, PTL

\* LAB sees on its peer a delivered record of collezione_PM_LAB as it is.
LEMMA VistaDiLab ==
    ASSUME NEW k \in Chiavi, k[1] = "PM_LAB", <<"LABMSP", k>> \notin manca
    PROVE  VistaPropria("LABMSP")[k] = stato[k]
  <1>1. openOrgContract("LABMSP") = "LABMSP" /\ {"LABMSP"} \subseteq Membri[k[1]]
    BY Instradamento
  <1> QED BY <1>1 DEF VistaPropria, Vista

\* Two readers on two ledgers who find the same card and the same private data
\* of an exhibit read the same.
LEMMA SchedaUguale ==
    ASSUME NEW s, NEW t, NEW m, NEW n, NEW p, NEW q, NEW r,
           RepertoExists(s, r), RepertoExists(t, r), Scheda(s, r) = Scheda(t, r),
           (IF m = "LABMSP" THEN Trova(s, "PM_LAB", ChiavePrivatoPmLab(r), m, p)
                            ELSE Trova(s, "PG_PM", ChiavePrivatoReperto(r), m, p))
           = (IF n = "LABMSP" THEN Trova(t, "PM_LAB", ChiavePrivatoPmLab(r), n, q)
                              ELSE Trova(t, "PG_PM", ChiavePrivatoReperto(r), n, q))
    PROVE  ReadReperto(s, m, p, r) = ReadReperto(t, n, q, r)
  BY DEF ReadReperto

\* However late private data are, a delivered record serves LAB at once: its
\* peer shows the card PG and PM see, the seizure report and the decree.
THEOREM LaboratorioSempreServito ==
    ASSUME IdSeparati
    PROVE  SpecPropagazione => []LaboratorioServito
  <1>1. ASSUME Base, PgCompleto, InvFascicolo, Atti, NEW r \in RepertiNoti,
               Scheda(stato, r).decreto # Nil
        PROVE  LET p == Scheda(stato, r)
                   peer == openOrgContract("LABMSP")
                   Leggi(msp) == ReadReperto(Vista(msp, openOrgContract(msp)), msp,
                                             openOrgContract(msp), r)
               IN  /\ <<peer, ChiavePrivatoPmLab(r)>> \notin manca =>
                        \A msp \in Msp : Leggi(msp) = Leggi("LABMSP")
                   /\ \A d \in {p.verbale, p.decreto} :
                        <<peer, ChiaveFile("PM_LAB", p.caso, d)>> \notin manca =>
                            Apre(LeggiDocumento(Vista("LABMSP", peer), "LABMSP", peer,
                                                p.caso, d))
    <2> DEFINE p == Scheda(stato, r)
               c == p.caso
               peer == openOrgContract("LABMSP")
               v == Vista("LABMSP", peer)
    <2>1. r \in Reperti /\ RepertoExists(stato, r)
      BY DEF RepertiNoti
    <2>2. /\ c \in Casi /\ p.verbale \in IdAtto /\ p.decreto \in IdAtto
          /\ stato[ChiavePrivatoPmLab(r)] = Privato(stato, r)
          /\ \A d \in {p.verbale, p.decreto} :
                LET pmlab == stato[ChiaveFile("PM_LAB", c, d)]
                IN  /\ pmlab # Nil /\ pmlab.caso = c /\ pmlab.tipo # Nil
                    /\ stato[ChiaveDocumento(c, d)] = [cid |-> pmlab.chiave]
                    /\ stato[ChiaveDocumento(c, d)] # Nil
      BY <1>1, <2>1, LabRifornito
    <2>3. peer = "LABMSP" /\ v = VistaPropria("LABMSP")
      BY Instradamento DEF VistaPropria
    <2>4. ASSUME <<peer, ChiavePrivatoPmLab(r)>> \notin manca, NEW msp \in Msp
          PROVE  ReadReperto(Vista(msp, openOrgContract(msp)), msp,
                             openOrgContract(msp), r)
                    = ReadReperto(v, "LABMSP", peer, r)
      <3> DEFINE m == openOrgContract(msp)
                 w == Vista(msp, m)
                 cerca == IF msp = "LABMSP"
                          THEN Trova(w, "PM_LAB", ChiavePrivatoPmLab(r), msp, m)
                          ELSE Trova(w, "PG_PM", ChiavePrivatoReperto(r), msp, m)
      <3>1. /\ RepertoExists(w, r) /\ Scheda(w, r) = Scheda(stato, r)
            /\ RepertoExists(v, r) /\ Scheda(v, r) = Scheda(stato, r)
        BY <1>1, <2>1, VistaTipata DEF Base
      <3>2. v[ChiavePrivatoPmLab(r)] = Privato(stato, r)
        <4>1. ChiavePrivatoPmLab(r) \in Chiavi
          BY <2>1, ValoriDelleChiavi
        <4>2. ChiavePrivatoPmLab(r)[1] = "PM_LAB"
          BY DEF ChiavePrivatoPmLab, ChiaveFile
        <4>3. <<"LABMSP", ChiavePrivatoPmLab(r)>> \notin manca
          BY <2>3, <2>4
        <4>4. VistaPropria("LABMSP")[ChiavePrivatoPmLab(r)] = stato[ChiavePrivatoPmLab(r)]
          BY <4>1, <4>2, <4>3, VistaDiLab
        <4> QED BY <2>2, <2>3, <4>4
      <3>3. Trova(v, "PM_LAB", ChiavePrivatoPmLab(r), "LABMSP", peer) = Privato(stato, r)
        BY <2>3, <3>2, Instradamento DEF Trova
      <3>4. CASE msp = "LABMSP"
        BY <3>4
      <3>5. CASE msp # "LABMSP"
        <4>1. msp \in {"PGMSP", "PMMSP"}
          BY <3>5 DEF Msp
        <4>2. VistaPropria(msp) = w /\ m = "PGMSP"
          BY <4>1, Instradamento DEF VistaPropria
        <4>3. w[ChiavePrivatoReperto(r)] = Privato(stato, r)
          <5>1. Privato(VistaPropria(msp), r) = Privato(stato, r)
            BY <1>1, <2>1, <4>1, PrivatiVisti
          <5> QED BY <4>2, <5>1 DEF Privato
        <4>4. Trova(w, "PG_PM", ChiavePrivatoReperto(r), msp, m) = Privato(stato, r)
          BY <4>1, <4>2, <4>3, Instradamento DEF Trova
        <4>5. cerca = IF "LABMSP" = "LABMSP"
                      THEN Trova(v, "PM_LAB", ChiavePrivatoPmLab(r), "LABMSP", peer)
                      ELSE Trova(v, "PG_PM", ChiavePrivatoReperto(r), "LABMSP", peer)
          BY <3>3, <3>5, <4>4
        <4> HIDE DEF w, v, m, peer
        <4>6. ReadReperto(w, msp, m, r) = ReadReperto(v, "LABMSP", peer, r)
          BY <3>1, <4>5, SchedaUguale
        <4> QED BY <4>6 DEF w, v, m, peer
      <3> QED BY <3>4, <3>5
    <2>5. ASSUME NEW d \in {p.verbale, p.decreto},
                 <<peer, ChiaveFile("PM_LAB", c, d)>> \notin manca
          PROVE  Apre(LeggiDocumento(v, "LABMSP", peer, c, d))
      <3>1. v[ChiaveFile("PM_LAB", c, d)] = stato[ChiaveFile("PM_LAB", c, d)]
        <4>1. ChiaveFile("PM_LAB", c, d) \in Chiavi
          BY <2>2, ValoriDelleChiavi DEF Id
        <4>2. ChiaveFile("PM_LAB", c, d)[1] = "PM_LAB"
          BY DEF ChiaveFile
        <4> QED BY <2>3, <2>5, <4>1, <4>2, VistaDiLab
      <3>2. v[ChiaveDocumento(c, d)] = stato[ChiaveDocumento(c, d)]
        <4>1. ChiaveDocumento(c, d) \in Chiavi
          BY <2>2, ValoriDelleChiavi
        <4>2. ChiaveDocumento(c, d)[1] \notin {"PG_PM", "PM_LAB"}
          BY DEF ChiaveDocumento
        <4> QED BY <4>1, <4>2, VistaVera
      <3>3. LET pmlab == v[ChiaveFile("PM_LAB", c, d)]
            IN  /\ pmlab # Nil /\ pmlab.caso = c /\ pmlab.tipo # Nil
                /\ v[ChiaveDocumento(c, d)] = [cid |-> pmlab.chiave]
                /\ v[ChiaveDocumento(c, d)] # Nil
        BY <2>2, <3>1, <3>2
      <3> HIDE DEF v, c
      <3>4. Apre(LeggiDocumento(v, "LABMSP", "LABMSP", c, d))
        BY <2>2, <3>3, LabLegge
      <3> QED BY <2>3, <3>4
    <2> QED BY <2>4, <2>5
  <1>2. Base /\ PgCompleto /\ InvFascicolo /\ Atti => LaboratorioServito
    BY <1>1 DEF LaboratorioServito
  <1> QED BY <1>2, PropagazioneImplementaCustodia, BaseSempre, FascicoloSempre, AttiSempre,
             PTL

\* Whatever is on its way, what is proved of the committed ledger holds of it:
\* registered files can be opened, lists do not fail, LAB reads no other
\* document of PG, nothing filed is rewritten.  (What LAB reads while data are
\* late is LaboratorioSempreServito.)
THEOREM FascicoloSottoPropagazione ==
    ASSUME IdSeparati
    PROVE  SpecPropagazione => /\ []FascicoloDecifrabile /\ []ElenchiIntegri
                               /\ []LaboratorioDiscreto /\ FascicoloImmutabile
  BY PropagazioneImplementaCustodia, FascicoloSempreDecifrabile, ElenchiSempreIntegri,
     LaboratorioSempreDiscreto, FascicoloSempreImmutabile, PTL

\* What is proved of custody on the complete ledger holds while private data
\* are on their way, the life cycle included.
THEOREM CustodiaSottoPropagazione ==
    SpecPropagazione => /\ []CustodiaCoerente /\ []PercorsoAperto /\ []PuntatoriRisolti
                        /\ []RelazioneConMandato /\ []BilancioRiconsegne
                        /\ ImplementaCiclo
  BY PropagazioneImplementaCustodia, CustodiaSempreCoerente, PercorsoSempreAperto,
     PuntatoriSempreRisolti, RelazioneSempreConMandato, BilancioSempre, CicloImplementato, PTL
=============================================================================
