--------------------------- MODULE FascicoloProofs --------------------------
(***************************************************************************)
(* Proofs about the dossier of a case for every value of the constants:    *)
(* its records are never replaced, they can be opened, the laboratory      *)
(* finds its copies, and the queries read what they should.                *)
(***************************************************************************)
EXTENDS CustodiaProofs, Consultazione

\* The hypothesis of the theorems: no id is given to a document and to an
\* evidence.  Their private parts share the keys of collezione_PG_PM.
IdSeparati == IdDocumenti \cap IdEvidenze = {}

-----------------------------------------------------------------------------
(* The dossier in order, on a ledger s.                                    *)

\* An exhibit without card has no private data; the laboratory's copy, if
\* there is one, is that of the private data.
PrivatiInOrdine(s) ==
    \A r \in Reperti :
        /\ ~RepertoExists(s, r) => Privato(s, r) = Nil
        /\ s[ChiavePrivatoPmLab(r)] \in {Nil, Privato(s, r)}

\* Document d of case c is not there at all, or is a document of PG, which
\* LAB may have a copy of, or one of PM or LAB.
DocumentoInOrdine(s, c, d) ==
    LET pub == s[ChiaveDocumento(c, d)]
        pgpm == s[ChiaveFile("PG_PM", c, d)]
        pmlab == s[ChiaveFile("PM_LAB", c, d)]
    IN  \/ pub = Nil /\ pgpm = Nil /\ pmlab = Nil
        \/ /\ pgpm # Nil /\ pgpm.caso = c /\ pgpm.tipo \in TipiPg
           /\ pub = [cid |-> pgpm.chiave] /\ pmlab \in {Nil, pgpm}
        \/ /\ pgpm = Nil /\ pmlab # Nil
           /\ pmlab.caso = c /\ pmlab.tipo \in TipiDocumento \ TipiPg
           /\ pub = [cid |-> pmlab.chiave]

\* Evidence e of case c is not there at all, or has both its parts.
EvidenzaInOrdine(s, c, e) ==
    LET pub == s[ChiaveEvidenza(c, e)]
        pgpm == s[ChiaveFile("PG_PM", c, e)]
    IN  \/ pub = Nil /\ pgpm = Nil
        \/ pgpm # Nil /\ pgpm.caso = c /\ pub = [cid |-> pgpm.chiave]

FileInOrdine(s) ==
    \A c \in Casi : /\ \A d \in IdAtto : DocumentoInOrdine(s, c, d)
                    /\ \A e \in IdEvidenze : EvidenzaInOrdine(s, c, e)

\* The index entries of an exhibit lead to documents and evidence that are
\* there.
IndiciInOrdine(s) ==
    \A r \in Reperti :
        /\ \A d \in IdAtto : s[ChiaveDocRep(r, d)] # Nil
                => s[ChiaveDocumento(s[ChiaveDocRep(r, d)].caso, d)] # Nil
        /\ \A e \in IdEvidenze : s[ChiaveEviRep(r, e)] # Nil
                => s[ChiaveEvidenza(s[ChiaveEviRep(r, e)].caso, e)] # Nil

Fascicolo(s) == PrivatiInOrdine(s) /\ FileInOrdine(s) /\ IndiciInOrdine(s)

\* The analysis of exhibit r was requested, document d of case c being its
\* seizure report.
Richiesto(s, r, c, d) ==
    /\ RepertoExists(s, r) /\ Scheda(s, r).decreto # Nil
    /\ Scheda(s, r).verbale = d /\ Scheda(s, r).caso = c

\* LAB has copies of PG's documents only for exhibits it was asked to analyse.
SoloRichiesti ==
    \A c \in Casi, d \in IdAtto :
        LET pmlab == stato[ChiaveFile("PM_LAB", c, d)]
        IN  pmlab # Nil /\ pmlab.tipo \in TipiPg
                => \E r \in Reperti : Richiesto(stato, r, c, d)

\* The invariant about the dossier.
InvFascicolo == Fascicolo(stato) /\ CopiaPerLaboratorio /\ SoloRichiesti

-----------------------------------------------------------------------------
(* What groups of writes do to the dossier.                                *)

\* Between s and t no record of the dossier is lost or replaced.
Conserva(s, t) == \A k \in ChiaviImmutabili : s[k] # Nil => t[k] = s[k]

\* Between s and t LAB gets no copy of a document of PG.
SenzaCopie(s, t) ==
    \A c \in Casi, d \in IdAtto :
        LET pmlab == t[ChiaveFile("PM_LAB", c, d)]
        IN  pmlab = s[ChiaveFile("PM_LAB", c, d)] \/ pmlab.tipo \notin TipiPg

\* Which keys may never change their value, and which are different.
LEMMA ChiaviDelFascicolo ==
    /\ \A r \in Reperti : /\ ChiavePrivatoReperto(r) \in ChiaviImmutabili
                          /\ ChiavePrivatoPmLab(r) \in ChiaviImmutabili
                          /\ ChiaveReperto(r) \notin ChiaviImmutabili
    /\ \A c \in Casi : /\ \A d \in IdAtto : /\ ChiaveDocumento(c, d) \in ChiaviImmutabili
                                            /\ ChiaveFile("PM_LAB", c, d) \in ChiaviImmutabili
                       /\ \A id \in Id : ChiaveFile("PG_PM", c, id) \in ChiaviImmutabili
                       /\ \A e \in IdEvidenze : ChiaveEvidenza(c, e) \in ChiaviImmutabili
    /\ \A r \in Reperti : /\ \A d \in IdAtto : ChiaveDocRep(r, d) \notin ChiaviImmutabili
                          /\ \A e \in IdEvidenze : ChiaveEviRep(r, e) \notin ChiaviImmutabili
  <1> USE NilAssumption, IdAssumption DEF ChiaviImmutabili, Chiavi, ChiaveReperto,
        ChiavePrivatoReperto, ChiavePrivatoPmLab, ChiaveDocumento, ChiaveFile,
        ChiaveEvidenza, ChiaveDocRep, ChiaveEviRep, Id, IdAtto
  <1>1. \A r \in Reperti : /\ ChiavePrivatoReperto(r) \in ChiaviImmutabili
                           /\ ChiavePrivatoPmLab(r) \in ChiaviImmutabili
                           /\ ChiaveReperto(r) \notin ChiaviImmutabili
    OBVIOUS
  <1>2. \A c \in Casi :
            /\ \A d \in IdAtto : /\ ChiaveDocumento(c, d) \in ChiaviImmutabili
                                 /\ ChiaveFile("PM_LAB", c, d) \in ChiaviImmutabili
            /\ \A id \in Id : ChiaveFile("PG_PM", c, id) \in ChiaviImmutabili
            /\ \A e \in IdEvidenze : ChiaveEvidenza(c, e) \in ChiaviImmutabili
    OBVIOUS
  <1>3. \A r \in Reperti : /\ \A d \in IdAtto : ChiaveDocRep(r, d) \notin ChiaviImmutabili
                           /\ \A e \in IdEvidenze : ChiaveEviRep(r, e) \notin ChiaviImmutabili
    OBVIOUS
  <1> QED  BY <1>1, <1>2, <1>3

\* Index entries remain good while no record is lost and no new entry made.
LEMMA IndiciRestano ==
    ASSUME NEW s, NEW t, Tipato(s), Conserva(s, t), IndiciInOrdine(s),
           \A r \in Reperti, d \in IdAtto :
                \/ t[ChiaveDocRep(r, d)] = s[ChiaveDocRep(r, d)]
                \/ t[ChiaveDocumento(t[ChiaveDocRep(r, d)].caso, d)] # Nil,
           \A r \in Reperti, e \in IdEvidenze :
                \/ t[ChiaveEviRep(r, e)] = s[ChiaveEviRep(r, e)]
                \/ t[ChiaveEvidenza(t[ChiaveEviRep(r, e)].caso, e)] # Nil
    PROVE  IndiciInOrdine(t)
  <1>1. ASSUME NEW r \in Reperti, NEW d \in IdAtto, s[ChiaveDocRep(r, d)] # Nil
        PROVE  t[ChiaveDocumento(s[ChiaveDocRep(r, d)].caso, d)] # Nil
    <2>1. s[ChiaveDocRep(r, d)] \in Marcatore
      BY <1>1, ValoriDelleChiavi DEF Tipato
    <2>2. s[ChiaveDocRep(r, d)].caso \in Casi
      BY <2>1 DEF Marcatore
    <2> QED  BY <1>1, <2>2, ChiaviDelFascicolo DEF IndiciInOrdine, Conserva
  <1>2. ASSUME NEW r \in Reperti, NEW e \in IdEvidenze, s[ChiaveEviRep(r, e)] # Nil
        PROVE  t[ChiaveEvidenza(s[ChiaveEviRep(r, e)].caso, e)] # Nil
    <2>1. s[ChiaveEviRep(r, e)] \in Marcatore
      BY <1>2, ValoriDelleChiavi DEF Tipato
    <2>2. s[ChiaveEviRep(r, e)].caso \in Casi
      BY <2>1 DEF Marcatore
    <2> QED  BY <1>2, <2>2, ChiaviDelFascicolo DEF IndiciInOrdine, Conserva
  <1> QED  BY <1>1, <1>2 DEF IndiciInOrdine

\* A file without public part has no private part either.
LEMMA SenzaPubblico ==
    ASSUME NEW s, Tipato(s), FileInOrdine(s), NEW c \in Casi
    PROVE  /\ \A d \in IdAtto : s[ChiaveDocumento(c, d)] = Nil =>
                    s[ChiaveFile("PG_PM", c, d)] = Nil /\ s[ChiaveFile("PM_LAB", c, d)] = Nil
           /\ \A e \in IdEvidenze : s[ChiaveEvidenza(c, e)] = Nil =>
                    s[ChiaveFile("PG_PM", c, e)] = Nil
  <1>1. \A v \in FilePrivate : [cid |-> v.chiave] # Nil
    <2>1. \A v \in FilePrivate : [cid |-> v.chiave] \in FilePublic
      BY DEF FilePrivate, FilePublic
    <2> QED  BY <2>1, NilAssumption
  <1>2. /\ \A id \in Id : s[ChiaveFile("PG_PM", c, id)] \in FilePrivate \cup {Nil}
        /\ \A d \in IdAtto : s[ChiaveFile("PM_LAB", c, d)] \in FilePrivate \cup {Nil}
    BY ValoriDelleChiavi DEF Tipato
  <1>3. ASSUME NEW d \in IdAtto, s[ChiaveDocumento(c, d)] = Nil
        PROVE  s[ChiaveFile("PG_PM", c, d)] = Nil /\ s[ChiaveFile("PM_LAB", c, d)] = Nil
    <2>1. DocumentoInOrdine(s, c, d)
      BY DEF FileInOrdine
    <2>2. /\ s[ChiaveFile("PG_PM", c, d)] \in FilePrivate \cup {Nil}
          /\ s[ChiaveFile("PM_LAB", c, d)] \in FilePrivate \cup {Nil}
      BY <1>2 DEF Id
    <2>3. ASSUME NEW v \in FilePrivate, s[ChiaveDocumento(c, d)] = [cid |-> v.chiave]
          PROVE  FALSE
      BY <1>1, <1>3, <2>3
    <2> QED  BY <2>1, <2>2, <2>3 DEF DocumentoInOrdine
  <1>4. ASSUME NEW e \in IdEvidenze, s[ChiaveEvidenza(c, e)] = Nil
        PROVE  s[ChiaveFile("PG_PM", c, e)] = Nil
    <2>1. EvidenzaInOrdine(s, c, e)
      BY DEF FileInOrdine
    <2>2. s[ChiaveFile("PG_PM", c, e)] \in FilePrivate \cup {Nil}
      BY <1>2 DEF Id
    <2>3. ASSUME NEW v \in FilePrivate, s[ChiaveEvidenza(c, e)] = [cid |-> v.chiave]
          PROVE  FALSE
      BY <1>1, <1>4, <2>3
    <2> QED  BY <2>1, <2>2, <2>3 DEF EvidenzaInOrdine
  <1> QED  BY <1>3, <1>4

\* A new document is filed.
LEMMA FascicoloPutDocumento ==
    ASSUME IdSeparati, NEW s, Tipato(s), Fascicolo(s), NEW c \in Casi, NEW d \in IdAtto,
           NEW priv \in FilePrivate, priv.caso = c, priv.tipo \in TipiDocumento,
           s[ChiaveDocumento(c, d)] = Nil,
           NEW t, t = s ++ putDocumento(c, d, priv.chiave, priv)
    PROVE  /\ Fascicolo(t) /\ Conserva(s, t) /\ SenzaCopie(s, t)
  <1> DEFINE pdc == pdcCollectionForTipoDocumento(priv.tipo)
             r == priv.reperto
             kd == ChiaveDocumento(c, d)
             kf == ChiaveFile(pdc, c, d)
             ki == ChiaveDocRep(r, d)
             K == {kd, kf} \cup (IF r = Nil THEN {} ELSE {ki})
  <1>1. /\ t[kd] = [cid |-> priv.chiave] /\ t[kf] = priv
        /\ r # Nil => t[ki] = [caso |-> c]
        /\ SoloChiavi(s, t, K)
    BY EffettoPutDocumento
  <1>2. /\ priv # Nil /\ [cid |-> priv.chiave] # Nil
        /\ r \in Reperti \cup {Nil} /\ d # Nil /\ d \notin IdEvidenze
        /\ pdc = IF priv.tipo \in TipiPg THEN "PG_PM" ELSE "PM_LAB"
    BY NilAssumption, IdAssumption
       DEF IdSeparati, IdAtto, FilePrivate, FilePublic, pdcCollectionForTipoDocumento
  <1>3. s[ChiaveFile("PG_PM", c, d)] = Nil /\ s[ChiaveFile("PM_LAB", c, d)] = Nil
    BY SenzaPubblico DEF Fascicolo
  <1>4. \A q \in Reperti : /\ ChiaveReperto(q) \notin K /\ ChiavePrivatoReperto(q) \notin K
                           /\ ChiavePrivatoPmLab(q) \notin K
    BY <1>2, IdAssumption DEF ChiaveReperto, ChiavePrivatoReperto, ChiavePrivatoPmLab,
            ChiaveFile, ChiaveDocumento, ChiaveDocRep
  <1>5. \A x \in Casi, e \in IdEvidenze :
            ChiaveEvidenza(x, e) \notin K /\ ChiaveFile("PG_PM", x, e) \notin K
    BY <1>2 DEF ChiaveFile, ChiaveDocumento, ChiaveDocRep, ChiaveEvidenza
  <1>6. \A x \in Casi, y \in IdAtto : <<x, y>> # <<c, d>> =>
            /\ ChiaveDocumento(x, y) \notin K
            /\ ChiaveFile("PG_PM", x, y) \notin K /\ ChiaveFile("PM_LAB", x, y) \notin K
    BY <1>2 DEF ChiaveFile, ChiaveDocumento, ChiaveDocRep
  <1>7. \A q \in Reperti : /\ \A e \in IdEvidenze : ChiaveEviRep(q, e) \notin K
                           /\ \A y \in IdAtto : ChiaveDocRep(q, y) \in K => y = d /\ q = r
    BY <1>2 DEF ChiaveFile, ChiaveDocumento, ChiaveDocRep, ChiaveEviRep
  <1>8. Conserva(s, t)
    BY <1>1, <1>2, <1>3, ChiaviDelFascicolo DEF Conserva, SoloChiavi, ChiaviImmutabili
  <1> HIDE DEF K
  <1>9. PrivatiInOrdine(t)
    BY <1>1, <1>4, ValoriDelleChiavi
       DEF SoloChiavi, Fascicolo, PrivatiInOrdine, RepertoExists, Privato
  <1>10. /\ priv.tipo \in TipiPg => t[ChiaveFile("PM_LAB", c, d)] = Nil
         /\ priv.tipo \notin TipiPg => t[ChiaveFile("PG_PM", c, d)] = Nil
         /\ DocumentoInOrdine(t, c, d)
    <2>1. CASE priv.tipo \in TipiPg
      <3>1. t[ChiaveFile("PM_LAB", c, d)] = Nil
        <4>1. ChiaveFile("PM_LAB", c, d) \notin K
          BY <1>2, <2>1 DEF K, ChiaveFile, ChiaveDocumento, ChiaveDocRep
        <4> QED  BY <1>1, <1>3, <4>1, ValoriDelleChiavi DEF SoloChiavi
      <3> QED  BY <1>1, <1>2, <2>1, <3>1 DEF DocumentoInOrdine
    <2>2. CASE priv.tipo \notin TipiPg
      <3>1. t[ChiaveFile("PG_PM", c, d)] = Nil
        <4>1. ChiaveFile("PG_PM", c, d) \notin K
          BY <1>2, <2>2 DEF K, ChiaveFile, ChiaveDocumento, ChiaveDocRep
        <4> QED  BY <1>1, <1>3, <4>1, ValoriDelleChiavi DEF SoloChiavi, Id
      <3> QED  BY <1>1, <1>2, <2>2, <3>1 DEF DocumentoInOrdine
    <2> QED  BY <2>1, <2>2
  <1>11. \A x \in Casi, y \in IdAtto : <<x, y>> # <<c, d>> =>
            /\ t[ChiaveDocumento(x, y)] = s[ChiaveDocumento(x, y)]
            /\ t[ChiaveFile("PG_PM", x, y)] = s[ChiaveFile("PG_PM", x, y)]
            /\ t[ChiaveFile("PM_LAB", x, y)] = s[ChiaveFile("PM_LAB", x, y)]
    BY <1>1, <1>6, ValoriDelleChiavi DEF SoloChiavi, Id
  <1>12. FileInOrdine(t)
    <2>1. ASSUME NEW x \in Casi, NEW y \in IdAtto PROVE DocumentoInOrdine(t, x, y)
      <3>1. CASE <<x, y>> # <<c, d>>
        BY <1>11, <3>1 DEF Fascicolo, FileInOrdine, DocumentoInOrdine
      <3> QED  BY <1>10, <3>1
    <2>2. ASSUME NEW x \in Casi, NEW e \in IdEvidenze PROVE EvidenzaInOrdine(t, x, e)
      BY <1>1, <1>5, ValoriDelleChiavi
         DEF SoloChiavi, Fascicolo, FileInOrdine, EvidenzaInOrdine, Id
    <2> QED  BY <2>1, <2>2 DEF FileInOrdine
  <1>13. IndiciInOrdine(t)
    <2>1. ASSUME NEW q \in Reperti, NEW y \in IdAtto
          PROVE  \/ t[ChiaveDocRep(q, y)] = s[ChiaveDocRep(q, y)]
                 \/ t[ChiaveDocumento(t[ChiaveDocRep(q, y)].caso, y)] # Nil
      <3>1. CASE ChiaveDocRep(q, y) \in K
        <4>1. t[ChiaveDocRep(q, y)] = [caso |-> c] /\ y = d
          BY <1>1, <1>7, <3>1, NilAssumption
        <4> QED  BY <1>1, <1>2, <4>1
      <3>2. CASE ChiaveDocRep(q, y) \notin K
        BY <1>1, <3>2, ValoriDelleChiavi DEF SoloChiavi
      <3> QED  BY <3>1, <3>2
    <2>2. \A q \in Reperti, e \in IdEvidenze :
                t[ChiaveEviRep(q, e)] = s[ChiaveEviRep(q, e)]
      BY <1>1, <1>7, ValoriDelleChiavi DEF SoloChiavi
    <2> QED  BY <1>8, <2>1, <2>2, IndiciRestano DEF Fascicolo
  <1>14. SenzaCopie(s, t)
    <2> SUFFICES ASSUME NEW x \in Casi, NEW y \in IdAtto
                 PROVE  \/ t[ChiaveFile("PM_LAB", x, y)] = s[ChiaveFile("PM_LAB", x, y)]
                        \/ t[ChiaveFile("PM_LAB", x, y)].tipo \notin TipiPg
      BY DEF SenzaCopie
    <2>1. CASE <<x, y>> # <<c, d>>
      BY <1>11, <2>1
    <2>2. CASE x = c /\ y = d
      BY <1>1, <1>2, <1>3, <1>10, <2>2
    <2> QED  BY <2>1, <2>2
  <1> QED  BY <1>8, <1>9, <1>12, <1>13, <1>14 DEF Fascicolo

\* Files and their indices do not differ where only keys of exhibits are
\* written.
LEMMA FileRestano ==
    ASSUME NEW s, NEW t, Tipato(s), FileInOrdine(s), IndiciInOrdine(s), NEW r \in Reperti,
           SoloChiavi(s, t, {ChiaveReperto(r), ChiavePrivatoReperto(r), ChiavePrivatoPmLab(r)})
    PROVE  FileInOrdine(t) /\ IndiciInOrdine(t) /\ SenzaCopie(s, t)
  <1> DEFINE K == {ChiaveReperto(r), ChiavePrivatoReperto(r), ChiavePrivatoPmLab(r)}
  <1>1. \A c \in Casi :
            /\ \A d \in IdAtto : /\ ChiaveDocumento(c, d) \notin K
                                 /\ ChiaveFile("PM_LAB", c, d) \notin K
            /\ \A id \in Id : ChiaveFile("PG_PM", c, id) \notin K
            /\ \A e \in IdEvidenze : ChiaveEvidenza(c, e) \notin K
    BY NilAssumption, IdAssumption
       DEF ChiaveReperto, ChiavePrivatoReperto, ChiavePrivatoPmLab, ChiaveDocumento,
           ChiaveFile, ChiaveEvidenza, Id, IdAtto
  <1>2. \A q \in Reperti : /\ \A d \in IdAtto : ChiaveDocRep(q, d) \notin K
                           /\ \A e \in IdEvidenze : ChiaveEviRep(q, e) \notin K
    BY DEF ChiaveReperto, ChiavePrivatoReperto, ChiavePrivatoPmLab, ChiaveFile,
           ChiaveDocRep, ChiaveEviRep
  <1> HIDE DEF K
  <1>3. SoloChiavi(s, t, K)
    BY DEF K
  <1>4. \A c \in Casi :
            /\ \A d \in IdAtto :
                /\ t[ChiaveDocumento(c, d)] = s[ChiaveDocumento(c, d)]
                /\ t[ChiaveFile("PM_LAB", c, d)] = s[ChiaveFile("PM_LAB", c, d)]
                /\ t[ChiaveFile("PG_PM", c, d)] = s[ChiaveFile("PG_PM", c, d)]
            /\ \A e \in IdEvidenze :
                /\ t[ChiaveEvidenza(c, e)] = s[ChiaveEvidenza(c, e)]
                /\ t[ChiaveFile("PG_PM", c, e)] = s[ChiaveFile("PG_PM", c, e)]
    BY <1>1, <1>3, ValoriDelleChiavi DEF SoloChiavi, Id
  <1>5. \A q \in Reperti :
            /\ \A d \in IdAtto : t[ChiaveDocRep(q, d)] = s[ChiaveDocRep(q, d)]
            /\ \A e \in IdEvidenze : t[ChiaveEviRep(q, e)] = s[ChiaveEviRep(q, e)]
    BY <1>2, <1>3, ValoriDelleChiavi DEF SoloChiavi
  <1>6. FileInOrdine(t) /\ SenzaCopie(s, t)
    BY <1>4 DEF FileInOrdine, DocumentoInOrdine, EvidenzaInOrdine, SenzaCopie
  <1>7. /\ \A q \in Reperti, d \in IdAtto : s[ChiaveDocRep(q, d)] # Nil =>
                s[ChiaveDocRep(q, d)].caso \in Casi
        /\ \A q \in Reperti, e \in IdEvidenze : s[ChiaveEviRep(q, e)] # Nil =>
                s[ChiaveEviRep(q, e)].caso \in Casi
    <2>1. /\ \A q \in Reperti, d \in IdAtto :
                s[ChiaveDocRep(q, d)] \in Marcatore \cup {Nil}
          /\ \A q \in Reperti, e \in IdEvidenze :
                s[ChiaveEviRep(q, e)] \in Marcatore \cup {Nil}
      BY ValoriDelleChiavi DEF Tipato
    <2>2. \A m \in Marcatore : m.caso \in Casi
      BY DEF Marcatore
    <2> QED  BY <2>1, <2>2
  <1>8. IndiciInOrdine(t)
    BY <1>4, <1>5, <1>7 DEF IndiciInOrdine
  <1> QED  BY <1>6, <1>8

\* The card of an exhibit is saved.
LEMMA FascicoloScheda ==
    ASSUME NEW s, Tipato(s), Fascicolo(s), NEW r \in Reperti, RepertoExists(s, r), NEW p,
           p # Nil, NEW t, t = s ++ SalvaScheda(r, p)
    PROVE  Fascicolo(t) /\ Conserva(s, t) /\ SenzaCopie(s, t)
  <1>1. CambiaScheda(s, t, r, p) /\ SoloChiavi(s, t, {ChiaveReperto(r)})
    BY DopoScheda
  <1>2. SoloChiavi(s, t, {ChiaveReperto(r), ChiavePrivatoReperto(r), ChiavePrivatoPmLab(r)})
    BY <1>1 DEF SoloChiavi
  <1>3. FileInOrdine(t) /\ IndiciInOrdine(t) /\ SenzaCopie(s, t)
    BY <1>2, FileRestano DEF Fascicolo
  <1>4. Conserva(s, t)
    BY <1>1, ChiaviDelFascicolo DEF Conserva, SoloChiavi, ChiaviImmutabili
  <1>5. PrivatiInOrdine(t)
    <2>1. \A q \in Reperti : t[ChiavePrivatoPmLab(q)] = s[ChiavePrivatoPmLab(q)]
      <3>1. \A q \in Reperti : ChiavePrivatoPmLab(q) # ChiaveReperto(r)
        BY DEF ChiavePrivatoPmLab, ChiaveReperto, ChiaveFile
      <3> QED  BY <1>1, <3>1, ValoriDelleChiavi DEF SoloChiavi
    <2>2. \A q \in Reperti \ {r} : RepertoExists(t, q) <=> RepertoExists(s, q)
      BY <1>1 DEF CambiaScheda, RepertoExists, Scheda
    <2>3. \A q \in Reperti : Privato(t, q) = Privato(s, q)
      BY <1>1 DEF CambiaScheda
    <2> QED  BY <1>1, <2>1, <2>2, <2>3
             DEF Fascicolo, PrivatiInOrdine, CambiaScheda, RepertoExists, Scheda
  <1> QED  BY <1>3, <1>4, <1>5 DEF Fascicolo

\* The laboratory's copy of an exhibit's private data is written.
LEMMA FascicoloPrivatoPmLab ==
    ASSUME NEW s, Tipato(s), Fascicolo(s), NEW r \in Reperti,
           NEW t, t = s ++ Scrivi(ChiavePrivatoPmLab(r), Privato(s, r))
    PROVE  Fascicolo(t) /\ Conserva(s, t) /\ SenzaCopie(s, t)
  <1> DEFINE k == ChiavePrivatoPmLab(r)
  <1>1. t[k] = Privato(s, r) /\ SoloChiavi(s, t, {k}) /\ SchedeUguali(s, t)
    BY EffettoScrivi, DopoPrivatoPmLab
  <1>2. SoloChiavi(s, t, {ChiaveReperto(r), ChiavePrivatoReperto(r), ChiavePrivatoPmLab(r)})
    BY <1>1 DEF SoloChiavi
  <1>3. FileInOrdine(t) /\ IndiciInOrdine(t) /\ SenzaCopie(s, t)
    BY <1>2, FileRestano DEF Fascicolo
  <1>4. Conserva(s, t)
    BY <1>1 DEF Conserva, SoloChiavi, ChiaviImmutabili, Fascicolo, PrivatiInOrdine
  <1>5. PrivatiInOrdine(t)
    <2>1. \A q \in Reperti \ {r} : t[ChiavePrivatoPmLab(q)] = s[ChiavePrivatoPmLab(q)]
      <3>1. \A q \in Reperti \ {r} : ChiavePrivatoPmLab(q) # k
        BY DEF ChiavePrivatoPmLab, ChiaveFile
      <3> QED  BY <1>1, <3>1, ValoriDelleChiavi DEF SoloChiavi
    <2> QED  BY <1>1, <2>1
             DEF Fascicolo, PrivatiInOrdine, SchedeUguali, RepertoExists, Scheda
  <1> QED  BY <1>3, <1>4, <1>5 DEF Fascicolo

\* The laboratory's copy of a client's document of PG is written.
LEMMA FascicoloCopia ==
    ASSUME IdSeparati, NEW s, Tipato(s), Fascicolo(s), NEW c \in Casi, NEW d \in IdDocumenti,
           s[ChiaveFile("PG_PM", c, d)] # Nil,
           NEW t, t = s ++ Scrivi(ChiaveFile("PM_LAB", c, d), s[ChiaveFile("PG_PM", c, d)])
    PROVE  /\ Fascicolo(t) /\ Conserva(s, t)
           /\ \A x \in Casi, y \in IdAtto : <<x, y>> # <<c, d>> =>
                t[ChiaveFile("PM_LAB", x, y)] = s[ChiaveFile("PM_LAB", x, y)]
           /\ t[ChiaveFile("PG_PM", c, d)] = s[ChiaveFile("PG_PM", c, d)]
  <1> DEFINE k == ChiaveFile("PM_LAB", c, d)
             pgpm == s[ChiaveFile("PG_PM", c, d)]
  <1>1. t[k] = pgpm /\ SoloChiavi(s, t, {k}) /\ SchedeUguali(s, t)
    BY EffettoScrivi, DopoCopia
  <1>2. d \in IdAtto /\ d \in Id /\ DocumentoInOrdine(s, c, d)
    BY DEF Fascicolo, FileInOrdine, IdAtto, Id
  <1>3. s[k] \in {Nil, pgpm}
    BY <1>2 DEF DocumentoInOrdine
  <1>4. Conserva(s, t)
    BY <1>1, <1>3 DEF Conserva, SoloChiavi, ChiaviImmutabili
  <1>5. /\ \A q \in Reperti : ChiavePrivatoPmLab(q) # k
        /\ \A x, y : /\ ChiaveDocumento(x, y) # k /\ ChiaveFile("PG_PM", x, y) # k
                     /\ ChiaveEvidenza(x, y) # k /\ ChiaveDocRep(x, y) # k
                     /\ ChiaveEviRep(x, y) # k
                     /\ <<x, y>> # <<c, d>> => ChiaveFile("PM_LAB", x, y) # k
    BY IdAssumption DEF ChiavePrivatoPmLab, ChiaveFile, ChiaveDocumento, ChiaveEvidenza,
        ChiaveDocRep, ChiaveEviRep
  <1> HIDE DEF k, pgpm
  <1>6. PrivatiInOrdine(t)
    <2>1. \A q \in Reperti : t[ChiavePrivatoPmLab(q)] = s[ChiavePrivatoPmLab(q)]
      BY <1>1, <1>5, ValoriDelleChiavi DEF SoloChiavi
    <2> QED  BY <1>1, <2>1
             DEF Fascicolo, PrivatiInOrdine, SchedeUguali, RepertoExists, Scheda
  <1>7. \A x \in Casi :
            /\ \A y \in IdAtto :
                /\ t[ChiaveDocumento(x, y)] = s[ChiaveDocumento(x, y)]
                /\ t[ChiaveFile("PG_PM", x, y)] = s[ChiaveFile("PG_PM", x, y)]
                /\ <<x, y>> # <<c, d>> =>
                        t[ChiaveFile("PM_LAB", x, y)] = s[ChiaveFile("PM_LAB", x, y)]
            /\ \A e \in IdEvidenze :
                /\ t[ChiaveEvidenza(x, e)] = s[ChiaveEvidenza(x, e)]
                /\ t[ChiaveFile("PG_PM", x, e)] = s[ChiaveFile("PG_PM", x, e)]
    BY <1>1, <1>5, ValoriDelleChiavi DEF SoloChiavi, Id
  <1>8. FileInOrdine(t)
    <2>1. DocumentoInOrdine(t, c, d)
      BY <1>1, <1>2, <1>7 DEF DocumentoInOrdine, k, pgpm
    <2>2. ASSUME NEW x \in Casi, NEW y \in IdAtto PROVE DocumentoInOrdine(t, x, y)
      BY <1>7, <2>1 DEF Fascicolo, FileInOrdine, DocumentoInOrdine
    <2>3. ASSUME NEW x \in Casi, NEW e \in IdEvidenze PROVE EvidenzaInOrdine(t, x, e)
      BY <1>7 DEF Fascicolo, FileInOrdine, EvidenzaInOrdine
    <2> QED  BY <2>2, <2>3 DEF FileInOrdine
  <1>9. IndiciInOrdine(t)
    <2>1. \A q \in Reperti :
            /\ \A y \in IdAtto : t[ChiaveDocRep(q, y)] = s[ChiaveDocRep(q, y)]
            /\ \A e \in IdEvidenze : t[ChiaveEviRep(q, e)] = s[ChiaveEviRep(q, e)]
      BY <1>1, <1>5, ValoriDelleChiavi DEF SoloChiavi
    <2> QED  BY <1>4, <2>1, IndiciRestano DEF Fascicolo
  <1> QED  BY <1>2, <1>4, <1>6, <1>7, <1>8, <1>9 DEF Fascicolo

\* A new evidence is filed.
LEMMA FascicoloEvidenza ==
    ASSUME IdSeparati, NEW s, Tipato(s), Fascicolo(s), NEW msp \in Msp, NEW c \in Casi,
           NEW e \in IdEvidenze, NEW r \in Reperti \cup {Nil}, NEW f \in File,
           s[ChiaveEvidenza(c, e)] = Nil,
           NEW t, t = s ++ ScritturaRegistraEvidenza(msp, e, c, r, f)
    PROVE  Fascicolo(t) /\ Conserva(s, t) /\ SenzaCopie(s, t)
  <1> DEFINE ke == ChiaveEvidenza(c, e)
             kf == ChiaveFile("PG_PM", c, e)
             ki == ChiaveEviRep(r, e)
             K == {ke, kf} \cup (IF r = Nil THEN {} ELSE {ki})
             priv == [caso |-> c, reperto |-> r, tipo |-> Nil, autore |-> msp,
                      ente |-> Nil, chiave |-> f]
  <1>1. /\ t[ke] = [cid |-> f] /\ t[kf] = priv
        /\ r # Nil => t[ki] = [caso |-> c]
        /\ SoloChiavi(s, t, K) /\ SchedeUguali(s, t)
    BY EffettoRegistraEvidenza, DopoRegistraEvidenza
  <1>2. /\ priv # Nil /\ [cid |-> f] # Nil
        /\ e # Nil /\ e \notin IdAtto /\ e \in Id
        /\ s[kf] = Nil
    <2>1. priv \in FilePrivate /\ [cid |-> f] \in FilePublic
      BY DEF FilePrivate, FilePublic
    <2>2. e # Nil /\ e \notin IdAtto /\ e \in Id
      BY NilAssumption, IdAssumption DEF IdSeparati, IdAtto, Id
    <2> QED  BY <2>1, <2>2, NilAssumption, SenzaPubblico DEF Fascicolo
  <1>3. priv.caso = c /\ priv.chiave = f
    OBVIOUS
  <1> HIDE DEF priv
  <1>4. Conserva(s, t)
    BY <1>1, <1>2, ChiaviDelFascicolo DEF Conserva, SoloChiavi, ChiaviImmutabili
  <1>5. \A q \in Reperti : ChiavePrivatoPmLab(q) \notin K
    BY DEF ChiavePrivatoPmLab, ChiaveFile, ChiaveEvidenza, ChiaveEviRep
  <1>6. \A x \in Casi :
            /\ \A y \in IdAtto :
                /\ ChiaveDocumento(x, y) \notin K
                /\ ChiaveFile("PG_PM", x, y) \notin K /\ ChiaveFile("PM_LAB", x, y) \notin K
            /\ \A y \in IdEvidenze : <<x, y>> # <<c, e>> =>
                ChiaveEvidenza(x, y) \notin K /\ ChiaveFile("PG_PM", x, y) \notin K
    BY <1>2 DEF ChiaveFile, ChiaveEvidenza, ChiaveEviRep, ChiaveDocumento
  <1>7. \A q \in Reperti :
            /\ \A y \in IdAtto : ChiaveDocRep(q, y) \notin K
            /\ \A y \in IdEvidenze : ChiaveEviRep(q, y) \in K => y = e /\ q = r
    BY DEF ChiaveFile, ChiaveEvidenza, ChiaveEviRep, ChiaveDocRep
  <1> HIDE DEF K
  <1>8. PrivatiInOrdine(t)
    <2>1. \A q \in Reperti : t[ChiavePrivatoPmLab(q)] = s[ChiavePrivatoPmLab(q)]
      BY <1>1, <1>5, ValoriDelleChiavi DEF SoloChiavi
    <2> QED  BY <1>1, <2>1
             DEF Fascicolo, PrivatiInOrdine, SchedeUguali, RepertoExists, Scheda
  <1>9. \A x \in Casi :
            /\ \A y \in IdAtto :
                /\ t[ChiaveDocumento(x, y)] = s[ChiaveDocumento(x, y)]
                /\ t[ChiaveFile("PG_PM", x, y)] = s[ChiaveFile("PG_PM", x, y)]
                /\ t[ChiaveFile("PM_LAB", x, y)] = s[ChiaveFile("PM_LAB", x, y)]
            /\ \A y \in IdEvidenze : <<x, y>> # <<c, e>> =>
                /\ t[ChiaveEvidenza(x, y)] = s[ChiaveEvidenza(x, y)]
                /\ t[ChiaveFile("PG_PM", x, y)] = s[ChiaveFile("PG_PM", x, y)]
    BY <1>1, <1>6, ValoriDelleChiavi DEF SoloChiavi, Id
  <1>10. FileInOrdine(t) /\ SenzaCopie(s, t)
    <2>1. EvidenzaInOrdine(t, c, e)
      BY <1>1, <1>2, <1>3 DEF EvidenzaInOrdine
    <2>2. ASSUME NEW x \in Casi, NEW y \in IdAtto PROVE DocumentoInOrdine(t, x, y)
      BY <1>9 DEF Fascicolo, FileInOrdine, DocumentoInOrdine
    <2>3. ASSUME NEW x \in Casi, NEW y \in IdEvidenze PROVE EvidenzaInOrdine(t, x, y)
      BY <1>9, <2>1 DEF Fascicolo, FileInOrdine, EvidenzaInOrdine
    <2> QED  BY <1>9, <2>2, <2>3 DEF FileInOrdine, SenzaCopie
  <1>11. IndiciInOrdine(t)
    <2>1. \A q \in Reperti, y \in IdAtto : t[ChiaveDocRep(q, y)] = s[ChiaveDocRep(q, y)]
      BY <1>1, <1>7, ValoriDelleChiavi DEF SoloChiavi
    <2>2. ASSUME NEW q \in Reperti, NEW y \in IdEvidenze
          PROVE  \/ t[ChiaveEviRep(q, y)] = s[ChiaveEviRep(q, y)]
                 \/ t[ChiaveEvidenza(t[ChiaveEviRep(q, y)].caso, y)] # Nil
      <3>1. CASE ChiaveEviRep(q, y) \in K
        <4>1. t[ChiaveEviRep(q, y)] = [caso |-> c] /\ y = e
          BY <1>1, <1>7, <3>1, NilAssumption
        <4> QED  BY <1>1, <1>2, <4>1
      <3>2. CASE ChiaveEviRep(q, y) \notin K
        BY <1>1, <3>2, ValoriDelleChiavi DEF SoloChiavi
      <3> QED  BY <3>1, <3>2
    <2> QED  BY <1>4, <2>1, <2>2, IndiciRestano DEF Fascicolo
  <1> QED  BY <1>4, <1>8, <1>10, <1>11 DEF Fascicolo

\* An exhibit is created.
LEMMA FascicoloCreaReperto ==
    ASSUME NEW s, Tipato(s), Fascicolo(s), NEW r \in Reperti, NEW priv \in RepertoPrivate,
           ~RepertoExists(s, r), NEW t, t = s ++ ScritturaCreaReperto(r, priv)
    PROVE  Fascicolo(t) /\ Conserva(s, t) /\ SenzaCopie(s, t)
  <1>1. /\ Scheda(t, r) = SchedaNuova(priv) /\ Privato(t, r) = priv
        /\ \A q \in Reperti \ {r} : /\ Scheda(t, q) = Scheda(s, q)
                                    /\ Privato(t, q) = Privato(s, q)
        /\ SoloChiavi(s, t, {ChiaveReperto(r), ChiavePrivatoReperto(r)})
    BY DopoCreaReperto
  <1>2. SoloChiavi(s, t, {ChiaveReperto(r), ChiavePrivatoReperto(r), ChiavePrivatoPmLab(r)})
    BY <1>1 DEF SoloChiavi
  <1>3. FileInOrdine(t) /\ IndiciInOrdine(t) /\ SenzaCopie(s, t)
    BY <1>2, FileRestano DEF Fascicolo
  <1>4. Privato(s, r) = Nil /\ s[ChiavePrivatoPmLab(r)] = Nil
    BY DEF Fascicolo, PrivatiInOrdine
  <1>5. Conserva(s, t)
    BY <1>1, <1>4, ChiaviDelFascicolo DEF Conserva, SoloChiavi, ChiaviImmutabili, Privato
  <1>6. PrivatiInOrdine(t)
    <2>1. \A q \in Reperti : t[ChiavePrivatoPmLab(q)] = s[ChiavePrivatoPmLab(q)]
      <3>1. \A q \in Reperti : /\ ChiavePrivatoPmLab(q) # ChiaveReperto(r)
                               /\ ChiavePrivatoPmLab(q) # ChiavePrivatoReperto(r)
        BY DEF ChiavePrivatoPmLab, ChiaveReperto, ChiavePrivatoReperto, ChiaveFile
      <3> QED  BY <1>1, <3>1, ValoriDelleChiavi DEF SoloChiavi
    <2>2. SchedaNuova(priv) # Nil
      BY NilAssumption, TipataCreaReperto
    <2> QED  BY <1>1, <1>4, <2>1, <2>2
             DEF Fascicolo, PrivatiInOrdine, RepertoExists, Scheda
  <1> QED  BY <1>3, <1>5, <1>6 DEF Fascicolo

\* What two groups of writes do to the dossier.
LEMMA FascicoloPoi ==
    ASSUME NEW s, NEW t, NEW u
    PROVE  /\ Conserva(s, t) /\ Conserva(t, u) => Conserva(s, u)
           /\ SenzaCopie(s, t) /\ SenzaCopie(t, u) => SenzaCopie(s, u)
  <1>1. Conserva(s, t) /\ Conserva(t, u) => Conserva(s, u)
    BY DEF Conserva
  <1>2. SenzaCopie(s, t) /\ SenzaCopie(t, u) => SenzaCopie(s, u)
    BY DEF SenzaCopie
  <1> QED  BY <1>1, <1>2

\* A workflow step attaches its document.
LEMMA FascicoloAllegato ==
    ASSUME IdSeparati, NEW s, Tipato(s), Fascicolo(s), NEW tx \in TxIds, NEW msp \in Msp,
           NEW c \in Casi, NEW r \in Reperti, NEW tipo \in TipiDocumento, NEW f \in File,
           NEW ente \in Laboratori \cup Distretti, TxNuova(s, tx),
           NEW t, t = s ++ registraDocumentoAllegato(tx, msp, c, r, tipo, f, ente)
    PROVE  Fascicolo(t) /\ Conserva(s, t) /\ SenzaCopie(s, t) /\ Tipato(t) /\ SchedeUguali(s, t)
  <1> DEFINE priv == PrivatoAllegato(msp, c, r, tipo, f, ente)
  <1>1. /\ priv \in FilePrivate /\ priv.caso = c /\ priv.tipo = tipo /\ priv.chiave = f
        /\ registraDocumentoAllegato(tx, msp, c, r, tipo, f, ente) = putDocumento(c, tx, f, priv)
    BY DEF PrivatoAllegato, FilePrivate, registraDocumentoAllegato
  <1> HIDE DEF priv
  <1>2. s[ChiaveDocumento(c, tx)] = Nil /\ tx \in IdAtto
    BY DEF TxNuova, IdAtto
  <1>3. Fascicolo(t) /\ Conserva(s, t) /\ SenzaCopie(s, t)
    BY <1>1, <1>2, FascicoloPutDocumento
  <1> QED  BY <1>3, TipataAllegato, TipataApplica, DopoAllegato

\* A document is attached, then the card is saved.
LEMMA FascicoloAllegatoEScheda ==
    ASSUME IdSeparati, NEW s, Tipato(s), Fascicolo(s), NEW tx \in TxIds, NEW msp \in Msp,
           NEW c \in Casi, NEW r \in Reperti, NEW tipo \in TipiDocumento, NEW f \in File,
           NEW ente \in Laboratori \cup Distretti, TxNuova(s, tx),
           RepertoExists(s, r), NEW p, p # Nil,
           NEW t, t = s ++ (registraDocumentoAllegato(tx, msp, c, r, tipo, f, ente)
                            ++ SalvaScheda(r, p))
    PROVE  Fascicolo(t) /\ Conserva(s, t) /\ SenzaCopie(s, t)
  <1> DEFINE u == s ++ registraDocumentoAllegato(tx, msp, c, r, tipo, f, ente)
  <1>1. t = u ++ SalvaScheda(r, p)
    BY Associa
  <1>2. Fascicolo(u) /\ Conserva(s, u) /\ SenzaCopie(s, u) /\ Tipato(u) /\ SchedeUguali(s, u)
    BY FascicoloAllegato
  <1> HIDE DEF u
  <1>3. RepertoExists(u, r)
    BY <1>2 DEF SchedeUguali, RepertoExists, Scheda
  <1>4. Fascicolo(t) /\ Conserva(u, t) /\ SenzaCopie(u, t)
    BY <1>1, <1>2, <1>3, FascicoloScheda
  <1> QED  BY <1>2, <1>4, FascicoloPoi

\* RegistraDocumentoConTransient.
LEMMA FascicoloRegistraDocumento ==
    ASSUME IdSeparati, NEW s, Tipato(s), Fascicolo(s), NEW msp \in Msp, NEW d \in IdDocumenti,
           NEW c \in Casi, NEW tipo \in TipiDocumento, NEW r \in Reperti \cup {Nil},
           NEW f \in File, AmmetteRegistraDocumento(s, msp, d, c, tipo, r),
           NEW t, t = s ++ ScritturaRegistraDocumento(s, msp, d, c, tipo, r, f)
    PROVE  Fascicolo(t) /\ Conserva(s, t) /\ SenzaCopie(s, t)
  <1> DEFINE priv == PrivatoAllegato(msp, c, r, tipo, f, Nil)
             u == s ++ putDocumento(c, d, f, priv)
             w == aggiornaPuntatoreDocumentoSuReperto(s, r, d, tipo)
  <1>1. t = u ++ w
    BY Associa DEF ScritturaRegistraDocumento, PrivatoAllegato
  <1>2. /\ priv \in FilePrivate /\ priv.caso = c /\ priv.tipo = tipo /\ priv.chiave = f
        /\ s[ChiaveDocumento(c, d)] = Nil /\ d \in IdAtto
    BY DEF PrivatoAllegato, FilePrivate, AmmetteRegistraDocumento, IdAtto
  <1> HIDE DEF priv
  <1>3. /\ Fascicolo(u) /\ Conserva(s, u) /\ SenzaCopie(s, u)
        /\ Tipato(u) /\ SchedeUguali(s, u)
    BY <1>2, FascicoloPutDocumento, TipataPutDocumento, TipataApplica, SchedeDopoDocumento
  <1> HIDE DEF u
  <1>4. CASE r = Nil \/ tipo # "VERBALE_SEQUESTRO"
    <2>1. w = Niente
      BY <1>4 DEF aggiornaPuntatoreDocumentoSuReperto
    <2>2. t = u
      BY <1>1, <1>3, <2>1 DEF Tipato, ++, Niente
    <2> QED  BY <1>3, <2>2
  <1>5. CASE r # Nil /\ tipo = "VERBALE_SEQUESTRO"
    <2> DEFINE p == IF Scheda(s, r).verbale = Nil
                    THEN [Scheda(s, r) EXCEPT !.verbale = d] ELSE Scheda(s, r)
    <2>1. r \in Reperti /\ RepertoExists(s, r) /\ Scheda(s, r) \in RepertoPublic
      BY <1>5, SchedaTipata DEF AmmetteRegistraDocumento
    <2>2. w = SalvaScheda(r, p)
      BY <1>5 DEF aggiornaPuntatoreDocumentoSuReperto
    <2>3. p # Nil
      <3>1. [Scheda(s, r) EXCEPT !.verbale = d] \in RepertoPublic
        BY <1>2, <2>1 DEF RepertoPublic, AttoONil
      <3> QED  BY <2>1, <3>1, NilAssumption
    <2> HIDE DEF p
    <2>4. RepertoExists(u, r)
      BY <1>3, <2>1 DEF SchedeUguali, RepertoExists, Scheda
    <2>5. Fascicolo(t) /\ Conserva(u, t) /\ SenzaCopie(u, t)
      BY <1>1, <1>3, <2>1, <2>2, <2>3, <2>4, FascicoloScheda
    <2> QED  BY <1>3, <2>5, FascicoloPoi
  <1> QED  BY <1>4, <1>5

\* RichiediAnalisi, where the verbale is a document a client filed.
LEMMA FascicoloRichiediAnalisi ==
    ASSUME IdSeparati, NEW s, Tipato(s), Fascicolo(s), NEW msp \in Msp, NEW tx \in TxIds,
           NEW r \in Reperti, NEW lab \in Laboratori, NEW f \in File,
           AmmetteRichiediAnalisi(s, msp, r), TxNuova(s, tx),
           Scheda(s, r).verbale \in IdDocumenti,
           NEW t, t = s ++ ScritturaRichiediAnalisi(s, tx, msp, r, lab, f)
    PROVE  /\ Fascicolo(t) /\ Conserva(s, t)
           /\ \A x \in Casi, y \in IdAtto :
                <<x, y>> # <<Privato(s, r).caso, Scheda(s, r).verbale>> =>
                    \/ t[ChiaveFile("PM_LAB", x, y)] = s[ChiaveFile("PM_LAB", x, y)]
                    \/ t[ChiaveFile("PM_LAB", x, y)].tipo \notin TipiPg
  <1> DEFINE c == Privato(s, r).caso
             d == Scheda(s, r).verbale
             kp == ChiavePrivatoPmLab(r)
             kg == ChiaveFile("PG_PM", c, d)
             kv == ChiaveFile("PM_LAB", c, d)
             p == SchedaRichiesta(s, r, tx, lab)
             u == s ++ registraDocumentoAllegato(tx, msp, c, r, "DECRETO_ACCERTAMENTO", f, lab)
             v == u ++ Scrivi(kp, Privato(s, r))
             w == v ++ Scrivi(kv, s[kg])
  <1>0. t = w ++ SalvaScheda(r, p)
    BY Associa DEF ScritturaRichiediAnalisi, SchedaRichiesta, ChiaveVerbale
  <1>1. /\ c \in Casi /\ d \in IdDocumenti /\ d \in IdAtto /\ d \in Id
        /\ s[kg] \in FilePrivate /\ s[kg] # Nil
        /\ Privato(s, r) \in RepertoPrivate /\ RepertoExists(s, r)
        /\ p \in RepertoPublic /\ p # Nil
    BY LettoPerRichiesta, TipataRichiediAnalisi, NilAssumption
       DEF ChiaveVerbale, IdAtto, Id, AmmetteRichiediAnalisi, InStato
  <1>2. Fascicolo(u) /\ Conserva(s, u) /\ SenzaCopie(s, u) /\ Tipato(u) /\ SchedeUguali(s, u)
    BY <1>1, FascicoloAllegato DEF TipiDocumento
  <1> HIDE DEF u, c, d, p
  <1>3. Fascicolo(v) /\ Conserva(u, v) /\ SenzaCopie(u, v) /\ Tipato(v) /\ SchedeUguali(u, v)
    <2>1. Privato(s, r) = Privato(u, r)
      BY <1>2 DEF SchedeUguali
    <2>2. Tipato(v)
      BY <1>1, <1>2, ValoriDelleChiavi, TipataScrivi, TipataApplica
    <2> QED  BY <1>2, <2>1, <2>2, FascicoloPrivatoPmLab, DopoPrivatoPmLab
  <1> HIDE DEF v
  <1>4. v[kg] = s[kg]
    <2>1. kg \in ChiaviImmutabili /\ kg \in ChiaviImmutabili
      BY <1>1, ChiaviDelFascicolo
    <2> QED  BY <1>1, <1>2, <1>3, <2>1 DEF Conserva
  <1>5. /\ Fascicolo(w) /\ Conserva(v, w) /\ Tipato(w) /\ SchedeUguali(v, w)
        /\ \A x \in Casi, y \in IdAtto : <<x, y>> # <<c, d>> =>
                w[ChiaveFile("PM_LAB", x, y)] = v[ChiaveFile("PM_LAB", x, y)]
    <2>1. Tipato(w)
      BY <1>1, <1>3, ValoriDelleChiavi, TipataScrivi, TipataApplica
    <2> QED  BY <1>1, <1>3, <1>4, <2>1, FascicoloCopia, DopoCopia
  <1> HIDE DEF w, kg, kv, kp
  <1>6. RepertoExists(w, r)
    BY <1>1, <1>2, <1>3, <1>5 DEF SchedeUguali, RepertoExists, Scheda
  <1>7. Fascicolo(t) /\ Conserva(w, t) /\ SenzaCopie(w, t)
    BY <1>0, <1>1, <1>5, <1>6, FascicoloScheda
  <1>8. Conserva(s, t)
    BY <1>2, <1>3, <1>5, <1>7, FascicoloPoi
  <1>9. \A x \in Casi, y \in IdAtto : <<x, y>> # <<c, d>> =>
            \/ t[ChiaveFile("PM_LAB", x, y)] = s[ChiaveFile("PM_LAB", x, y)]
            \/ t[ChiaveFile("PM_LAB", x, y)].tipo \notin TipiPg
    BY <1>2, <1>3, <1>5, <1>7 DEF SenzaCopie
  <1> QED  BY <1>7, <1>8, <1>9 DEF c, d

-----------------------------------------------------------------------------
(* Every step of the contract keeps the dossier.                           *)

\* LAB has what it needs for exhibit r: the private data and its verbale.
Copiato(s, r) ==
    /\ s[ChiavePrivatoPmLab(r)] = Privato(s, r)
    /\ Scheda(s, r).verbale # Nil
    /\ s[ChiaveVerbale(s, r, "PM_LAB")] # Nil
    /\ s[ChiaveVerbale(s, r, "PM_LAB")] = s[ChiaveVerbale(s, r, "PG_PM")]

\* What each step does: LAB gets copies of documents of PG only as verbale of
\* exhibits whose analysis is requested, and gets them with the request.
PassoFascicolo ==
    /\ Fascicolo(stato') /\ Conserva(stato, stato')
    /\ \A c \in Casi, d \in IdAtto :
          \/ stato'[ChiaveFile("PM_LAB", c, d)] = stato[ChiaveFile("PM_LAB", c, d)]
          \/ stato'[ChiaveFile("PM_LAB", c, d)].tipo \notin TipiPg
          \/ \E r \in Reperti : Richiesto(stato', r, c, d)
    /\ \A r \in Reperti : RepertoExists(stato', r) /\ Scheda(stato', r).decreto # Nil =>
          \/ RepertoExists(stato, r) /\ Scheda(stato, r).decreto # Nil
          \/ Copiato(stato', r)

\* A step that attaches no decree.
LEMMA FascicoloSenzaDecreto ==
    ASSUME Fascicolo(stato'), Conserva(stato, stato'), SenzaCopie(stato, stato'),
           \/ SchedeUguali(stato, stato')
           \/ \E r \in Reperti, q \in RepertoPublic :
                /\ RepertoExists(stato, r)
                /\ CambiaScheda(stato, stato', r, q)
                /\ q.decreto = Scheda(stato, r).decreto
    PROVE  PassoFascicolo
  <1>1. \A r \in Reperti : RepertoExists(stato', r) /\ Scheda(stato', r).decreto # Nil =>
            RepertoExists(stato, r) /\ Scheda(stato, r).decreto # Nil
    BY DEF SchedeUguali, CambiaScheda, RepertoExists, Scheda
  <1> QED  BY <1>1 DEF PassoFascicolo, SenzaCopie

\* CreaReperto.
LEMMA FascicoloPassoCreaReperto ==
    ASSUME Base, Fascicolo(stato), NEW msp \in Msp, NEW r \in Reperti,
           NEW priv \in RepertoPrivate, CreaReperto(msp, r, priv)
    PROVE  PassoFascicolo
  <1>1. /\ Tipato(stato) /\ ~RepertoExists(stato, r)
        /\ stato' = stato ++ ScritturaCreaReperto(r, priv)
    BY DEF Base, CreaReperto, AmmetteCreaReperto
  <1>2. Fascicolo(stato') /\ Conserva(stato, stato') /\ SenzaCopie(stato, stato')
    BY <1>1, FascicoloCreaReperto
  <1>3. /\ Scheda(stato', r) = SchedaNuova(priv)
        /\ \A q \in Reperti \ {r} : Scheda(stato', q) = Scheda(stato, q)
    BY <1>1, DopoCreaReperto
  <1>4. \A q \in Reperti : RepertoExists(stato', q) /\ Scheda(stato', q).decreto # Nil =>
            RepertoExists(stato, q) /\ Scheda(stato, q).decreto # Nil
    BY <1>3 DEF SchedaNuova, RepertoExists, Scheda
  <1> QED  BY <1>2, <1>4 DEF PassoFascicolo, SenzaCopie

\* RegistraDocumentoConTransient.
LEMMA FascicoloPassoRegistraDocumento ==
    ASSUME IdSeparati, Base, Fascicolo(stato), NEW msp \in Msp, NEW d \in IdDocumenti,
           NEW c \in Casi, NEW tipo \in TipiDocumento, NEW r \in Reperti \cup {Nil},
           NEW f \in File, RegistraDocumento(msp, d, c, tipo, r, f)
    PROVE  PassoFascicolo
  <1>1. /\ stato' = stato ++ ScritturaRegistraDocumento(stato, msp, d, c, tipo, r, f)
        /\ AmmetteRegistraDocumento(stato, msp, d, c, tipo, r)
        /\ Tipato(stato)
    BY DEF RegistraDocumento, Base
  <1>2. Fascicolo(stato') /\ Conserva(stato, stato') /\ SenzaCopie(stato, stato')
    BY <1>1, FascicoloRegistraDocumento
  <1>3. \/ SchedeUguali(stato, stato')
        \/ /\ r \in Reperti /\ RepertoExists(stato, r)
           /\ CambiaScheda(stato, stato', r, [Scheda(stato, r) EXCEPT !.verbale = d])
    BY <1>1, DopoRegistraDocumento
  <1>4. ASSUME r \in Reperti, RepertoExists(stato, r)
        PROVE  LET q == [Scheda(stato, r) EXCEPT !.verbale = d]
               IN  q \in RepertoPublic /\ q.decreto = Scheda(stato, r).decreto
    <2>1. Scheda(stato, r) \in RepertoPublic
      BY <1>1, <1>4, SchedaTipata
    <2> QED  BY <2>1 DEF RepertoPublic, AttoONil, IdAtto
  <1> QED  BY <1>2, <1>3, <1>4, FascicoloSenzaDecreto

\* RegistraEvidenzaConTransient.
LEMMA FascicoloPassoRegistraEvidenza ==
    ASSUME IdSeparati, Base, Fascicolo(stato), NEW msp \in Msp, NEW e \in IdEvidenze,
           NEW c \in Casi, NEW r \in Reperti \cup {Nil}, NEW f \in File,
           RegistraEvidenza(msp, e, c, r, f)
    PROVE  PassoFascicolo
  <1>1. /\ stato' = stato ++ ScritturaRegistraEvidenza(msp, e, c, r, f)
        /\ Tipato(stato) /\ stato[ChiaveEvidenza(c, e)] = Nil
    BY DEF RegistraEvidenza, AmmetteRegistraEvidenza, Base
  <1>2. Fascicolo(stato') /\ Conserva(stato, stato') /\ SenzaCopie(stato, stato')
    BY <1>1, FascicoloEvidenza
  <1>3. SchedeUguali(stato, stato')
    BY <1>1, DopoRegistraEvidenza
  <1> QED  BY <1>2, <1>3, FascicoloSenzaDecreto

\* RichiediAnalisi: LAB gets the private data and the verbale of the exhibit.
LEMMA FascicoloPassoRichiediAnalisi ==
    ASSUME IdSeparati, Base, Fascicolo(stato), NEW tx \in TxIds, NEW msp \in Msp,
           NEW r \in Reperti, NEW lab \in Laboratori, NEW f \in File,
           RichiediAnalisi(tx, msp, r, lab, f)
    PROVE  PassoFascicolo
  <1> DEFINE p == Scheda(stato, r)
             priv == Privato(stato, r)
             q == SchedaRichiesta(stato, r, tx, lab)
             kv == ChiaveFile("PM_LAB", priv.caso, p.verbale)
             kg == ChiaveFile("PG_PM", priv.caso, p.verbale)
  <1>1. /\ stato' = stato ++ ScritturaRichiediAnalisi(stato, tx, msp, r, lab, f)
        /\ AmmetteRichiediAnalisi(stato, msp, r)
        /\ TxNuova(stato, tx) /\ Tipato(stato)
        /\ InStato(stato, r, {"SEQUESTRATO"}) /\ p.verbale # Nil
        /\ stato[kg] # Nil
    BY DEF RichiediAnalisi, AmmetteRichiediAnalisi, ChiaveVerbale, Base
  <1>2. /\ RepertoExists(stato, r) /\ p \in RepertoPublic
        /\ p.verbale \in IdDocumenti /\ priv.caso \in Casi
    BY <1>1, InStatoNoto DEF PuntatoriDi, RepertoPrivate
  <1>3. /\ Fascicolo(stato') /\ Conserva(stato, stato')
        /\ \A x \in Casi, y \in IdAtto : <<x, y>> # <<priv.caso, p.verbale>> =>
                \/ stato'[ChiaveFile("PM_LAB", x, y)] = stato[ChiaveFile("PM_LAB", x, y)]
                \/ stato'[ChiaveFile("PM_LAB", x, y)].tipo \notin TipiPg
    BY <1>1, <1>2, FascicoloRichiediAnalisi
  <1>4. /\ CambiaScheda(stato, stato', r, q)
        /\ stato'[ChiavePrivatoPmLab(r)] = priv
        /\ stato'[kv] = stato[kg]
    BY <1>1, <1>2, DopoRichiediAnalisi DEF ChiaveVerbale
  <1>5. q.decreto = tx /\ q.verbale = p.verbale /\ q.caso = priv.caso /\ tx # Nil /\ q # Nil
    <2>1. q \in RepertoPublic
      BY <1>1, TipataRichiediAnalisi
    <2> QED  BY <1>2, <2>1, NilAssumption DEF SchedaRichiesta, RepertoPublic
  <1>6. stato'[kg] = stato[kg]
    <2>1. kg \in ChiaviImmutabili
      BY <1>2, ChiaviDelFascicolo DEF Id, IdAtto
    <2> QED  BY <1>1, <1>3, <2>1 DEF Conserva
  <1> HIDE DEF q, p, priv
  <1>7. Scheda(stato', r) = q /\ Privato(stato', r) = priv /\ RepertoExists(stato', r)
    BY <1>4, <1>5 DEF CambiaScheda, RepertoExists, Scheda, priv
  <1>8. Richiesto(stato', r, priv.caso, p.verbale)
    BY <1>5, <1>7 DEF Richiesto
  <1>9. Copiato(stato', r)
    <2>1. /\ ChiaveVerbale(stato', r, "PM_LAB") = kv
          /\ ChiaveVerbale(stato', r, "PG_PM") = kg
      BY <1>5, <1>7 DEF ChiaveVerbale
    <2> QED  BY <1>1, <1>4, <1>5, <1>6, <1>7, <2>1 DEF Copiato
  <1>10. ASSUME NEW x \in Reperti, RepertoExists(stato', x), Scheda(stato', x).decreto # Nil
         PROVE  \/ RepertoExists(stato, x) /\ Scheda(stato, x).decreto # Nil
                \/ Copiato(stato', x)
    <2>1. CASE x = r
      BY <1>9, <2>1
    <2>2. CASE x # r
      BY <1>4, <1>10, <2>2 DEF CambiaScheda, RepertoExists, Scheda
    <2> QED  BY <2>1, <2>2
  <1>11. ASSUME NEW x \in Casi, NEW y \in IdAtto
         PROVE  \/ stato'[ChiaveFile("PM_LAB", x, y)] = stato[ChiaveFile("PM_LAB", x, y)]
                \/ stato'[ChiaveFile("PM_LAB", x, y)].tipo \notin TipiPg
                \/ \E z \in Reperti : Richiesto(stato', z, x, y)
    BY <1>3, <1>8
  <1> QED  BY <1>3, <1>10, <1>11 DEF PassoFascicolo

\* A step that saves a card and nothing else: AvviaTrasporto,
\* RiceviInLaboratorio.
LEMMA FascicoloPassoScheda ==
    ASSUME Base, Fascicolo(stato), NEW r \in Reperti, RepertoExists(stato, r),
           NEW q \in RepertoPublic, q.decreto = Scheda(stato, r).decreto,
           stato' = stato ++ SalvaScheda(r, q)
    PROVE  PassoFascicolo
  <1>1. q # Nil /\ Tipato(stato)
    BY NilAssumption DEF Base
  <1>2. Fascicolo(stato') /\ Conserva(stato, stato') /\ SenzaCopie(stato, stato')
    BY <1>1, FascicoloScheda
  <1>3. CambiaScheda(stato, stato', r, q)
    BY <1>1, DopoScheda
  <1> QED  BY <1>2, <1>3, FascicoloSenzaDecreto

\* A step that attaches a document and saves the card without touching the
\* decree: CompletaAnalisi, DepositaInSede.
LEMMA FascicoloPassoAllegato ==
    ASSUME IdSeparati, Base, Fascicolo(stato), NEW tx \in TxIds, TxNuova(stato, tx),
           NEW msp \in Msp, NEW c \in Casi, NEW r \in Reperti, NEW tipo \in TipiDocumento,
           NEW f \in File, NEW ente \in Laboratori \cup Distretti, RepertoExists(stato, r),
           NEW q \in RepertoPublic, q.decreto = Scheda(stato, r).decreto,
           stato' = stato ++ (registraDocumentoAllegato(tx, msp, c, r, tipo, f, ente)
                              ++ SalvaScheda(r, q))
    PROVE  PassoFascicolo
  <1>1. q # Nil /\ Tipato(stato)
    BY NilAssumption DEF Base
  <1>2. Fascicolo(stato') /\ Conserva(stato, stato') /\ SenzaCopie(stato, stato')
    BY <1>1, FascicoloAllegatoEScheda
  <1>3. CambiaScheda(stato, stato', r, q)
    BY <1>1, DopoAllegatoEScheda
  <1> QED  BY <1>2, <1>3, FascicoloSenzaDecreto

\* Every step.
LEMMA FascicoloPasso ==
    ASSUME IdSeparati, Base, Fascicolo(stato), [Next]_vars
    PROVE  PassoFascicolo
  <1>0. Tipato(stato)
    BY DEF Base
  <1>1. ASSUME UNCHANGED stato PROVE PassoFascicolo
    BY <1>1 DEF PassoFascicolo, Conserva
  <1>2. ASSUME NEW msp \in Msp, NEW r \in Reperti, PreparaRiconsegna(msp, r)
        PROVE  PassoFascicolo
    BY <1>1, <1>2 DEF PreparaRiconsegna
  <1>3. ASSUME NEW msp \in Msp, NEW r \in Reperti, NEW agente \in Agenti,
               AvviaTrasporto(msp, r, agente)
        PROVE  PassoFascicolo
    <2> DEFINE p == Scheda(stato, r)
               q == [p EXCEPT !.stato = "IN_TRANSITO", !.custode = agente]
    <2>1. RepertoExists(stato, r) /\ p \in RepertoPublic
      BY <1>0, <1>3, InStatoScheda DEF AvviaTrasporto, AmmetteAvviaTrasporto
    <2>2. q \in RepertoPublic /\ q.decreto = p.decreto
      BY <2>1 DEF RepertoPublic, Stati
    <2>3. stato' = stato ++ SalvaScheda(r, q)
      BY <1>3 DEF AvviaTrasporto, ScritturaAvviaTrasporto
    <2> HIDE DEF q
    <2> QED  BY <2>1, <2>2, <2>3, FascicoloPassoScheda
  <1>4. ASSUME NEW msp \in Msp, NEW r \in Reperti, NEW lab \in Laboratori,
               RiceviInLaboratorio(msp, r, lab)
        PROVE  PassoFascicolo
    <2> DEFINE p == Scheda(stato, r)
               q == [p EXCEPT !.stato = "IN_ANALISI", !.custode = lab]
    <2>1. RepertoExists(stato, r) /\ p \in RepertoPublic
      BY <1>0, <1>4, InStatoScheda DEF RiceviInLaboratorio, AmmetteRiceviInLaboratorio
    <2>2. q \in RepertoPublic /\ q.decreto = p.decreto
      BY <2>1 DEF RepertoPublic, Stati
    <2>3. stato' = stato ++ SalvaScheda(r, q)
      BY <1>4 DEF RiceviInLaboratorio, ScritturaRiceviInLaboratorio
    <2> HIDE DEF q
    <2> QED  BY <2>1, <2>2, <2>3, FascicoloPassoScheda
  <1>5. ASSUME NEW tx \in TxIds, NEW msp \in Msp, NEW r \in Reperti, NEW f \in File,
               CompletaAnalisi(tx, msp, r, f)
        PROVE  PassoFascicolo
    <2> DEFINE p == Scheda(stato, r)
               q == [p EXCEPT !.relazione = tx, !.stato = "ATTESA_RITIRO"]
    <2>1. /\ RepertoExists(stato, r) /\ p \in RepertoPublic /\ TxNuova(stato, tx)
          /\ p.caso \in Casi /\ p.custode \in Laboratori
      <3>1. InStato(stato, r, {"IN_ANALISI"}) /\ p.caso # Nil /\ TxNuova(stato, tx)
        BY <1>5 DEF CompletaAnalisi, AmmetteCompletaAnalisi
      <3>2. /\ RepertoExists(stato, r) /\ p \in RepertoPublic /\ p.stato = "IN_ANALISI"
            /\ CustodiaDi(p, Privato(stato, r))
        BY <3>1, InStatoNoto
      <3> QED  BY <3>1, <3>2 DEF CustodiaDi, RepertoPublic
    <2>2. q \in RepertoPublic /\ q.decreto = p.decreto
      BY <2>1 DEF RepertoPublic, Stati, AttoONil, IdAtto
    <2>3. stato' = stato ++ (registraDocumentoAllegato(tx, msp, p.caso, r, "RELAZIONE_TECNICA",
                                                       f, p.custode) ++ SalvaScheda(r, q))
      BY <1>5 DEF CompletaAnalisi, ScritturaCompletaAnalisi
    <2>4. "RELAZIONE_TECNICA" \in TipiDocumento
      BY DEF TipiDocumento
    <2> HIDE DEF q, p
    <2>5. q.decreto = Scheda(stato, r).decreto
      BY <2>2 DEF p
    <2> QED  BY <2>1, <2>2, <2>3, <2>4, <2>5, FascicoloPassoAllegato
  <1>6. ASSUME NEW tx \in TxIds, NEW msp \in Msp, NEW r \in Reperti, NEW f \in File,
               DepositaInSede(tx, msp, r, f)
        PROVE  PassoFascicolo
    <2> DEFINE p == Scheda(stato, r)
               sede == Privato(stato, r).distretto
               c == CasoDelReperto(stato, r)
               q == [p EXCEPT !.riconsegna = tx, !.stato = "SEQUESTRATO", !.custode = sede]
    <2>1. /\ RepertoExists(stato, r) /\ p \in RepertoPublic /\ TxNuova(stato, tx)
          /\ c \in Casi /\ sede \in Distretti
      <3>1. /\ InStato(stato, r, {"IN_TRANSITO"}) /\ TxNuova(stato, tx)
            /\ AmmetteDepositaInSede(stato, msp, r)
        BY <1>6 DEF DepositaInSede, AmmetteDepositaInSede
      <3>2. /\ RepertoExists(stato, r) /\ p \in RepertoPublic
            /\ Privato(stato, r) \in RepertoPrivate
        BY <3>1, InStatoNoto
      <3> QED  BY <1>0, <3>1, <3>2, TipataDepositaInSede DEF RepertoPrivate
    <2>2. q \in RepertoPublic /\ q.decreto = p.decreto
      BY <2>1 DEF RepertoPublic, Stati, AttoONil, IdAtto
    <2>3. stato' = stato ++ (registraDocumentoAllegato(tx, msp, c, r, "VERBALE_RICONSEGNA",
                                                       f, sede) ++ SalvaScheda(r, q))
      BY <1>6 DEF DepositaInSede, ScritturaDepositaInSede
    <2>4. "VERBALE_RICONSEGNA" \in TipiDocumento
      BY DEF TipiDocumento, TipiPg
    <2> HIDE DEF q, p, c, sede
    <2>5. q.decreto = Scheda(stato, r).decreto
      BY <2>2 DEF p
    <2> QED  BY <2>1, <2>2, <2>3, <2>4, <2>5, FascicoloPassoAllegato
  <1> QED  BY <1>1, <1>2, <1>3, <1>4, <1>5, <1>6, FascicoloPassoCreaReperto,
              FascicoloPassoRegistraDocumento, FascicoloPassoRegistraEvidenza,
              FascicoloPassoRichiediAnalisi DEF Next, vars

-----------------------------------------------------------------------------
(* The invariant.                                                          *)

\* The card p of an exhibit becomes q: the case stays, so does a verbale once
\* linked, and a decree is never taken away.
Segue(p, q) ==
    /\ q.caso = p.caso
    /\ p.verbale # Nil => q.verbale = p.verbale
    /\ p.decreto # Nil => q.decreto # Nil

\* Every change of a card is of this kind.
LEMMA SchedaSegue ==
    ASSUME NEW p \in RepertoPublic, NEW priv, p.caso = priv.caso, NEW q,
           \/ Semplice(p, q)
           \/ \E tx \in TxIds, a \in FilePrivate : ConAtto(p, priv, q, tx, a)
    PROVE  Segue(p, q)
  <1>1. ASSUME NEW d, p.verbale = Nil, q = [p EXCEPT !.verbale = d]
        PROVE  Segue(p, q)
    BY <1>1 DEF Segue, RepertoPublic
  <1>2. ASSUME NEW x, NEW a, q = [p EXCEPT !.stato = x, !.custode = a]
        PROVE  Segue(p, q)
    BY <1>2 DEF Segue, RepertoPublic
  <1>3. ASSUME NEW tx \in TxIds, NEW x, NEW y,
               q = [p EXCEPT !.decreto = tx, !.caso = priv.caso, !.lab = x, !.stato = y]
        PROVE  Segue(p, q)
    BY <1>3, NilAssumption DEF Segue, RepertoPublic
  <1>4. ASSUME NEW tx, NEW x, q = [p EXCEPT !.relazione = tx, !.stato = x]
        PROVE  Segue(p, q)
    BY <1>4 DEF Segue, RepertoPublic
  <1>5. ASSUME NEW tx, NEW x, NEW y,
               q = [p EXCEPT !.riconsegna = tx, !.stato = x, !.custode = y]
        PROVE  Segue(p, q)
    BY <1>5 DEF Segue, RepertoPublic
  <1>6. ASSUME Semplice(p, q) PROVE Segue(p, q)
    <2>1. CASE \E d \in IdDocumenti : p.verbale = Nil /\ q = [p EXCEPT !.verbale = d]
      BY <1>1, <2>1
    <2>2. CASE \E x, a : q = [p EXCEPT !.stato = x, !.custode = a]
      BY <1>2, <2>2
    <2> QED  BY <1>6, <2>1, <2>2 DEF Semplice
  <1>7. ASSUME NEW tx \in TxIds, NEW a \in FilePrivate, ConAtto(p, priv, q, tx, a)
        PROVE  Segue(p, q)
    <2>1. CASE q = [p EXCEPT !.decreto = tx, !.caso = priv.caso, !.lab = a.ente,
                             !.stato = "ATTESA_TRASPORTO"]
      BY <1>3, <2>1
    <2>2. CASE q = [p EXCEPT !.relazione = tx, !.stato = "ATTESA_RITIRO"]
      BY <1>4, <2>2
    <2>3. CASE q = [p EXCEPT !.riconsegna = tx, !.stato = "SEQUESTRATO",
                             !.custode = priv.distretto]
      BY <1>5, <2>3
    <2> QED  BY <1>7, <2>1, <2>2, <2>3, Zenon DEF ConAtto
  <1> QED  BY <1>6, <1>7

\* No exhibit disappears, and every card follows the one it replaces.
LEMMA SchedeSeguono ==
    ASSUME Base, Cambiamento, NEW x \in Reperti, RepertoExists(stato, x)
    PROVE  RepertoExists(stato', x) /\ Segue(Scheda(stato, x), Scheda(stato', x))
  <1>1. RepertoExists(stato', x)
    BY RepertiRestano
  <1>2. /\ Scheda(stato, x) \in RepertoPublic
        /\ Scheda(stato, x).caso = Privato(stato, x).caso
    BY SchedaTipata DEF Base, SchedeInOrdine, CustodiaDi
  <1>3. ASSUME Scheda(stato', x) = Scheda(stato, x)
        PROVE  Segue(Scheda(stato, x), Scheda(stato', x))
    BY <1>3 DEF Segue
  <1>4. CASE Fermo
    BY <1>1, <1>3, <1>4 DEF Fermo, SchedeUguali
  <1>5. ASSUME NEW r \in Reperti, NEW priv \in RepertoPrivate, Nasce(r, priv)
        PROVE  Segue(Scheda(stato, x), Scheda(stato', x))
    BY <1>3, <1>5 DEF Nasce
  <1>6. ASSUME NEW r \in Reperti, NEW q \in RepertoPublic, Avanza(r, q)
        PROVE  Segue(Scheda(stato, x), Scheda(stato', x))
    BY <1>2, <1>3, <1>6, SchedaSegue DEF Avanza, CambiaScheda
  <1>7. ASSUME NEW r \in Reperti, NEW q \in RepertoPublic, NEW tx \in TxIds,
               NEW a \in FilePrivate, AvanzaConAtto(r, q, tx, a)
        PROVE  Segue(Scheda(stato, x), Scheda(stato', x))
    BY <1>2, <1>3, <1>7, SchedaSegue DEF AvanzaConAtto, CambiaScheda
  <1> QED  BY <1>1, <1>4, <1>5, <1>6, <1>7 DEF Cambiamento

\* CopiaPerLaboratorio, before and after a step, exhibit by exhibit.
LEMMA CopieDette ==
    /\ CopiaPerLaboratorio <=>
            \A r \in Reperti : RepertoExists(stato, r) /\ Scheda(stato, r).decreto # Nil
                => Copiato(stato, r)
    /\ CopiaPerLaboratorio' <=>
            \A r \in Reperti : RepertoExists(stato', r) /\ Scheda(stato', r).decreto # Nil
                => Copiato(stato', r)
  BY DEF CopiaPerLaboratorio, RepertiNoti, Copiato

\* What LAB has for an exhibit it keeps: nothing of it is replaced.
LEMMA CopiaResta ==
    ASSUME NEW s, NEW t, Conserva(s, t), NEW r \in Reperti,
           Scheda(s, r).verbale \in IdDocumenti, Privato(s, r) \in RepertoPrivate,
           Segue(Scheda(s, r), Scheda(t, r)), Copiato(s, r)
    PROVE  Copiato(t, r)
  <1> DEFINE c == Privato(s, r).caso
             d == Scheda(s, r).verbale
  <1>1. c \in Casi /\ d \in IdAtto /\ d \in Id /\ d # Nil /\ Privato(s, r) # Nil
    BY NilAssumption DEF RepertoPrivate, IdAtto, Id
  <1>2. Privato(t, r) = Privato(s, r) /\ Scheda(t, r).verbale = d
    BY <1>1, ChiaviDelFascicolo DEF Conserva, Segue, Privato
  <1>3. t[ChiavePrivatoPmLab(r)] = s[ChiavePrivatoPmLab(r)]
    BY <1>1, ChiaviDelFascicolo DEF Conserva, Copiato
  <1>4. \A pdc \in {"PG_PM", "PM_LAB"} :
            /\ ChiaveVerbale(s, r, pdc) = ChiaveFile(pdc, c, d)
            /\ ChiaveVerbale(t, r, pdc) = ChiaveFile(pdc, c, d)
    BY <1>2 DEF ChiaveVerbale
  <1> HIDE DEF c, d
  <1>5. /\ t[ChiaveFile("PM_LAB", c, d)] = s[ChiaveFile("PM_LAB", c, d)]
        /\ t[ChiaveFile("PG_PM", c, d)] = s[ChiaveFile("PG_PM", c, d)]
    BY <1>1, <1>4, ChiaviDelFascicolo DEF Conserva, Copiato
  <1> QED  BY <1>1, <1>2, <1>3, <1>4, <1>5 DEF Copiato

\* On the empty ledger there is nothing to be out of order.
LEMMA InizioFascicolo == Init => InvFascicolo
  <1> SUFFICES ASSUME Init PROVE InvFascicolo
    OBVIOUS
  <1>1. /\ \A r \in Reperti : /\ ~RepertoExists(stato, r) /\ Privato(stato, r) = Nil
                              /\ stato[ChiavePrivatoPmLab(r)] = Nil
        /\ \A r \in Reperti : /\ \A d \in IdAtto : stato[ChiaveDocRep(r, d)] = Nil
                              /\ \A e \in IdEvidenze : stato[ChiaveEviRep(r, e)] = Nil
    BY ValoriDelleChiavi DEF Init, RegistroVuoto, RepertoExists, Privato
  <1>2. \A c \in Casi : /\ \A d \in IdAtto : /\ stato[ChiaveDocumento(c, d)] = Nil
                                             /\ stato[ChiaveFile("PM_LAB", c, d)] = Nil
                                             /\ stato[ChiaveFile("PG_PM", c, d)] = Nil
                        /\ \A e \in IdEvidenze : /\ stato[ChiaveEvidenza(c, e)] = Nil
                                                 /\ stato[ChiaveFile("PG_PM", c, e)] = Nil
    BY ValoriDelleChiavi DEF Init, RegistroVuoto, Id, IdAtto
  <1>3. Fascicolo(stato)
    BY <1>1, <1>2 DEF Fascicolo, PrivatiInOrdine, FileInOrdine, DocumentoInOrdine,
                      EvidenzaInOrdine, IndiciInOrdine
  <1>4. CopiaPerLaboratorio /\ SoloRichiesti
    BY <1>1, <1>2 DEF CopiaPerLaboratorio, RepertiNoti, SoloRichiesti
  <1> QED  BY <1>3, <1>4 DEF InvFascicolo

\* Every step of the contract preserves it.
LEMMA PassoInvFascicolo ==
    ASSUME IdSeparati
    PROVE  Base /\ [Next]_vars /\ InvFascicolo => InvFascicolo'
  <1> SUFFICES ASSUME Base, [Next]_vars, InvFascicolo PROVE InvFascicolo'
    OBVIOUS
  <1>1. PassoFascicolo
    BY FascicoloPasso DEF InvFascicolo
  <1>2. Cambiamento
    BY PassoCambia
  <1>3. CopiaPerLaboratorio'
    <2>1. ASSUME NEW r \in Reperti, RepertoExists(stato, r), Scheda(stato, r).decreto # Nil
          PROVE  Copiato(stato', r)
      <3>1. Copiato(stato, r)
        BY <2>1, CopieDette DEF InvFascicolo
      <3>2. Scheda(stato, r).verbale \in IdDocumenti /\ Privato(stato, r) \in RepertoPrivate
        BY <2>1, <3>1, SchedaTipata DEF Base, SchedeInOrdine, PuntatoriDi, CustodiaDi, Copiato
      <3>3. Segue(Scheda(stato, r), Scheda(stato', r))
        BY <1>2, <2>1, SchedeSeguono
      <3> QED  BY <1>1, <3>1, <3>2, <3>3, CopiaResta DEF PassoFascicolo
    <2> QED  BY <1>1, <2>1, CopieDette DEF PassoFascicolo
  <1>4. SoloRichiesti'
    <2>1. ASSUME NEW c \in Casi, NEW d \in IdAtto, NEW r \in Reperti, Richiesto(stato, r, c, d)
          PROVE  Richiesto(stato', r, c, d)
      <3>1. RepertoExists(stato', r) /\ Segue(Scheda(stato, r), Scheda(stato', r))
        BY <1>2, <2>1, SchedeSeguono DEF Richiesto
      <3>2. Copiato(stato, r)
        BY <2>1, CopieDette DEF InvFascicolo, Richiesto
      <3> QED  BY <2>1, <3>1, <3>2 DEF Richiesto, Segue, Copiato
    <2> SUFFICES ASSUME NEW c \in Casi, NEW d \in IdAtto,
                        stato'[ChiaveFile("PM_LAB", c, d)] # Nil,
                        stato'[ChiaveFile("PM_LAB", c, d)].tipo \in TipiPg
        PROVE  \E r \in Reperti : Richiesto(stato', r, c, d)
      BY DEF SoloRichiesti, Richiesto
    <2>2. \/ stato'[ChiaveFile("PM_LAB", c, d)] = stato[ChiaveFile("PM_LAB", c, d)]
          \/ \E r \in Reperti : Richiesto(stato', r, c, d)
      BY <1>1 DEF PassoFascicolo
    <2> QED  BY <2>1, <2>2 DEF InvFascicolo, SoloRichiesti
  <1> QED  BY <1>1, <1>3, <1>4 DEF InvFascicolo, PassoFascicolo

\* The dossier is always in order.
LEMMA FascicoloSempre ==
    ASSUME IdSeparati
    PROVE  Spec => []InvFascicolo
  <1>1. Base /\ [Next]_vars /\ InvFascicolo => InvFascicolo'
    BY PassoInvFascicolo
  <1> QED  BY <1>1, InizioFascicolo, BaseSempre, PTL DEF Spec

-----------------------------------------------------------------------------
(* The theorems.                                                           *)

\* The laboratory always has what the decree sends it: the exhibit's private
\* data and the record its verbale pointer leads to.
THEOREM CopiaSempre ==
    ASSUME IdSeparati
    PROVE  Spec => []CopiaPerLaboratorio
  <1>1. InvFascicolo => CopiaPerLaboratorio
    BY DEF InvFascicolo
  <1> QED  BY <1>1, FascicoloSempre, PTL

\* Nothing in the dossier is ever replaced: no record of a registered file, no
\* private data of an exhibit, no verbale pointer.
THEOREM FascicoloSempreImmutabile ==
    ASSUME IdSeparati
    PROVE  Spec => FascicoloImmutabile
  <1> DEFINE Intatto ==
        /\ \A k \in ChiaviImmutabili : stato[k] # Nil => stato'[k] = stato[k]
        /\ \A r \in RepertiNoti :
            /\ RepertoExists(stato', r)
            /\ Scheda(stato, r).verbale # Nil
                    => Scheda(stato', r).verbale = Scheda(stato, r).verbale
  <1>1. Base /\ [Next]_vars /\ InvFascicolo => Intatto
    <2> SUFFICES ASSUME Base, [Next]_vars, InvFascicolo PROVE Intatto
      OBVIOUS
    <2>1. \A k \in ChiaviImmutabili : stato[k] # Nil => stato'[k] = stato[k]
      BY FascicoloPasso DEF InvFascicolo, PassoFascicolo, Conserva
    <2>2. Cambiamento
      BY PassoCambia
    <2>3. \A r \in RepertiNoti :
            RepertoExists(stato', r) /\ Segue(Scheda(stato, r), Scheda(stato', r))
      BY <2>2, SchedeSeguono DEF RepertiNoti
    <2> QED  BY <2>1, <2>3 DEF Segue
  <1> HIDE DEF Intatto
  <1>2. Spec => [][Intatto]_vars
    BY <1>1, FascicoloSempre, BaseSempre, PTL DEF Spec
  <1> QED  BY <1>2 DEF Intatto, FascicoloImmutabile

\* Every registered file can be opened with the key on the ledger.
THEOREM FascicoloSempreDecifrabile ==
    ASSUME IdSeparati
    PROVE  Spec => []FascicoloDecifrabile
  <1>1. Base /\ InvFascicolo => FascicoloDecifrabile
    <2> SUFFICES ASSUME Base, InvFascicolo, NEW c \in Casi
        PROVE  /\ \A d \in IdAtto : stato[ChiaveDocumento(c, d)] # Nil =>
                    LET priv == PrivatoDocumento(stato, c, d)
                    IN  /\ priv # Nil
                        /\ priv.caso = c /\ priv.tipo # Nil
                        /\ stato[ChiaveDocumento(c, d)] = [cid |-> priv.chiave]
               /\ \A e \in IdEvidenze : stato[ChiaveEvidenza(c, e)] # Nil =>
                    LET priv == stato[ChiaveFile("PG_PM", c, e)]
                    IN  /\ priv # Nil
                        /\ priv.caso = c
                        /\ stato[ChiaveEvidenza(c, e)] = [cid |-> priv.chiave]
      BY DEF FascicoloDecifrabile
    <2>1. /\ \A d \in IdAtto : DocumentoInOrdine(stato, c, d)
          /\ \A e \in IdEvidenze : EvidenzaInOrdine(stato, c, e)
      BY DEF InvFascicolo, Fascicolo, FileInOrdine
    <2>2. Nil \notin TipiDocumento /\ TipiPg \subseteq TipiDocumento
      BY NilAssumption DEF TipiDocumento
    <2>3. ASSUME NEW d \in IdAtto, stato[ChiaveDocumento(c, d)] # Nil
          PROVE  LET priv == PrivatoDocumento(stato, c, d)
                 IN  /\ priv # Nil
                     /\ priv.caso = c /\ priv.tipo # Nil
                     /\ stato[ChiaveDocumento(c, d)] = [cid |-> priv.chiave]
      BY <2>1, <2>2, <2>3 DEF DocumentoInOrdine, PrivatoDocumento
    <2> QED  BY <2>1, <2>3 DEF EvidenzaInOrdine
  <1> QED  BY <1>1, FascicoloSempre, BaseSempre, PTL

\* What a query makes of a public and a private part that belong together.
LEMMA UnitoBuono ==
    ASSUME NEW c, NEW pub, pub # Nil, NEW priv, priv # Nil => priv.caso = c
    PROVE  /\ Unito(pub, priv, c) = [cid |-> pub.cid, privato |-> priv]
           /\ Unito(pub, priv, c) # Errore
  <1>1. Unito(pub, priv, c) = [cid |-> pub.cid, privato |-> priv]
    BY DEF Unito
  <1>2. \A x, y : [cid |-> x, privato |-> y] # Errore
    <2>1. \A x, y : DOMAIN [cid |-> x, privato |-> y] = {"cid", "privato"}
      OBVIOUS
    <2>2. DOMAIN Errore = {"errore"}
      BY DEF Errore
    <2> QED  BY <2>1, <2>2
  <1> QED  BY <1>1, <1>2

\* No list of documents or evidence fails because of one of its entries,
\* whoever asks whichever peer.
THEOREM ElenchiSempreIntegri ==
    ASSUME IdSeparati
    PROVE  Spec => []ElenchiIntegri
  <1>1. ASSUME Base, InvFascicolo, NEW msp \in Msp, NEW peer \in Msp, NEW c \in Casi,
               NEW d \in IdAtto, stato[ChiaveDocumento(c, d)] # Nil
        PROVE  loadDocumentoMerged(stato, msp, peer, c, d) # Errore
    <2> DEFINE priv == tryLoadDocumentoPrivate(stato, msp, peer, c, d)
    <2>1. DocumentoInOrdine(stato, c, d)
      BY <1>1 DEF InvFascicolo, Fascicolo, FileInOrdine
    <2>2. priv # Nil => priv.caso = c
      BY <2>1 DEF DocumentoInOrdine, tryLoadDocumentoPrivate, Trova
    <2> HIDE DEF priv
    <2>3. Unito(stato[ChiaveDocumento(c, d)], priv, c) # Errore
      BY <1>1, <2>2, UnitoBuono
    <2> QED  BY <2>3 DEF priv, loadDocumentoMerged
  <1>2. ASSUME Base, InvFascicolo, NEW msp \in Msp, NEW peer \in Msp, NEW c \in Casi,
               NEW e \in IdEvidenze, stato[ChiaveEvidenza(c, e)] # Nil
        PROVE  loadEvidenzaMerged(stato, msp, peer, c, e) # Errore
    <2> DEFINE priv == loadEvidenzaPrivate(stato, msp, peer, c, e)
    <2>1. EvidenzaInOrdine(stato, c, e)
      BY <1>2 DEF InvFascicolo, Fascicolo, FileInOrdine
    <2>2. priv # Nil => priv.caso = c
      BY <2>1 DEF EvidenzaInOrdine, loadEvidenzaPrivate, Trova
    <2> HIDE DEF priv
    <2>3. Unito(stato[ChiaveEvidenza(c, e)], priv, c) # Errore
      BY <1>2, <2>2, UnitoBuono
    <2> QED  BY <2>3 DEF priv, loadEvidenzaMerged
  <1>3. ASSUME Base, InvFascicolo, NEW r \in Reperti
        PROVE  /\ \A d \in IdAtto : stato[ChiaveDocRep(r, d)] # Nil =>
                    /\ stato[ChiaveDocRep(r, d)].caso \in Casi
                    /\ stato[ChiaveDocumento(stato[ChiaveDocRep(r, d)].caso, d)] # Nil
               /\ \A e \in IdEvidenze : stato[ChiaveEviRep(r, e)] # Nil =>
                    /\ stato[ChiaveEviRep(r, e)].caso \in Casi
                    /\ stato[ChiaveEvidenza(stato[ChiaveEviRep(r, e)].caso, e)] # Nil
    <2>1. /\ \A d \in IdAtto : stato[ChiaveDocRep(r, d)] \in Marcatore \cup {Nil}
          /\ \A e \in IdEvidenze : stato[ChiaveEviRep(r, e)] \in Marcatore \cup {Nil}
      BY <1>3, ValoriDelleChiavi DEF Base, Tipato
    <2>2. \A m \in Marcatore : m.caso \in Casi
      BY DEF Marcatore
    <2> QED  BY <1>3, <2>1, <2>2 DEF InvFascicolo, Fascicolo, IndiciInOrdine
  <1>4. ASSUME Base, InvFascicolo, NEW msp \in Msp, NEW peer \in Msp
        PROVE  /\ \A c \in Casi :
                    Errore \notin ListaDocumentiCaso(stato, msp, peer, c)
                                    \cup ListaEvidenzeCaso(stato, msp, peer, c)
               /\ \A r \in Reperti :
                    Errore \notin ListaDocumentiReperto(stato, msp, peer, r)
                                    \cup ListaEvidenzeReperto(stato, msp, peer, r)
    <2>1. \A c \in Casi : Errore \notin ListaDocumentiCaso(stato, msp, peer, c)
      BY <1>1, <1>4 DEF ListaDocumentiCaso
    <2>2. \A c \in Casi : Errore \notin ListaEvidenzeCaso(stato, msp, peer, c)
      BY <1>2, <1>4 DEF ListaEvidenzeCaso
    <2>3. \A r \in Reperti : Errore \notin ListaDocumentiReperto(stato, msp, peer, r)
      BY <1>1, <1>3, <1>4 DEF ListaDocumentiReperto
    <2>4. \A r \in Reperti : Errore \notin ListaEvidenzeReperto(stato, msp, peer, r)
      BY <1>2, <1>3, <1>4 DEF ListaEvidenzeReperto
    <2> QED  BY <2>1, <2>2, <2>3, <2>4
  <1>5. Base /\ InvFascicolo => ElenchiIntegri
    BY <1>4 DEF ElenchiIntegri
  <1> QED  BY <1>5, FascicoloSempre, BaseSempre, PTL

\* The laboratory reads a document of PG only as the seizure report of an
\* exhibit it was asked to analyse.
THEOREM LaboratorioSempreDiscreto ==
    ASSUME IdSeparati
    PROVE  Spec => []LaboratorioDiscreto
  <1>1. ASSUME NEW c \in Casi, NEW d \in IdAtto, NEW peer \in Msp,
               LeggiDocumento(stato, "LABMSP", peer, c, d) # Errore
        PROVE  LET doc == LeggiDocumento(stato, "LABMSP", peer, c, d)
               IN  doc.privato = stato[ChiaveFile("PM_LAB", c, d)] /\ doc.privato # Nil
    <2> DEFINE doc == loadDocumentoMerged(stato, "LABMSP", peer, c, d)
               priv == tryLoadDocumentoPrivate(stato, "LABMSP", peer, c, d)
               pub == stato[ChiaveDocumento(c, d)]
    <2>1. /\ LeggiDocumento(stato, "LABMSP", peer, c, d) = doc
          /\ doc # Errore /\ doc.privato # Nil
      BY <1>1 DEF LeggiDocumento
    <2>2. doc = [cid |-> pub.cid, privato |-> priv]
      BY <2>1 DEF loadDocumentoMerged, Unito
    <2>3. priv \in {Nil, stato[ChiaveFile("PM_LAB", c, d)]}
      BY DEF tryLoadDocumentoPrivate, Trova, Membri
    <2> HIDE DEF doc, priv, pub
    <2>4. doc.privato = priv
      BY <2>2
    <2> QED  BY <2>1, <2>3, <2>4
  <1>2. InvFascicolo => LaboratorioDiscreto
    BY <1>1 DEF LaboratorioDiscreto, InvFascicolo, SoloRichiesti, Richiesto, RepertiNoti
  <1> QED  BY <1>2, FascicoloSempre, PTL

\* What a client of LAB reads through its peer of a document whose copy is in
\* collezione_PM_LAB.
LEMMA LabLegge ==
    ASSUME NEW s, NEW c \in Casi, NEW d,
           s[ChiaveFile("PM_LAB", c, d)] # Nil,
           s[ChiaveFile("PM_LAB", c, d)].caso = c,
           s[ChiaveFile("PM_LAB", c, d)].tipo # Nil,
           s[ChiaveDocumento(c, d)] = [cid |-> s[ChiaveFile("PM_LAB", c, d)].chiave],
           s[ChiaveDocumento(c, d)] # Nil
    PROVE  Apre(LeggiDocumento(s, "LABMSP", "LABMSP", c, d))
  <1> DEFINE pub == s[ChiaveDocumento(c, d)]
             pmlab == s[ChiaveFile("PM_LAB", c, d)]
             doc == [cid |-> pub.cid, privato |-> pmlab]
  <1>1. tryLoadDocumentoPrivate(s, "LABMSP", "LABMSP", c, d) = pmlab
    BY DEF tryLoadDocumentoPrivate, Trova, Membri
  <1>2. pub.cid = pmlab.chiave
    OBVIOUS
  <1>3. pub # Nil /\ pmlab # Nil /\ pmlab.caso = c /\ pmlab.tipo # Nil
    OBVIOUS
  <1>4. loadDocumentoMerged(s, "LABMSP", "LABMSP", c, d) = Unito(pub, pmlab, c)
    BY <1>1 DEF loadDocumentoMerged
  <1> HIDE DEF pub, pmlab
  <1>5. loadDocumentoMerged(s, "LABMSP", "LABMSP", c, d) = doc /\ doc # Errore
    BY <1>3, <1>4, UnitoBuono
  <1>6. doc.privato = pmlab /\ doc.cid = pmlab.chiave
    BY <1>2
  <1> HIDE DEF doc
  <1>7. LeggiDocumento(s, "LABMSP", "LABMSP", c, d) = doc
    BY <1>3, <1>5, <1>6 DEF LeggiDocumento
  <1> QED  BY <1>5, <1>6, <1>7 DEF Apre

\* The copies behind the queries of LAB: from the request of analysis on
\* collezione_PM_LAB has the private data of the exhibit, and the records of the
\* seizure report and of the decree with the keys of their files.
LEMMA LabRifornito ==
    ASSUME Base, InvFascicolo, Atti, NEW r \in Reperti, RepertoExists(stato, r),
           Scheda(stato, r).decreto # Nil
    PROVE  LET p == Scheda(stato, r)
               c == p.caso
           IN  /\ c \in Casi /\ p.verbale \in IdAtto /\ p.decreto \in IdAtto
               /\ stato[ChiavePrivatoPmLab(r)] = Privato(stato, r)
               /\ \A d \in {p.verbale, p.decreto} :
                    LET pmlab == stato[ChiaveFile("PM_LAB", c, d)]
                    IN  /\ pmlab # Nil /\ pmlab.caso = c /\ pmlab.tipo # Nil
                        /\ stato[ChiaveDocumento(c, d)] = [cid |-> pmlab.chiave]
                        /\ stato[ChiaveDocumento(c, d)] # Nil
  <1> DEFINE p == Scheda(stato, r)
             c == p.caso
  <1>1. /\ p \in RepertoPublic /\ CustodiaDi(p, Privato(stato, r)) /\ PuntatoriDi(p)
        /\ Copiato(stato, r)
    BY SchedaTipata, CopieDette DEF Base, SchedeInOrdine, InvFascicolo
  <1>2. /\ c \in Casi /\ c = Privato(stato, r).caso
        /\ p.verbale \in IdAtto /\ p.decreto \in IdAtto
    BY <1>1, SchedaTipata
       DEF Base, RepertoPublic, RepertoPrivate, CustodiaDi, PuntatoriDi, Copiato, IdAtto
  <1>3. stato[ChiavePrivatoPmLab(r)] = Privato(stato, r)
    BY <1>1 DEF Copiato
  <1>4. \A d \in IdAtto : DocumentoInOrdine(stato, c, d)
    BY <1>2 DEF InvFascicolo, Fascicolo, FileInOrdine
  <1>5. Nil \notin TipiDocumento /\ TipiPg \subseteq TipiDocumento
    BY NilAssumption DEF TipiDocumento
  <1>6. stato[ChiaveFile("PM_LAB", c, p.verbale)] # Nil
    BY <1>1, <1>2 DEF Copiato, ChiaveVerbale
  <1>7. AttoCompleto(c, r, p.decreto, "DECRETO_ACCERTAMENTO")
    BY DEF Atti, PuntatoriRisolti, RepertiNoti
  <1>8. stato[ChiaveFile("PM_LAB", c, p.decreto)] # Nil
    BY <1>7 DEF AttoCompleto, pdcCollectionForTipoDocumento, TipiPg
  <1>9. ASSUME NEW d \in IdAtto, stato[ChiaveFile("PM_LAB", c, d)] # Nil
        PROVE  LET pmlab == stato[ChiaveFile("PM_LAB", c, d)]
               IN  /\ pmlab # Nil /\ pmlab.caso = c /\ pmlab.tipo # Nil
                   /\ stato[ChiaveDocumento(c, d)] = [cid |-> pmlab.chiave]
                   /\ stato[ChiaveDocumento(c, d)] # Nil
    <2>1. LET pmlab == stato[ChiaveFile("PM_LAB", c, d)]
          IN  /\ pmlab.caso = c /\ pmlab.tipo # Nil
              /\ stato[ChiaveDocumento(c, d)] = [cid |-> pmlab.chiave]
      BY <1>4, <1>5, <1>9 DEF DocumentoInOrdine
    <2>2. stato[ChiaveDocumento(c, d)] # Nil
      BY <1>2, <1>9, SenzaPubblico DEF Base, InvFascicolo, Fascicolo
    <2> QED  BY <1>9, <2>1, <2>2
  <1> QED  BY <1>2, <1>3, <1>6, <1>8, <1>9

\* On the committed ledger, from the request of analysis on, the laboratory
\* reads through its own peer the card PG and PM read, the seizure report and
\* the decree.
THEOREM LaboratorioSempreInformato ==
    ASSUME IdSeparati
    PROVE  Spec => []LaboratorioInformato
  <1>1. ASSUME Base, InvFascicolo, Atti, NEW r \in Reperti, RepertoExists(stato, r),
               Scheda(stato, r).decreto # Nil
        PROVE  LET p == Scheda(stato, r)
                   Leggi(d) == LeggiDocumento(stato, "LABMSP", PeerWorkflow["LABMSP"],
                                              p.caso, d)
               IN  /\ \A msp \in Msp :
                        ReadReperto(stato, msp, PeerWorkflow[msp], r)
                            = ReadReperto(stato, "LABMSP", PeerWorkflow["LABMSP"], r)
                   /\ Apre(Leggi(p.verbale))
                   /\ Apre(Leggi(p.decreto))
    <2> DEFINE p == Scheda(stato, r)
               c == p.caso
    <2>1. /\ c \in Casi /\ p.verbale \in IdAtto /\ p.decreto \in IdAtto
          /\ stato[ChiavePrivatoPmLab(r)] = Privato(stato, r)
          /\ \A d \in {p.verbale, p.decreto} :
                LET pmlab == stato[ChiaveFile("PM_LAB", c, d)]
                IN  /\ pmlab # Nil /\ pmlab.caso = c /\ pmlab.tipo # Nil
                    /\ stato[ChiaveDocumento(c, d)] = [cid |-> pmlab.chiave]
                    /\ stato[ChiaveDocumento(c, d)] # Nil
      BY <1>1, LabRifornito
    <2>2. \A msp \in Msp : ReadReperto(stato, msp, PeerWorkflow[msp], r)
                            = ReadReperto(stato, "LABMSP", PeerWorkflow["LABMSP"], r)
      <3>1. /\ Trova(stato, "PM_LAB", ChiavePrivatoPmLab(r), "LABMSP", PeerWorkflow["LABMSP"])
                    = Privato(stato, r)
            /\ \A msp \in {"PGMSP", "PMMSP"} :
                  Trova(stato, "PG_PM", ChiavePrivatoReperto(r), msp, PeerWorkflow[msp])
                    = Privato(stato, r)
        BY <2>1 DEF Trova, Membri, PeerWorkflow, Privato
      <3> QED  BY <3>1 DEF ReadReperto, Msp
    <2>3. PeerWorkflow["LABMSP"] = "LABMSP"
      BY DEF PeerWorkflow
    <2>4. \A d \in {p.verbale, p.decreto} :
            Apre(LeggiDocumento(stato, "LABMSP", PeerWorkflow["LABMSP"], c, d))
      BY <2>1, <2>3, LabLegge
    <2> QED  BY <2>2, <2>4
  <1>2. Base /\ InvFascicolo /\ Atti => LaboratorioInformato
    BY <1>1 DEF LaboratorioInformato, RepertiNoti
  <1> QED  BY <1>2, FascicoloSempre, BaseSempre, AttiSempre, PTL
=============================================================================
