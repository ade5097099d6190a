------------------------- MODULE TrasferimentoProofs -------------------------
(***************************************************************************)
(* For a file of any number of blocks: the two ends of a transfer keep     *)
(* their invariants when they are put together, and what a good download   *)
(* leaves at its path is the file, also if another one writes there.       *)
(***************************************************************************)
EXTENDS Trasferimento, SequenceTheorems, TLAPS

-----------------------------------------------------------------------------
(* The download alone: one that ends well, of a body that ended by itself, *)
(* is the whole file.                                                      *)

\* How the two processes and the pipe between them stand to each other: the
\* write end is open as long as the goroutine runs, the read end until the
\* caller closes it.
PipeCoerente ==
    /\ copia = "ferma" => scrittura = "aperta" /\ copiati = 0
    /\ copia \in {"legge", "scrive"} <=> scrittura = "aperta" /\ copia # "ferma"
    /\ lettura = "aperta" <=> fase \in {"apre", "decifra", "chiude"}
                                \/ (fase = "finito" /\ copia = "ferma")
    /\ scrittura = "ClosedPipe" => lettura = "chiusa"
    /\ scrittura = "EOF" => copiati = Lunghezza
    /\ fase = "apre" => esito = "nessuno" /\ copia = "ferma"
    /\ fase = "decifra" => esito = "nessuno"

\* What the decryption has seen when it says ok: the pipe empty and its write
\* end closed, where a length was expected.
DecifraturaBuona ==
    esito = "ok" =>
        /\ fase \notin {"apre", "decifra"}
        /\ copia = "finita"
        /\ copiati = Letti
        /\ campo = "len"
        /\ scrittura \in {"EOF", "UnexpectedEOF"}

IInv == TypeOK /\ PipeCoerente /\ DecifraturaBuona

\* The places of the fields are numbers, and so are positions in the stream.
LEMMA Posizioni ==
    ASSUME NBlocchi \in Nat, TypeOK
    PROVE  /\ Posto[campo] \in Nat
           /\ campo = "len" => Posto[campo] = 2
           /\ campo = "cipher" => Posto[campo] = 4
           /\ campo \notin {"cipher"} => Posto[Prossimo[campo]] = Posto[campo] + 1
           /\ Letti \in Nat /\ Lunghezza \in Nat
  <1>1. campo \in Campi /\ scritti \in Nat /\ meta \in Nat
    BY DEF TypeOK, Unita
  <1>2. Posto[campo] \in Nat
    BY <1>1 DEF Posto, Campi
  <1> QED BY <1>1, <1>2 DEF Posto, Prossimo, Campi, Letti, Lunghezza, Unita

\* A good end of a body that ended by itself leaves no block unwritten.
LEMMA TuttiIBlocchi ==
    ASSUME NBlocchi \in Nat, IInv, esito = "ok", scrittura = "EOF"
    PROVE  scritti = NBlocchi
  <1>1. Unita * (2 + 3 * NBlocchi) = Unita * (2 + 3 * scritti) + meta
    BY Posizioni DEF IInv, PipeCoerente, DecifraturaBuona, Letti, Lunghezza
  <1>2. scritti \in Nat /\ meta \in 0..2 /\ scritti <= NBlocchi
    BY DEF IInv, TypeOK, Unita
  <1> QED BY <1>1, <1>2 DEF Unita

\* The download starts with nothing copied and nothing read.
LEMMA InizioBuono == ASSUME NBlocchi \in Nat, Init PROVE IInv
  <1>1. Letti = 0 /\ Lunghezza \in Nat
    BY DEF Init, Letti, Lunghezza, Posto, Unita
  <1> QED
    BY <1>1 DEF Init, IInv, TypeOK, PipeCoerente, DecifraturaBuona, Campi, Unita

\* The goroutine disturbs nothing the decryption has concluded.
LEMMA PassoCopia == ASSUME NBlocchi \in Nat, IInv, Copia PROVE IInv'
  <1> USE DEF IInv, TypeOK, PipeCoerente, DecifraturaBuona
  <1>1. Lunghezza \in Nat /\ Letti \in Nat /\ Lunghezza' = Lunghezza
    BY Posizioni DEF Lunghezza
  <1>2. CASE LeggiCorpo
    <2>1. Letti' = Letti
      BY <1>2 DEF LeggiCorpo, Letti
    <2> QED BY <1>1, <1>2, <2>1 DEF LeggiCorpo
  <1>3. ASSUME NEW e \in {"EOF", "UnexpectedEOF", "Timeout"}, FineCorpo(e)
        PROVE  IInv'
    <2>1. Letti' = Letti
      BY <1>3 DEF FineCorpo, Letti
    <2> QED BY <1>1, <1>3, <2>1 DEF FineCorpo
  <1>4. CASE ScritturaPresa
    <2>1. Letti' = Letti
      BY <1>4 DEF ScritturaPresa, Letti
    <2> QED BY <1>1, <1>4, <2>1 DEF ScritturaPresa
  <1>5. CASE ScritturaRotta
    <2>1. Letti' = Letti
      BY <1>5 DEF ScritturaRotta, Letti
    <2> QED BY <1>1, <1>5, <2>1 DEF ScritturaRotta
  <1> QED BY <1>2, <1>3, <1>4, <1>5 DEF Copia

\* The read of a block of ciphertext cannot be beyond the last block.
LEMMA BloccoDentro ==
    ASSUME NBlocchi \in Nat, TypeOK, campo = "cipher", CampoLetto
    PROVE  scritti + 1 <= NBlocchi
  <1>1. scritti \in Nat /\ meta \in 0..2 /\ copiati \in Int
    BY DEF TypeOK, Unita
  <1>2. Unita * (4 + 3 * scritti) + Unita <= Unita * (2 + 3 * NBlocchi)
    BY <1>1, Posizioni DEF TypeOK, CampoLetto, Letti, Lunghezza, Unita
  <1> QED BY <1>1, <1>2 DEF Unita

\* The decryption advances by a unit or by a field, and concludes only at the
\* end of the pipe.
LEMMA PassoChiamante == ASSUME NBlocchi \in Nat, IInv, Chiamante PROVE IInv'
  <1> USE DEF IInv, TypeOK, PipeCoerente, DecifraturaBuona
  <1>1. /\ Lunghezza \in Nat /\ Letti \in Nat /\ Lunghezza' = Lunghezza
        /\ Posto[campo] \in Nat /\ scritti \in Nat /\ meta \in Nat
        /\ copiati \in Nat
    BY Posizioni DEF Lunghezza, Unita
  <1>2. CASE Apri
    <2>1. Letti' = Letti
      BY <1>2 DEF Apri, Letti
    <2> QED BY <1>1, <1>2, <2>1 DEF Apri
  <1>3. CASE LeggiMeta
    <2>1. Letti' = Letti + 1
      BY <1>1, <1>3 DEF LeggiMeta, Letti, Unita
    <2> QED BY <1>1, <1>3, <2>1 DEF LeggiMeta, Unita
  <1>4. CASE LeggiCampo
    <2>1. Posto[campo'] = Posto[campo] + 1 /\ campo' \in Campi
      BY <1>4, Posizioni DEF LeggiCampo, Prossimo, Campi
    <2>2. Letti' = Letti + Unita - meta
      BY <1>1, <1>4, <2>1 DEF LeggiCampo, Letti, Unita
    <2> QED BY <1>1, <1>4, <2>1, <2>2 DEF LeggiCampo, CampoLetto, Unita
  <1>5. CASE ScriviBlocco
    <2>1. scritti' \in 0..NBlocchi
      BY <1>1, <1>5, BloccoDentro DEF ScriviBlocco
    <2>2. Posto[campo] = 4 /\ Posto[campo'] = 2 /\ campo' \in Campi
      BY <1>5 DEF ScriviBlocco, Posto, Campi
    <2>3. Letti' = Letti + Unita - meta
      BY <1>1, <1>5, <2>2 DEF ScriviBlocco, Letti, Unita
    <2> QED BY <1>1, <1>5, <2>1, <2>2, <2>3 DEF ScriviBlocco, CampoLetto, Unita
  <1>6. CASE BloccoRifiutato
    <2>1. Letti' = Letti + Unita - meta
      BY <1>1, <1>6 DEF BloccoRifiutato, Letti, Unita
    <2> QED BY <1>1, <1>6, <2>1 DEF BloccoRifiutato, CampoLetto, Decifrato, Unita
  <1>7. CASE FineFlusso
    <2>1. Letti' = Letti
      BY <1>7 DEF FineFlusso, Letti
    <2> QED BY <1>1, <1>7, <2>1 DEF FineFlusso, Decifrato, ErroreLettura
  <1>8. CASE ChiudiLettura
    <2>1. Letti' = Letti
      BY <1>8 DEF ChiudiLettura, Letti
    <2> QED BY <1>1, <1>8, <2>1 DEF ChiudiLettura
  <1>9. CASE Concludi
    <2>1. Letti' = Letti
      BY <1>9 DEF Concludi, Letti
    <2> QED BY <1>1, <1>9, <2>1 DEF Concludi
  <1> QED
    BY <1>2, <1>3, <1>4, <1>5, <1>6, <1>7, <1>8, <1>9 DEF Chiamante

\* A step that leaves every variable as it is.
LEMMA PassoFermo == ASSUME IInv, UNCHANGED vars PROVE IInv'
  BY DEF IInv, TypeOK, PipeCoerente, DecifraturaBuona, Letti, vars

\* The invariant of the download.
LEMMA SempreIInv == Spec => []IInv
  <1>1. Init => IInv
    BY InizioBuono, NBlocchiAssumption
  <1>2. IInv /\ [Next]_vars => IInv'
    BY PassoCopia, PassoChiamante, PassoFermo, NBlocchiAssumption DEF Next
  <1> QED BY <1>1, <1>2, PTL DEF Spec

\* Type correctness, and the decryption never ahead of the copy.
THEOREM ScaricoTipato == Spec => []TypeOK
  <1>1. IInv => TypeOK
    BY DEF IInv
  <1> QED BY <1>1, SempreIInv, PTL

\* A download reported as good, of a body that ended by itself, is the whole
\* file, whatever its length and however the reads of the pipe fall.
THEOREM ScaricoSempreBuono == Spec => []ScaricoBuono
  <1>1. IInv => ScaricoBuono
    BY TuttiIBlocchi, NBlocchiAssumption DEF IInv, DecifraturaBuona, ScaricoBuono
  <1> QED BY <1>1, SempreIInv, PTL

-----------------------------------------------------------------------------
(* The upload alone: IPFS gives a CID only to the whole file, and a good   *)
(* upload has its CID and its key.                                         *)

\* The outer pipe ends with EOF only after the last unit.
CifraturaIntera ==
    /\ esterna = "EOF" => cifrati = Carico!Lunghezza /\ risultato = "cifratura"
    /\ cifra = "scrive" => cifrati < Carico!Lunghezza
    /\ cifra # "finita" <=> esterna = "aperta"

\* At most one unit lies between the two pipes, none once the form is closed.
UnaPerVolta ==
    /\ modulo \in {"apre", "legge", "chiude"} => ricevuti = cifrati
    /\ modulo = "scrive" => cifrati = ricevuti + 1
    /\ modulo = "chiude" => esterna = "EOF"
    /\ chiusura => modulo = "finito" /\ esterna = "EOF" /\ ricevuti = cifrati

\* A CID stands for what IPFS had received when the form was closed.
CidRicevuto ==
    /\ cid # Carico!Nessuno => chiusura /\ cid = ricevuti
    /\ invio = "risposto" => cid # Carico!Nessuno
    /\ esitoCarico = "ok" => invio = "risposto" /\ risultato = "cifratura"

InvCarico == Carico!TypeOK /\ CifraturaIntera /\ UnaPerVolta /\ CidRicevuto

\* The upload starts with nothing encrypted, sent or answered.
LEMMA InizioCarico == ASSUME NBlocchi \in Nat, Carico!Init PROVE InvCarico
  <1>1. Carico!TypeOK
    <2>1. chiusura \in BOOLEAN
      BY DEF Carico!Init
    <2> QED BY <2>1 DEF Carico!Init, Carico!TypeOK, Carico!Lunghezza
  <1>2. CifraturaIntera /\ UnaPerVolta
    BY DEF Carico!Init, CifraturaIntera, UnaPerVolta
  <1>3. CidRicevuto
    BY DEF Carico!Init, CidRicevuto
  <1> QED BY <1>1, <1>2, <1>3 DEF InvCarico

\* The encryption closes its pipe with EOF only at the end of the file.
LEMMA PassoCifra == ASSUME NBlocchi \in Nat, InvCarico, Carico!GoCifra PROVE InvCarico'
  <1> USE DEF InvCarico, Carico!TypeOK, CifraturaIntera, UnaPerVolta, CidRicevuto,
              Carico!Lunghezza, Carico!Nessuno, Carico!Modulo, Carico!Ipfs
  <1>1. CASE Carico!CifraUnita
    BY <1>1 DEF Carico!CifraUnita
  <1>2. CASE Carico!CifraturaFallita
    BY <1>2 DEF Carico!CifraturaFallita
  <1>3. CASE Carico!CifraturaFinita
    BY <1>3 DEF Carico!CifraturaFinita
  <1> QED BY <1>1, <1>2, <1>3 DEF Carico!GoCifra

\* The form is closed only after an EOF of the encryption.
LEMMA PassoModulo == ASSUME NBlocchi \in Nat, InvCarico, Carico!GoModulo PROVE InvCarico'
  <1> USE DEF InvCarico, Carico!TypeOK, CifraturaIntera, UnaPerVolta, CidRicevuto,
              Carico!Lunghezza, Carico!Nessuno, Carico!Cifratura, Carico!Ipfs
  <1>1. CASE Carico!LeggiUnita
    BY <1>1 DEF Carico!LeggiUnita
  <1>2. CASE Carico!FineCopia
    BY <1>2 DEF Carico!FineCopia
  <1>3. CASE Carico!CopiaFallita
    BY <1>3 DEF Carico!CopiaFallita
  <1>4. CASE Carico!ScritturaRotta
    BY <1>4 DEF Carico!ScritturaRotta
  <1> QED BY <1>1, <1>2, <1>3, <1>4 DEF Carico!GoModulo

\* IPFS receives the units once, in order, and answers after the boundary.
LEMMA PassoRichiesta ==
    ASSUME NBlocchi \in Nat, InvCarico, Carico!Richiesta PROVE InvCarico'
  <1> USE DEF InvCarico, Carico!TypeOK, CifraturaIntera, UnaPerVolta, CidRicevuto,
              Carico!Lunghezza, Carico!Nessuno, Carico!Cifratura, Carico!Modulo, Carico!Ipfs
  <1>1. CASE Carico!Connetti
    BY <1>1 DEF Carico!Connetti
  <1>2. CASE Carico!RiceviTesta
    BY <1>2 DEF Carico!RiceviTesta
  <1>3. CASE Carico!RiceviUnita
    BY <1>3 DEF Carico!RiceviUnita
  <1>4. CASE Carico!RiceviChiusura
    BY <1>4 DEF Carico!RiceviChiusura
  <1>5. CASE Carico!Rispondi
    BY <1>5 DEF Carico!Rispondi
  <1>6. CASE Carico!InvioFallito
    BY <1>6 DEF Carico!InvioFallito
  <1> QED BY <1>1, <1>2, <1>3, <1>4, <1>5, <1>6 DEF Carico!Richiesta

\* The caller says ok only with a CID and a result.
LEMMA PassoCaricante == ASSUME NBlocchi \in Nat, InvCarico, Carico!Chiamante PROVE InvCarico'
  <1> USE DEF InvCarico, Carico!TypeOK, CifraturaIntera, UnaPerVolta, CidRicevuto,
              Carico!Lunghezza, Carico!Nessuno, Carico!Cifratura, Carico!Modulo, Carico!Ipfs
  <1>1. CASE Carico!ConcludiSenzaCid
    BY <1>1 DEF Carico!ConcludiSenzaCid
  <1>2. CASE Carico!Concludi
    BY <1>2 DEF Carico!Concludi
  <1> QED BY <1>1, <1>2 DEF Carico!Chiamante

\* A step that leaves every variable as it is.
LEMMA CaricoFermo == ASSUME InvCarico, UNCHANGED varsCarico PROVE InvCarico'
  BY DEF InvCarico, Carico!TypeOK, CifraturaIntera, UnaPerVolta, CidRicevuto, varsCarico

\* The invariant of the upload.
LEMMA SempreCarico == Carico!Spec => []InvCarico
  <1>1. Carico!Init => InvCarico
    BY InizioCarico, NBlocchiAssumption
  <1>2. InvCarico /\ [Carico!Next]_(Carico!vars) => InvCarico'
    BY PassoCifra, PassoModulo, PassoRichiesta, PassoCaricante, CaricoFermo,
       NBlocchiAssumption DEF Carico!Next, Carico!vars, varsCarico
  <1> QED BY <1>1, <1>2, PTL DEF Carico!Spec

\* A CID stands for the whole file, and a good end has it and the key.
LEMMA CaricoIntero ==
    ASSUME InvCarico
    PROVE  Carico!CidSoloSeIntero /\ Carico!CaricamentoBuono
  BY DEF InvCarico, CifraturaIntera, UnaPerVolta, CidRicevuto,
         Carico!CidSoloSeIntero, Carico!CaricamentoBuono

\* Type correctness; no process is ahead of the one that feeds it.
THEOREM CaricamentoTipato == Carico!Spec => []Carico!TypeOK
  <1>1. InvCarico => Carico!TypeOK
    BY DEF InvCarico
  <1> QED BY <1>1, SempreCarico, PTL

\* IPFS never gives a CID to a part of the file.
THEOREM CidSempreIntero == Carico!Spec => []Carico!CidSoloSeIntero
  <1>1. InvCarico => Carico!CidSoloSeIntero
    BY CaricoIntero
  <1> QED BY <1>1, SempreCarico, PTL

\* A good upload has the CID of the whole file and the key that opens it.
THEOREM CaricamentoSempreBuono == Carico!Spec => []Carico!CaricamentoBuono
  <1>1. InvCarico => Carico!CaricamentoBuono
    BY CaricoIntero
  <1> QED BY <1>1, SempreCarico, PTL

-----------------------------------------------------------------------------
(* Both ends.                                                              *)

\* The invariants of the two ends.
DueCapi == IInv /\ InvCarico

\* The transfer starts with both ends at their beginning.
LEMMA InizioDueCapi == ASSUME InitTutto PROVE DueCapi
  <1>1. IInv
    BY InizioBuono, NBlocchiAssumption DEF InitTutto
  <1>2. InvCarico
    BY InizioCarico, NBlocchiAssumption DEF InitTutto
  <1> QED BY <1>1, <1>2 DEF DueCapi

\* A step of the upload keeps the upload's invariant.
LEMMA CaricoConserva == ASSUME InvCarico, Carico!Next PROVE InvCarico'
  BY PassoCifra, PassoModulo, PassoRichiesta, PassoCaricante, NBlocchiAssumption
     DEF Carico!Next

\* No step of the whole disturbs either end.
LEMMA PassoDueCapi == ASSUME DueCapi, [NextTutto]_varsTutte PROVE DueCapi'
  <1> USE DEF DueCapi
  <1>1. CASE PassoCarico
    BY <1>1, CaricoConserva, PassoFermo DEF PassoCarico
  <1>2. CASE ApriFile
    BY <1>2, CaricoFermo, PassoFermo DEF ApriFile
  <1>3. CASE PassoScarico(Copia)
    BY <1>3, CaricoFermo, PassoCopia, NBlocchiAssumption DEF PassoScarico
  <1>4. CASE PassoScarico(Chiamante)
    BY <1>4, CaricoFermo, PassoChiamante, NBlocchiAssumption DEF PassoScarico
  <1>5. CASE AltraApre
    BY <1>5, CaricoFermo, PassoFermo DEF AltraApre
  <1>6. CASE AltraScrive
    BY <1>6, CaricoFermo, PassoFermo DEF AltraScrive
  <1>7. CASE AltraFinisce
    BY <1>7, CaricoFermo, PassoFermo DEF AltraFinisce
  <1>8. CASE UNCHANGED varsTutte
    BY <1>8, CaricoFermo, PassoFermo DEF varsTutte
  <1> QED BY <1>1, <1>2, <1>3, <1>4, <1>5, <1>6, <1>7, <1>8 DEF NextTutto

\* Both ends keep their invariants.
LEMMA SempreDueCapi == SpecTutto => []DueCapi
  <1>1. InitTutto => DueCapi
    BY InizioDueCapi
  <1>2. DueCapi /\ [NextTutto]_varsTutte => DueCapi'
    BY PassoDueCapi
  <1> QED BY <1>1, <1>2, PTL DEF SpecTutto

-----------------------------------------------------------------------------
(* The properties of the two ends.                                         *)

\* The download of any file keeps its types next to everything else.
THEOREM ScaricoSempreTipato == SpecTutto => []TypeOK
  <1>1. DueCapi => TypeOK
    BY DEF DueCapi, IInv
  <1> QED BY <1>1, SempreDueCapi, PTL

\* A good download of a body that ended by itself is the whole file.
THEOREM RitornoSempreBuono == SpecTutto => []ScaricoBuono
  <1>1. DueCapi => ScaricoBuono
    BY TuttiIBlocchi, NBlocchiAssumption
    DEF DueCapi, IInv, DecifraturaBuona, ScaricoBuono
  <1> QED BY <1>1, SempreDueCapi, PTL

\* No CID ever stands for a part of a file, of any length.
THEOREM CidInteroSempre == SpecTutto => []CidSoloSeIntero
  <1>1. DueCapi => CidSoloSeIntero
    BY CaricoIntero DEF DueCapi, CidSoloSeIntero
  <1> QED BY <1>1, SempreDueCapi, PTL

\* A good upload has the CID and the key of the whole file.
THEOREM AndataSempreBuona == SpecTutto => []CaricamentoBuono
  <1>1. DueCapi => CaricamentoBuono
    BY CaricoIntero DEF DueCapi, CaricamentoBuono
  <1> QED BY <1>1, SempreDueCapi, PTL

-----------------------------------------------------------------------------
(* The file on disk.  Nobody says which of the two downloads emptied it    *)
(* last, but the one that did has all its blocks there.                    *)

\* The first n blocks are at their place in file f.
Fino(f, n) == n <= Len(f) /\ \A i \in 1..n : f[i] = i

PercorsoTipato ==
    /\ percorso \in Seq(Int)
    /\ Len(percorso) <= NBlocchi + 1
    /\ \A i \in 1..Len(percorso) : percorso[i] \in {Buco, Residuo, i}
    /\ altra \in {"mai", "scrive", "ok", "errore"}
    /\ altraScritti \in 0..NBlocchi
    /\ altra = "mai" => altraScritti = 0
    /\ altra = "ok" => altraScritti = NBlocchi

PercorsoBuono ==
    /\ ~aperto => fase = "apre" /\ scritti = 0
    /\ aperto => /\ Len(percorso) <= NBlocchi
                 /\ \/ Fino(percorso, scritti)
                    \/ altra # "mai" /\ Fino(percorso, altraScritti)

InvTutto == DueCapi /\ PercorsoTipato /\ PercorsoBuono

\* What a write does to the file.
LEMMA ScrittoAlPosto ==
    ASSUME NEW f \in Seq(Int), NEW i \in Nat \ {0}
    PROVE  LET g == Scritto(f, i)
           IN  /\ g \in Seq(Int)
               /\ Len(g) = IF i > Len(f) THEN i ELSE Len(f)
               /\ \A j \in 1..Len(g) :
                    g[j] = IF j = i THEN i ELSE IF j <= Len(f) THEN f[j] ELSE Buco
  <1> DEFINE n == IF i > Len(f) THEN i ELSE Len(f)
             g == Scritto(f, i)
  <1>1. /\ Len(f) \in Nat /\ n \in Nat /\ n >= 1
        /\ \A j \in 1..Len(f) : f[j] \in Int
    BY LenProperties
  <1>2. g \in [1..n -> Int]
    BY <1>1 DEF Scritto, Buco
  <1>3. g \in Seq(Int) /\ Len(g) = n
    <2> HIDE DEF g, n
    <2>1. g \in Seq(Int)
      BY <1>1, <1>2, SeqDef
    <2>2. DOMAIN g = 1..Len(g) /\ Len(g) \in Nat
      BY <2>1, LenProperties
    <2>3. DOMAIN g = 1..n
      BY <1>2
    <2>4. n \in 1..Len(g)
      BY <1>1, <2>2, <2>3
    <2>5. Len(g) \in 1..n
      BY <2>2, <2>3, <2>4
    <2>6. Len(g) = n
      <3>1. n \in Nat /\ Len(g) \in Nat
        BY <1>1, <2>2
      <3>2. n <= Len(g) /\ Len(g) <= n
        BY <3>1, <2>4, <2>5
      <3> QED BY <3>1, <3>2
    <2> QED BY <2>1, <2>6
  <1> QED BY <1>1, <1>3 DEF Scritto

\* The first block a writer has not written is one more for it, and none less
\* for the other.
LEMMA FinoAvanti ==
    ASSUME NEW f \in Seq(Int), NEW n \in Nat, NEW m \in Nat
    PROVE  /\ Fino(f, n) => Fino(Scritto(f, n + 1), n + 1)
           /\ Fino(f, m) => Fino(Scritto(f, n + 1), m)
  <1> DEFINE g == Scritto(f, n + 1)
  <1>1. Len(f) \in Nat
    BY LenProperties
  <1>2. /\ Len(g) = IF n + 1 > Len(f) THEN n + 1 ELSE Len(f)
        /\ \A j \in 1..Len(g) :
              g[j] = IF j = n + 1 THEN n + 1 ELSE IF j <= Len(f) THEN f[j] ELSE Buco
    BY ScrittoAlPosto
  <1> HIDE DEF g
  <1>3. /\ Fino(f, n) => Fino(g, n + 1)
        /\ Fino(f, m) => Fino(g, m)
    BY <1>1, <1>2 DEF Fino
  <1> QED BY <1>3 DEF g

\* Writing a block of the file at its place leaves a well-typed file.
LEMMA TipatoAvanti ==
    ASSUME PercorsoTipato, NEW n \in 0..(NBlocchi - 1),
           percorso' = Scritto(percorso, n + 1)
    PROVE  /\ percorso' \in Seq(Int)
           /\ Len(percorso') <= NBlocchi + 1
           /\ Len(percorso) <= NBlocchi => Len(percorso') <= NBlocchi
           /\ \A i \in 1..Len(percorso') : percorso'[i] \in {Buco, Residuo, i}
  <1>1. percorso \in Seq(Int) /\ Len(percorso) \in Nat /\ NBlocchi \in Nat
    BY LenProperties, NBlocchiAssumption DEF PercorsoTipato
  <1>2. /\ percorso' \in Seq(Int)
        /\ Len(percorso') = IF n + 1 > Len(percorso) THEN n + 1 ELSE Len(percorso)
        /\ \A j \in 1..Len(percorso') :
              percorso'[j] = IF j = n + 1 THEN n + 1
                             ELSE IF j <= Len(percorso) THEN percorso[j] ELSE Buco
    BY <1>1, ScrittoAlPosto
  <1> QED BY <1>1, <1>2 DEF PercorsoTipato

\* The empty file is well typed, and has no block to miss.
LEMMA Vuoto ==
    ASSUME percorso' = <<>>
    PROVE  /\ percorso' \in Seq(Int) /\ Len(percorso') = 0
           /\ Fino(percorso', 0)
  BY DEF Fino

\* One step of the download writes at most one block, the next.
LEMMA UnBlocco ==
    ASSUME IInv, Copia \/ Chiamante
    PROVE  /\ scritti \in Nat
           /\ scritti' = scritti \/ scritti' = scritti + 1
           /\ scritti' <= NBlocchi
  <1>1. scritti \in Nat
    BY DEF IInv, TypeOK
  <1>2. IInv'
    BY PassoCopia, PassoChiamante, NBlocchiAssumption
  <1>3. scritti' <= NBlocchi
    BY <1>2, NBlocchiAssumption DEF IInv, TypeOK
  <1>4. CASE Copia
    BY <1>1, <1>3, <1>4 DEF Copia, LeggiCorpo, FineCorpo, ScritturaPresa,
                            ScritturaRotta
  <1>5. CASE Chiamante
    BY <1>1, <1>3, <1>5 DEF Chiamante, Apri, LeggiMeta, LeggiCampo, ScriviBlocco,
          BloccoRifiutato, Decifrato, CampoLetto, FineFlusso, ChiudiLettura,
          Concludi
  <1> QED BY <1>4, <1>5

\* Whoever writes, and in whatever order, one of the downloads has all its
\* blocks in the file.
LEMMA PassoPercorso ==
    ASSUME InvTutto, [NextTutto]_varsTutte
    PROVE  PercorsoTipato' /\ PercorsoBuono'
  <1> USE DEF PercorsoTipato, PercorsoBuono
  <1>1. IInv /\ PercorsoTipato /\ PercorsoBuono /\ NBlocchi \in Nat
        /\ scritti \in Nat
    BY NBlocchiAssumption DEF InvTutto, DueCapi, IInv, TypeOK
  <1>2. CASE PassoCarico \/ UNCHANGED varsTutte
    BY <1>1, <1>2 DEF PassoCarico, varsTutte, varsAltra, vars, Fino
  <1>3. CASE ApriFile
    BY <1>1, <1>3, Vuoto DEF ApriFile, varsAltra, vars
  <1>4. CASE PassoScarico(Copia) \/ PassoScarico(Chiamante)
    <2>1. /\ aperto /\ aperto' /\ UNCHANGED varsAltra
          /\ scritti' = scritti \/ scritti' = scritti + 1
          /\ scritti' <= NBlocchi
          /\ percorso' = IF scritti' > scritti THEN Scritto(percorso, scritti')
                         ELSE percorso
      BY <1>1, <1>4, UnBlocco DEF PassoScarico
    <2>2. CASE scritti' = scritti
      BY <1>1, <2>1, <2>2 DEF Fino, varsAltra
    <2>3. CASE scritti' = scritti + 1
      <3>1. scritti \in 0..(NBlocchi - 1) /\ percorso' = Scritto(percorso, scritti + 1)
        BY <1>1, <2>1, <2>3
      <3>2. PercorsoTipato' /\ Len(percorso') <= NBlocchi
        BY <1>1, <2>1, <3>1, TipatoAvanti DEF varsAltra
      <3>3. /\ Fino(percorso, scritti) => Fino(percorso', scritti + 1)
            /\ Fino(percorso, altraScritti) => Fino(percorso', altraScritti)
        <4>1. percorso \in Seq(Int) /\ altraScritti \in Nat
          BY <1>1
        <4>2. /\ Fino(percorso, scritti)
                    => Fino(Scritto(percorso, scritti + 1), scritti + 1)
              /\ Fino(percorso, altraScritti)
                    => Fino(Scritto(percorso, scritti + 1), altraScritti)
          BY <1>1, <4>1, FinoAvanti
        <4> QED BY <3>1, <4>2
      <3> QED BY <1>1, <2>1, <2>3, <3>2, <3>3 DEF varsAltra
    <2> QED BY <2>1, <2>2, <2>3
  <1>5. CASE AltraApre
    BY <1>1, <1>5, Vuoto DEF AltraApre, vars, Fino
  <1>6. CASE AltraScrive
    <2>1. /\ altraScritti \in 0..(NBlocchi - 1)
          /\ altraScritti' = altraScritti + 1
          /\ percorso' = Scritto(percorso, altraScritti + 1)
          /\ UNCHANGED <<vars, aperto, altra>> /\ altra = "scrive"
      BY <1>1, <1>6 DEF AltraScrive
    <2>2. PercorsoTipato' /\ (Len(percorso) <= NBlocchi => Len(percorso') <= NBlocchi)
      BY <1>1, <2>1, TipatoAvanti
    <2>3. /\ Fino(percorso, altraScritti) => Fino(percorso', altraScritti + 1)
          /\ Fino(percorso, scritti) => Fino(percorso', scritti)
      <3>1. percorso \in Seq(Int) /\ altraScritti \in Nat
        BY <1>1
      <3>2. /\ Fino(percorso, altraScritti)
                  => Fino(Scritto(percorso, altraScritti + 1), altraScritti + 1)
            /\ Fino(percorso, scritti)
                  => Fino(Scritto(percorso, altraScritti + 1), scritti)
        BY <1>1, <3>1, FinoAvanti
      <3> QED BY <2>1, <3>2
    <2> QED BY <1>1, <2>1, <2>2, <2>3 DEF vars
  <1>7. CASE AltraFinisce
    BY <1>1, <1>7 DEF AltraFinisce, vars, Fino
  <1> QED BY <1>2, <1>3, <1>4, <1>5, <1>6, <1>7 DEF NextTutto

\* The path is empty or has an older, longer file.
LEMMA InizioPercorso == ASSUME InitTutto PROVE PercorsoTipato /\ PercorsoBuono
  <1>1. /\ ~aperto /\ fase = "apre" /\ scritti = 0
        /\ altra = "mai" /\ altraScritti = 0 /\ NBlocchi \in Nat
        /\ percorso \in {<<>>, [i \in 1..(NBlocchi + 1) |-> Residuo]}
    BY NBlocchiAssumption DEF InitTutto, Init
  <1>2. CASE percorso = <<>>
    BY <1>1, <1>2 DEF PercorsoTipato, PercorsoBuono
  <1>3. CASE percorso = [i \in 1..(NBlocchi + 1) |-> Residuo]
    <2>1. percorso \in [1..(NBlocchi + 1) -> Int] /\ NBlocchi + 1 \in Nat
      BY <1>1, <1>3 DEF Residuo
    <2>2. percorso \in Seq(Int) /\ Len(percorso) = NBlocchi + 1
      BY <2>1, SeqDef, LenProperties
    <2> QED BY <1>1, <1>3, <2>2 DEF PercorsoTipato, PercorsoBuono
  <1> QED BY <1>1, <1>2, <1>3

\* The invariant of the whole transfer.
LEMMA SempreInvTutto == SpecTutto => []InvTutto
  <1>1. InitTutto => InvTutto
    BY InizioDueCapi, InizioPercorso DEF InvTutto
  <1>2. InvTutto /\ [NextTutto]_varsTutte => InvTutto'
    BY PassoDueCapi, PassoPercorso DEF InvTutto
  <1> QED BY <1>1, <1>2, PTL DEF SpecTutto

\* The upload is typed, and the file at the path is at most the longer of the
\* two that were ever there.
THEOREM TrasferimentoSempreTipato == SpecTutto => []TrasferimentoTipato
  <1>1. ASSUME InvTutto PROVE TrasferimentoTipato
    <2>1. Carico!TypeOK
      BY <1>1 DEF InvTutto, DueCapi, InvCarico
    <2>2. Len(percorso) \in Nat /\ DOMAIN percorso = 1..Len(percorso)
      BY <1>1, LenProperties DEF InvTutto, PercorsoTipato
    <2> QED BY <1>1, <2>1, <2>2, NBlocchiAssumption
        DEF InvTutto, PercorsoTipato, TrasferimentoTipato
  <1>2. InvTutto => TrasferimentoTipato
    BY <1>1
  <1> QED BY <1>2, SempreInvTutto, PTL

\* After a good download the path holds the file and nothing else, however
\* many blocks it has and whenever the other download emptied it.
THEOREM RipristinoSempreIntero == SpecTutto => []RipristinoIntero
  <1>1. ASSUME InvTutto, fase = "finito", esito = "ok", scrittura = "EOF",
               altra \in {"mai", "ok"}
        PROVE  percorso = Intero
    <2>1. scritti = NBlocchi
      BY <1>1, TuttiIBlocchi, NBlocchiAssumption DEF InvTutto, DueCapi
    <2>2. aperto
      BY <1>1 DEF InvTutto, PercorsoBuono
    <2>3. Fino(percorso, NBlocchi) /\ Len(percorso) <= NBlocchi
      BY <1>1, <2>1, <2>2 DEF InvTutto, PercorsoBuono, PercorsoTipato
    <2>4. /\ Len(percorso) \in Nat
          /\ percorso = [i \in 1..Len(percorso) |-> percorso[i]]
      BY <1>1, LenProperties DEF InvTutto, PercorsoTipato
    <2>5. Len(percorso) = NBlocchi
      BY <2>3, <2>4, NBlocchiAssumption DEF Fino
    <2> QED BY <2>3, <2>4, <2>5 DEF Fino, Intero
  <1>2. InvTutto => RipristinoIntero
    BY <1>1 DEF RipristinoIntero
  <1> QED BY <1>2, SempreInvTutto, PTL
=============================================================================
