\* One exhibit through up to two complete cycles.
SPECIFICATION Spec
CONSTANTS
    Reperti = {r1}
    Casi = {c1}
    IdDocumenti = {d1, d2}
    IdEvidenze = {e1}
    TxIds = {t1, t2, t3, t4, t5, t6}
    Distretti = {q1}
    Agenti = {a1, a2}
    Laboratori = {l1, l2}
    File = {f1}
    Nil = Nil
SYMMETRY Simmetria
INVARIANTS
    TypeOK
    BilancioRiconsegne
    RelazioneConMandato
    PercorsoAperto
    LaboratorioInformato
PROPERTY ImplementaCiclo
CHECK_DEADLOCK FALSE
