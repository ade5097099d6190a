\* A document and an evidence with the same id in one case.
SPECIFICATION Spec
CONSTANTS
    Reperti = {r1}
    Casi = {c1}
    IdDocumenti = {d1}
    IdEvidenze = {d1}
    TxIds = {t1}
    Distretti = {q1}
    Agenti = {a1}
    Laboratori = {l1}
    File = {f1, f2}
    Nil = Nil
INVARIANT FascicoloDecifrabile
CHECK_DEADLOCK FALSE
