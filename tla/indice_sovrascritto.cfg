\* The same document id in two cases, both linked to one exhibit.
SPECIFICATION Spec
CONSTANTS
    Reperti = {r1}
    Casi = {c1, c2}
    IdDocumenti = {d1}
    IdEvidenze = {}
    TxIds = {t1}
    Distretti = {q1}
    Agenti = {a1}
    Laboratori = {l1}
    File = {f1}
    Nil = Nil
INVARIANT IndiceCompleto
CHECK_DEADLOCK FALSE
