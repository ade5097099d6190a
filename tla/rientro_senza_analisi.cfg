\* An exhibit back in its seat that never reached the laboratory.
SPECIFICATION Spec
CONSTANTS
    Reperti = {r1}
    Casi = {c1}
    IdDocumenti = {d1}
    IdEvidenze = {}
    TxIds = {t1, t2}
    Distretti = {q1}
    Agenti = {a1}
    Laboratori = {l1}
    File = {f1}
    Nil = Nil
INVARIANT RiconsegnaDopoRelazione
CHECK_DEADLOCK FALSE
