\* A decree and a report that cmd/download, which asks the peer of PG, does not get.
SPECIFICATION Spec
CONSTANTS
    Reperti = {r1}
    Casi = {c1}
    IdDocumenti = {d1}
    IdEvidenze = {}
    TxIds = {t1}
    Distretti = {q1}
    Agenti = {a1}
    Laboratori = {l1}
    File = {f1}
    Nil = Nil
INVARIANT ScaricabileDaiDestinatari
CHECK_DEADLOCK FALSE
