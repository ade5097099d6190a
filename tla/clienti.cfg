\* Two operators with two calls between them on one exhibit.
SPECIFICATION SpecClienti
CONSTANTS
    Reperti = {r1}
    Casi = {c1}
    IdDocumenti = {d1}
    IdEvidenze = {e1}
    TxIds = {t1, t2}
    Distretti = {q1}
    Agenti = {a1}
    Laboratori = {l1}
    File = {f1, f2, f3, f4, f5, f6}
    FileCaricati = {f5, f6}
    Nil = Nil
    Canali = {k1, k2}
    Pratiche = {p1, p2}
    Lavori <- LavoriMC
SYMMETRY Simmetria
INVARIANTS
    EsitoVeritiero
    RifiutoDefinitivo
PROPERTY RitentativoInnocuo
CHECK_DEADLOCK FALSE
