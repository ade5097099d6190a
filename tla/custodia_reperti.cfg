\* Two exhibits, of the same or of different cases and districts.
SPECIFICATION Spec
CONSTANTS
    Reperti = {r1, r2}
    Casi = {c1, c2}
    IdDocumenti = {d1, d2}
    IdEvidenze = {}
    TxIds = {t1, t2, t3}
    Distretti = {q1, q2}
    Agenti = {a1}
    Laboratori = {l1}
    File = {f1}
    Nil = Nil
SYMMETRY SimmetriaReperti
INVARIANTS
    CustodiaCoerente
    PuntatoriRisolti
    CopiaPerLaboratorio
PROPERTY ImplementaCiclo
CHECK_DEADLOCK FALSE
