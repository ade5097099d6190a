\* Two calls in flight on one exhibit, with the histories they leave: while one
\* waits, any number of others can be committed through the other slot.
SPECIFICATION SpecStoria
CONSTANTS
    Reperti = {r1}
    Casi = {c1}
    IdDocumenti = {d1, d2}
    IdEvidenze = {e1}
    TxIds = {t1, t2, t3}
    Distretti = {q1}
    Agenti = {a1, a2}
    Laboratori = {l1, l2}
    File = {f1}
    Nil = Nil
    Canali = {k1, k2}
SYMMETRY Simmetria
INVARIANTS
    TypeOK
    StoriaUnica
    StoriaContinua
    StoriaCompleta
PROPERTY Serializzabile
CHECK_DEADLOCK FALSE
