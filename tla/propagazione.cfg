\* Two cases, documents and evidence with ids of their own; one private value
\* at a time is on its way to a peer.
SPECIFICATION SpecPropagazione
CONSTANTS
    Reperti = {r1}
    Casi = {c1, c2}
    IdDocumenti = {d1}
    IdEvidenze = {e1}
    TxIds = {t1, t2}
    Distretti = {q1}
    Agenti = {a1}
    Laboratori = {l1}
    File = {f1, f2}
    Nil = Nil
    MaxRitardi = 1
SYMMETRY Simmetria
INVARIANTS
    ElenchiIntegri
    LaboratorioDiscreto
    FascicoloDecifrabile
    InstradamentoSufficiente
    LaboratorioServito
    LettureVere
PROPERTY FascicoloImmutabile
CHECK_DEADLOCK FALSE
