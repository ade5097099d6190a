CONSTANT NBlocchi = 4
SPECIFICATION SpecTutto
INVARIANTS
    TypeOK
    TrasferimentoTipato
    CidSoloSeIntero
    CaricamentoBuono
    ScaricoBuono
    RipristinoIntero
PROPERTY TerminanoEntrambe
CHECK_DEADLOCK FALSE
