CONSTANT NBlocchi = 2
SPECIFICATION Spec
INVARIANT ErroreDiCopiaRiportato
CHECK_DEADLOCK FALSE
