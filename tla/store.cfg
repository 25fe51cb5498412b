SPECIFICATION Spec
CONSTANTS
    Client = {c1, c2, c3}
    Overlap = FALSE
INVARIANTS
    SchemaBacksMarker
    OpenedIsCurrent
    StaysMigratable
    OneRunPerKey
PROPERTIES
    MarkerMovesForward
    NoRunLost
