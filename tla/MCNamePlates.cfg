CONSTANTS
    Plates = {p1, p2}
    NoPlate = NoPlate
    Units = {u1, u2}
    NoUnit = NoUnit
    Modes = {0, 2}
SPECIFICATION Spec
SYMMETRY Symmetry
INVARIANTS
    TypeOK
    ListsWhatWasTold
    RemovedStillResolves
    AddedResolves
    StacksAsAsked
PROPERTIES
    EventsAlternate
