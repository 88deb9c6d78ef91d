CONSTANTS
    Plates = {p1}
    NoPlate = NoPlate
    Units = {u1, u2}
    NoUnit = NoUnit
    Modes = {0, 2}
SPECIFICATION Spec
INVARIANTS
    StacksOnlyItsSide
