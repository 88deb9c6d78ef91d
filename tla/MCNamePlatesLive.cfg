CONSTANTS
    Plates = {p1}
    NoPlate = NoPlate
    Units = {u1, u2}
    NoUnit = NoUnit
    Modes = {0}
SPECIFICATION Spec
PROPERTIES
    ShownIsAnnounced
