CONSTANTS
    Models = {1, 2}
    Opaque = 2
    Alphas = {0, 1}
    MaxAttached = 2
    Plates = {1, 2, 3}
    Friends = {1, 2}
    None = 0
    MouseModes = {2, 6, 8}
    Full = 8
    NonTarget = 50
    Occlusions <- MCOcclusions
    Speeds = {1, 25}
    Polygons <- MCPolygons
    Bends <- MCBends
    CommandLines <- MCCommandLines
    Rosters <- MCRosters
    Nothing = "none"
    Codepoints = {1, 2, 3, 4, 5, 6}
    Width <- MCWidth
    Height <- MCHeight
    Unloadable = {6}
    Bytes <- MCBytes
    Lines = {"a", "b"}
    Texts <- MCTexts
    ATLAS_SIZE = 5
    ATLAS_GUTTER = 1
    MAX_ATLAS_PAGES = 2
    Half = 2
    MaxEvictions = 4
SPECIFICATION Spec
INVARIANTS
    TypeOK CurrentIsRight AcceptedIsSimple LaunchAsMeant
PROPERTIES
    OutOfTheWayRestored FocusSticks FadesToTarget
