CONSTANTS
    Things <- MCThings
    MaxHighlights = 2
    SapiTokens <- MCSapiTokens
    VoiceNumbers <- MCVoiceNumbers
    MaxRefs = 3
    Targets = {1, 2}
    NoTarget = 0
    Spots <- MCSpots
    Range20 = 2
    MaxLoads = 2
    LayoutPlates = {1, 2, 3}
    Rank <- MCRank
    Heights = {0, 1}
    PlateHeight = 2
    MaxRaise = 5
    Ceiling = 5
    Floor = 1
    ClampedPlates = {3}
    PairPlates = {1, 2}
    Span = 2
    Cools = {0, 1}
    Drops = {1, 7}
    Names = 2
    Place <- MCPlace
    Faces = {"f", "g"}
    FontFiles <- MCFontFiles
    MaxAttached = 2
    MaxLibraries = 2
    Pointers = {"f", "g"}
    Surfaces = {"f"}
SPECIFICATION Spec
INVARIANTS
    TypeOK LitAsAsked CachedTokensHeld ClicksAsAsked StacksApart MemoryIsTheirs
    AllOrNothing HandlesStayHome NothingAliveAtReset
