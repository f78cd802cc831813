SPECIFICATION FairSpec
CONSTANTS
    Calls = {c1, c2, c3}
    None = None
    MaxDrops = 0
PROPERTIES
    EveryPlaceIsCleared
