SPECIFICATION Spec
CONSTANTS
    Calls = {c1, c2, c3}
    None = None
    MaxDrops = 1
SYMMETRY Symmetry
INVARIANTS
    TypeOK
    OneToolAtATime
    PaceIsItsOwn
    GapIsHeld
    BuildsAlone
    ContextIsTheBrowsers
PROPERTIES
    GateSpec
