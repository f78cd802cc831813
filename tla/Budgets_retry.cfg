SPECIFICATION Spec
CONSTANTS
    Work <- WorkDef
    Delays = {0, 20000}
    Handovers = {0, 5000}
CHECK_DEADLOCK FALSE
INVARIANTS
    CallerOutlastsTheFront
