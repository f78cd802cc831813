SPECIFICATION Spec
CONSTANTS
    Calls = {c1, c2, c3}
    Browsers = {b1}
    Names = {n1}
    Own = Own
    None = None
    Kinds = {"start", "stop"}
INVARIANTS
    CrossedRecordingIsPlanned
