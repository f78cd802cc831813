SPECIFICATION Spec
CONSTANTS
    Calls = {c1, c2}
    Daemons = {d1, d2}
    None = None
    MaxRestarts = 0
INVARIANTS
    RetriedNeverBegan
