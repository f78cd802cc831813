SPECIFICATION Spec
CONSTANTS
    Calls = {c1, c2, c3}
    Sessions = {s1, s2}
    Targets = {t1, t2}
    MaxRestarts = 1
SYMMETRY Symmetry
INVARIANTS
    TypeOK
    NothingBehindAnAbandonedCall
    NotesBarAllButOne
