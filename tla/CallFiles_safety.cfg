SPECIFICATION Spec
CONSTANTS
    Calls = {c1, c2, c3}
    Browsers = {b1, b2}
    Names = {n1}
    Own = Own
    None = None
    Kinds = {"write", "start", "stop"}
SYMMETRY Symmetry
INVARIANTS
    TypeOK
    HoldersAreCounted
    AnswersNameTheirOwnBrowsersFile
    
    
PROPERTIES
    LeaseSpec
