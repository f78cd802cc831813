SPECIFICATION FairSpec
CONSTANTS
    Calls = {c1, c2}
    Browsers = {b1, b2}
    Names = {n1}
    Own = Own
    None = None
    Kinds = {"write", "pair", "start", "stop"}
PROPERTIES
    EveryNameIsGivenBack
