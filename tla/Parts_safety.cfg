SPECIFICATION Spec
CONSTANTS
    p1 = p1
    p2 = p2
    p3 = p3
    x1 = x1
    x2 = x2
    x3 = x3
    None = None
    Pages = {x1, x2}
    Runners = {"tool", "dialog"}
    Tool = "tool"
    MaxId = 3
    ContextPages = {x1, x2}
    CallerNames = {p1, p2}
    Default = p3
    MaxContexts = 3
    Workers = {x1, x2}
    CapturedPages = {p1, p2, p3}
    Boxes <- BoxesDef
    Bounds <- BoundsDef
    Unbounded = 999
    ByteSize = 4
    Channels = 1
    Width = 2
    Height = 2
    Filters = {0, 1, 3, 4, 5}
    SnapshotPages = {p1}
    Trees <- TreesDef
    Parents <- ParentsDef
    MaxSnapshots = 3
    SnapshotDocuments = 2
    Issues = {"k1", "k2", "k3"}
    Kind <- KindDef
    MaxNavigations = 3
    MaxResources = 3
    MaxDocuments = 4
    MaxRequests = 5
    MaxMessages = 5
    MaxEvents = 5
    MaxBuffer = 2
    Files = {x1, x2}
    Classes = {"k1", "k2"}
    MaxVersion = 2
    MaxLoads = 3
    AnswerCalls = {x1, x2, x3}
    Beside = x3
    AnswerPages = {p1, p2}
    AnswerTools = {"pages", "dialog"}
    Kinds = {"a", "b", "i"}
    Type <- TypeDef
    ListedIssues = {"i"}
    PageSizes = {1, 2}
    MaxLogged = 3
    Targets = {p1, p2}
    Main = p1
    Scripts = {1, 2}
    Errors = {1, 2}
    Traces <- TracesDef
    Chains <- ChainsDef
    MaxLinks = 2
    Work <- WorkDef
    Delays = {0, 20000}
    Handovers = {0, 5000}
    Calls = {x1, x2}
    Retention = 2
    CallLasts = 1
    MaxTime = 3
SYMMETRY Symmetry
CHECK_DEADLOCK FALSE
INVARIANTS
    TypeOK
    
    WhatIsToldIsCollected
    EventsAreDelivered
    BrowserIsLeftAsAsked
    SnapshotIdsResolve
    AnswersAreWhole
    
    BudgetsNest
    FilesAreToldOrSwept
PROPERTIES
    UidsAreKept
