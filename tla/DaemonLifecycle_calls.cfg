SPECIFICATION FairSpec
CONSTANTS
    Calls = {c1, c2}
    Daemons = {d1, d2}
    None = None
    MaxRestarts = 1
INVARIANTS
    TypeOK
    AtMostOneDaemon
    CurrentGenerationIsCurrentDaemon
    ReplacesTheCulprit
    LinkGoneRetryIsSound
PROPERTIES
    EveryCallIsAnswered
