SPECIFICATION Spec
CONSTANTS
    Dirs <- MCDirs
    Stamps = {1, 2}
    Ids = {1, 2, 3, 4}
    MaxObjects = 2
    Scenarios <- MCScenarios
    None = None
INVARIANTS SessionsSound 
PROPERTIES  ComesToRest
CHECK_DEADLOCK FALSE
