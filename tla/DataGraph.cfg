SPECIFICATION FairGraphSpec
CONSTANTS
    GraphSpawns = 3
    GraphWrites = 3
    converging_threshold = 2
    DataLength = {1}
INVARIANTS
    LowestAncestor
    PipesReachTheirUsers
    SpawnedOnce
PROPERTIES
    GraphGenerated
