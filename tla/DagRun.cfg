SPECIFICATION RunSpec
CONSTANTS
    MaxVms = 4
    MaxPipePairs = 2
    MaxLength = 2
    ExitCode = {0, 1, 5, 6, 7, 43, 44, 46, 47, 48}
    NotTerminated = NotTerminated
    Addr = {"ok"}
    Program = {"elf"}
    MAX_INSTANTIATED_VMS = 2
    CycleMax = 100
    LoadCycles = 1
    MaxTrace = 1
    MaxSlice = 2
    Charges = {2}
    MaxPassed = 4
    Calls = {"spawn", "join", "pipe", "pipe_write", "pipe_read", "inline", "exit"}
    Limits = {0, 1, 3, 100}
    RunModes = {"LimitCycles"}
    Groups = 1
    MaxCycles = {50, 100}
    PerIterate = {1, 3}
    PerSuspend = {0, 9}
    GraphSpawns = 3
    GraphWrites = 2
    converging_threshold = 1
    DataLength = {2}
    Work = 2
    MAX_PIPE_COUNT = 4
    MAX_SPAWNED_VMS = 3
    U32Max = 3
    U64Max = 7
    Missing = Missing
INVARIANTS
    ResultIsTheGraphs
    NoGuestFails
