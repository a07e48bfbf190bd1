SPECIFICATION Spec
CONSTANTS
    MaxVms = 3
    MaxPipePairs = 1
    MaxLength = 2
    ExitCode = {0}
    NotTerminated = NotTerminated
    Addr = {"ok"}
    Program = {"elf"}
    MAX_INSTANTIATED_VMS = 2
    CycleMax = 11
    LoadCycles = 0
    MaxTrace = 1
    MaxSlice = 1
    Charges = {0}
    MaxPassed = 1
    Calls = {"spawn", "join", "pipe", "pipe_write", "pipe_read", "exit"}
    Limits = {4}
    RunModes = {"LimitCycles"}
INVARIANTS
    ExceededMeansSpent
