SPECIFICATION Spec
CONSTANTS
    MaxVms = 5
    MaxPipePairs = 1
    MaxLength = 1
    ExitCode = {0}
    NotTerminated = NotTerminated
    Addr = {"ok"}
    Program = {"elf"}
    MAX_INSTANTIATED_VMS = 4
    CycleMax = 11
    LoadCycles = 0
    MaxTrace = 1
    MaxSlice = 1
    Charges = {0}
    MaxPassed = 1
    Calls = {"spawn", "join", "pipe", "pipe_read", "exit"}
    Limits = {1}
    RunModes = {"LimitCycles"}
INVARIANTS
    ClosedWaiterReturns
