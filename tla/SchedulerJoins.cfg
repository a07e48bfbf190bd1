SPECIFICATION Spec
CONSTANTS
    MaxVms = 5
    MaxPipePairs = 0
    MaxLength = 0
    ExitCode = {0, 1}
    NotTerminated = NotTerminated
    Addr = {"ok"}
    Program = {"elf"}
    MAX_INSTANTIATED_VMS = 2
    CycleMax = 11
    LoadCycles = 0
    MaxTrace = 1
    MaxSlice = 1
    Charges = {0}
    MaxPassed = 0
    Calls = {"spawn", "join", "exit"}
    Limits = {1}
    RunModes = {"LimitCycles"}
INVARIANTS
    Residency
    JoinTargetLive
    JoinReturnsExitCode
