SPECIFICATION FairVerifySpec
CONSTANTS
    MaxVms = 3
    MaxPipePairs = 1
    MaxLength = 1
    ExitCode = {0, 1}
    NotTerminated = NotTerminated
    Addr = {"ok"}
    Program = {"elf"}
    MAX_INSTANTIATED_VMS = 2
    CycleMax = 10
    LoadCycles = 1
    MaxTrace = 2
    MaxSlice = 2
    Charges = {0, 2}
    MaxPassed = 1
    Calls = {"spawn", "join", "pipe", "pipe_write", "pipe_read", "inline", "exit"}
    Limits = {0, 1, 2, 3, 6}
    RunModes = {"LimitCycles"}
    Groups = 2
    MaxCycles = {4, 5}
    PerIterate = {2, 6}
    PerSuspend = {0, 3}
INVARIANTS
    OvershootBounded
    SuspendedOften
    OkAccountsForAll
    FinishedRunReturns
    FailedIsDropped
PROPERTIES
    RunReturns
    VerifyReturns
