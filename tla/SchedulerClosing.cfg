SPECIFICATION Spec
CONSTANTS
    MaxVms = 4
    MaxPipePairs = 2
    MaxLength = 1
    ExitCode = {0}
    NotTerminated = NotTerminated
    Addr = {"ok"}
    Program = {"elf"}
    MAX_INSTANTIATED_VMS = 4
    CycleMax = 8
    LoadCycles = 0
    MaxTrace = 1
    MaxSlice = 1
    Charges = {0}
    MaxPassed = 2
    Calls = {"spawn", "pipe", "pipe_write", "pipe_read", "exit"}
    Limits = {1}
    RunModes = {"LimitCycles"}
INVARIANTS
    IoPassComplete
