SPECIFICATION Spec
CONSTANTS
    MaxVms = 3
    MaxPipePairs = 1
    MaxLength = 1
    ExitCode = {0}
    NotTerminated = NotTerminated
    Addr = {"ok", "bad_buffer", "bad_result"}
    Program = {"elf", "garbage"}
    MAX_INSTANTIATED_VMS = 2
    CycleMax = 8
    LoadCycles = 1
    MaxTrace = 2
    MaxSlice = 2
    Charges = {0, 2}
    MaxPassed = 1
    Calls = {"spawn", "join", "pipe", "pipe_write", "pipe_read", "inline", "exit", "fault"}
    Limits = {0, 1, 3}
    RunModes = {"LimitCycles", "Pause"}
INVARIANTS
    TypeOK
    MessageBoxDrained
    NoByteLost
    LimitRespected
    UnchargedRunsNext
PROPERTIES
    PreemptedRunsNext
