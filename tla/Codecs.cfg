SPECIFICATION CodecsSpec
CONSTANTS
    Byte = {0, 1, 253, 254, 255}
    MaxBytes = 4
    NUMBER_SIZE = 2
    Base = 100
    IndexSize = 1
    MaxEdits = 2
INVARIANTS
    ArgvRoundTrip
    ShortBufferIsPrefix
    BuiltReadsBack
    VerifiedIsReadable
    StrictIsCanonical
