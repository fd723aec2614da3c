SPECIFICATION Spec
CONSTANTS
    MinimumSegmentSize = 2
    MaximumSegmentPoolSize = 1
    PauseWriterThreshold = 3
    ResumeWriterThreshold = 3
    Hints = {1, 3}
    MaxBytes = 4
    MaxUnflushed = 2
    MaxSegments = 5
INVARIANTS
    TypeOK
    SegmentsKept
    ReadsTheStream
    BytesCounted
    BackPressure
PROPERTIES
    ImplementsStream
