SPECIFICATION FairSpec
CONSTANTS
    MinimumSegmentSize = 2
    MaximumSegmentPoolSize = 0
    PauseWriterThreshold = 2
    ResumeWriterThreshold = 1
    Hints = {1}
    MaxBytes = 4
    MaxUnflushed = 1
    MaxSegments = 4
INVARIANTS
    WriterResumable
    ReaderWoken
PROPERTIES
    PipeCompletes
