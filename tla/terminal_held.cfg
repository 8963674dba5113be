SPECIFICATION Spec
CONSTANTS
    Capacity = 2
    FrameMax = 1
    ReadChunk = 2
    LaneCapacity = 1
    QueueCapacity = 1
    WireCapacity = 1
    MaxBytes <- MCMaxBytes
    MaxConnects = 2
    MaxInputs = 1
PROPERTIES
    ShutdownUnblocks
CHECK_DEADLOCK FALSE
