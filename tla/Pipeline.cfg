SPECIFICATION PipelineSpec
CONSTANTS
    FramesMax = 2
    OutputMax = 1
    WorkerMax = 2
    BackpressureMax = 1
    Patience = 1
    MaxBatches = 3
    MaxFaults = 1
    RabbitTries = 3
    RabbitCapacity = 1
    MaxRuns = 2
    QueueMax = 2
    WriterMax = 1
    BufferLength = 1
    Fps = 3
    Unit = 2
    SegmentMax = 2
    RetainMax = 2
    MaxFrame = 4

    
PROPERTIES
    InOrder
    
    
CHECK_DEADLOCK FALSE
