CONSTANTS
    RingCapacity = 2
    QueueCapacity = 3
    Sizes = {1, 2}
    MaxRecords = 4
    MaxRefusals = 2
SPECIFICATION FairSpec
CHECK_DEADLOCK FALSE
INVARIANTS Accounted SinkFaithful SettledMeansDelivered
PROPERTIES QuietWhileFrozen WriterServes
