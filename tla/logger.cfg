SPECIFICATION FairSpec
CONSTANTS
    None = None
    Loggers <- TwoLoggers
    Records <- SomeRecords
    BufferSize = 2
    MaxRecords <- RecordsOfEach
    Workers = 2
    Lapses = {"http", "channel", "file"}
INVARIANTS
    TypeOK
    DeliveredInOrder
    OnlyTheFileLoses
    FirstIsFlushed
PROPERTIES
    BuffersAreDrained
    TerminationEnds
CHECK_DEADLOCK FALSE
