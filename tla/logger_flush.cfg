SPECIFICATION Spec
CONSTANTS
    None = None
    Loggers <- TwoLoggers
    Records <- SomeRecords
    BufferSize = 2
    MaxRecords <- RecordsOfEach
    Workers = 2
    Lapses = {}
INVARIANTS
    AllLogsAreSent
CHECK_DEADLOCK FALSE
