SPECIFICATION FairParserSpec
CONSTANTS
    Datagrams <- MCDatagrams
    Headers <- MCHeaders
    MaxRecSize = 4096
    MaxRecords = 3
    MaxWords = 10
INVARIANTS
    RecordsInside
    ParsesWhatWasSent
    UsersNamedAlike
PROPERTIES
    Terminates
CHECK_DEADLOCK FALSE
