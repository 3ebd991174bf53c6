SPECIFICATION Spec
CONSTANTS
    Images <- Pictures
    Payloads <- Says3
    MaxCodes = 3
    MaxScans = 2
    NULL = NULL
INVARIANTS ImageReturned MessageWhole GrayExact
\* A run ends with its last scan.
CHECK_DEADLOCK FALSE
