SPECIFICATION Spec
CONSTANTS
    Images <- Pictures565
    Payloads <- Says3
    MaxCodes = 3
    MaxScans = 1
    NULL = NULL
INVARIANT GrayExact
\* A run ends with its last scan.
CHECK_DEADLOCK FALSE
