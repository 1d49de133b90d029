CONSTANTS
    Requests <- MCAllRequests
    Malformed <- MCBad
SPECIFICATION PiecesSpec
INVARIANTS CutsDoNotMatter MeantIsSeen MalformedIsRefused
CHECK_DEADLOCK FALSE
