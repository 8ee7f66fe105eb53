CONSTANTS
    BlockValues <- MC_BlockValues
    Garbage <- MC_Garbage
    TextInputs <- MC_TextInputs
SPECIFICATION Spec
INVARIANT NtoaRoundTrip
CHECK_DEADLOCK FALSE
