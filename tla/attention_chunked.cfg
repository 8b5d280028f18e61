SPECIFICATION AttentionSpec
CONSTANTS
    Calls <- Chunked
INVARIANTS
    AttendsAsDeclared
CHECK_DEADLOCK FALSE
