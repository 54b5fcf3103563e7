SPECIFICATION FairPathSpec
CONSTANTS
  Bytes <- MCBytes
  Window = 1
INVARIANTS EndMeansAll
PROPERTIES EndIsDelivered TasksEnd
CHECK_DEADLOCK FALSE
