SPECIFICATION WireSpec
CONSTANTS
    Layouts <- MCLayouts
    BufferUnits = 32
INVARIANTS BitsOK MessagesOK
CHECK_DEADLOCK FALSE
