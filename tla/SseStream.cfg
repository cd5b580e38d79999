SPECIFICATION Spec
CONSTANTS
    Chunks <- AllChunks
    Tools = {"t1", "t2"}
    MaxEvents = 4
    MaxHold = 2
INVARIANTS BlocksWellFormed   ThinkingSplit
