SPECIFICATION Spec
CONSTANTS
    Zero = Zero
    Junk = Junk
    Char = {a, b}
    BufSize = 3
    MaxOff = 4
    MaxXfer = 3
    CanRead = TRUE
    CanWrite = TRUE
    Faults = {"write"}
    SeekPast = FALSE
    Fset = {}
INVARIANTS FlushCanPlace
PROPERTIES IsFlatFile ShortReadMeansEOF ErrorLeavesBufferClean
