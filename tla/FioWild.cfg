SPECIFICATION Spec
CONSTANTS
    Zero = Zero
    Junk = Junk
    Char = {a}
    BufSize = 2
    MaxOff = 5
    MaxXfer = 3
    CanRead = FALSE
    CanWrite = TRUE
    Faults = {"write", "short"}
    SeekPast = TRUE
    Fset = {"cancel"}
INVARIANTS TypeOK SizeCoversDisk
