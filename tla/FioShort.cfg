SPECIFICATION Spec
CONSTANTS
    Zero = Zero
    Junk = Junk
    Char = {a}
    BufSize = 2
    MaxOff = 4
    MaxXfer = 3
    CanRead = TRUE
    CanWrite = TRUE
    Faults = {"short"}
    SeekPast = FALSE
    Fset = {}
PROPERTIES IsFlatFile
