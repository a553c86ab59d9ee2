SPECIFICATION PbSpec
CONSTANTS
    Zero = Zero
    Junk = Junk
    Char = {a, b}
    BufSize = 2
    MaxOff = 3
    MaxXfer = 2
    CanRead = TRUE
    CanWrite = FALSE
    Faults = {"read"}
    SeekPast = FALSE
    Fset = {}
    PbSize = 4
    FrameSize = 1
    PushUnread = FALSE
INVARIANTS PbTypeOK
PROPERTIES IsPushbackFile
