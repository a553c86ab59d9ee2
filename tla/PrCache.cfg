CONSTANTS
    Exe = {e1, e2}
    MaxPid = 3
    MaxSub = 2
    Sizes = {2}
    ResizeBusy = FALSE
    MaxDepth = 3
    MaxPno = 2
    MaxLost = 1
SPECIFICATION Spec
INVARIANTS TypeOK  
   
CHECK_DEADLOCK FALSE
SYMMETRY Symmetry
