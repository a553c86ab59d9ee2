---------------------------- MODULE FioPushback ----------------------------
(***************************************************************************)
(* Input pushed back on a descriptor of FioBuffer: UNGETC, UNGETLINE and   *)
(* UNREAD, FILBUF's return to the interrupted input, and FCANPB.           *)
(*                                                                         *)
(* The pushback buffer holds the data, which grows upward, and a stack of  *)
(* frames, which grows downward: each push saves iop, itop and bufptr and  *)
(* points them at its data.  Here iop and itop stay those of the file      *)
(* buffer, saved or live, and stack holds the pointers of the blocks that  *)
(* are pushed back; FF_PUSHBACK is set while it is not empty.              *)
(*                                                                         *)
(* Not modelled: writing while data is pushed back (the pointers compared  *)
(* belong to different buffers), and what follows an overflow in UNGETC or *)
(* UNGETLINE, which have moved the pointers by then.                       *)
(***************************************************************************)
EXTENDS FioBuffer

CONSTANTS
    PbSize,      \* FPBBUFSIZE, in chars
    FrameSize,   \* four integers, in chars
    PushUnread   \* programs also push back after a seek and before a read

ASSUME PbAssumption == /\ PbSize \in Nat /\ FrameSize \in Nat \ {0}
                       /\ PushUnread \in BOOLEAN

VARIABLES
    haspb,       \* FPBBUF # NULL
    below,       \* its address is below the file buffer's
    pbmem,       \* its cells
    stack        \* per block pushed back its iop and itop, the live one last

pbvars == <<haspb, below, pbmem, stack>>
allvars == <<vars, pbvars>>

PbIndex == 0 .. PbSize - 1
Depth == Len(stack)
Live  == stack[Depth]
PbIop == IF stack = <<>> THEN 0 ELSE Live.itop            \* FPBIOP
Sp(n) == PbSize - n * FrameSize                           \* FPBSP, n frames
Room  == Sp(Depth + 1) - PbIop

(***************************************************************************)
(* FMKPBBUF, the first time: the file buffer comes first (FMKBFS), then    *)
(* the pushback buffer, wherever the heap puts it.                         *)
(***************************************************************************)
MkPbBuf ==
    /\ haspb' = TRUE
    /\ IF haspb THEN UNCHANGED below ELSE below' \in BOOLEAN
    /\ IF hasbuf THEN UNCHANGED <<hasbuf, boffset, iop, itop, otop, mem>>
       ELSE /\ hasbuf' = TRUE /\ boffset' = 0 /\ iop' = LNote
            /\ itop' = 0 /\ otop' = 0 /\ mem' = [i \in Index |-> Junk]

Pushed(data) ==
    /\ pbmem' = [i \in PbIndex |-> IF i - PbIop \in 0 .. Len(data) - 1
                                   THEN data[i - PbIop + 1] ELSE pbmem[i]]
    /\ stack' = Append(stack, [iop |-> PbIop, itop |-> PbIop + Len(data)])
    /\ result' = OK
    /\ UNCHANGED failed

CanPush == Idle /\ (PushUnread \/ iop >= 0)

(***************************************************************************)
(* UNGETC wants a cell to spare, UNGETLINE fills the room there is and     *)
(* leaves an empty string alone.                                           *)
(***************************************************************************)
UngetC(ch) ==
    /\ CanPush /\ Room > 1
    /\ MkPbBuf /\ Pushed(<<ch>>)
    /\ UNCHANGED <<disk, open, filsize, call>>

UngetLine(str) ==
    /\ CanPush /\ Len(str) \in 1 .. Room
    /\ MkPbBuf /\ Pushed(str)
    /\ UNCHANGED <<disk, open, filsize, call>>

(***************************************************************************)
(* UNREAD tests the room after it has written the frame, which by then     *)
(* may have run into the data.                                             *)
(***************************************************************************)
Clobbered == {i \in PbIndex : i >= Sp(Depth + 1) /\ i < PbIop}
FitsAlways(n) == n <= PbSize - PbIop            \* mutant: the frames not counted
Fits(n) == n <= Room

Unread(data) ==
    /\ CanPush /\ MkPbBuf
    /\ IF Fits(Len(data)) THEN Pushed(data)
       ELSE /\ pbmem' = [i \in PbIndex |-> IF i \in Clobbered THEN Junk ELSE pbmem[i]]
            /\ result' = FAILED
            /\ failed' = (failed \/ Clobbered # {})
            /\ UNCHANGED stack
    /\ UNCHANGED <<disk, open, filsize, call>>
-----------------------------------------------------------------------------
(***************************************************************************)
(* GETC and READ while data is pushed back.                                *)
(***************************************************************************)
Taken(k) == call' = IF call.n + k = call.lim THEN NoCall ELSE [call EXCEPT !.n = @ + k]

CopyBlock ==
    /\ Reading /\ stack # <<>> /\ Live.iop < Live.itop
    /\ LET k == Min2(call.lim - call.n, Live.itop - Live.iop)
       IN  /\ result' = Outcome("ok", [i \in 1 .. k |-> pbmem[Live.iop + i - 1]])
           /\ stack' = [stack EXCEPT ![Depth].iop = @ + k]
           /\ Taken(k)
    /\ UNCHANGED <<disk, open, fdvars, failed, haspb, below, pbmem>>

(***************************************************************************)
(* FILBUF pops the frames of what has been read, down to a block that has  *)
(* data left or to the file buffer.  READ then takes a top that is below   *)
(* buftop for the end of file, whichever buffer it is a top of.            *)
(***************************************************************************)
Used == Reading /\ stack # <<>> /\ Live.iop >= Live.itop
Unused == {d \in 1 .. Depth : stack[d].iop < stack[d].itop}
Resume == CHOOSE d \in Unused : \A e \in Unused : e <= d

Settled(nchars, ends) ==
    IF call.op = "read" /\ ends THEN Min2(call.max, call.n + nchars) ELSE call.lim

PopToBlock ==
    /\ Used /\ Unused # {}
    /\ stack' = SubSeq(stack, 1, Resume)
    /\ call' = [call EXCEPT !.lim = Settled(stack[Resume].itop - stack[Resume].iop, below)]
    /\ result' = OK
    /\ UNCHANGED <<disk, open, fdvars, failed, haspb, below, pbmem>>

(***************************************************************************)
(* What was left in the file buffer is copied without another look at the  *)
(* pointer; with nothing left FILBUF goes on to the file.                  *)
(***************************************************************************)
MemAt(i) == IF i \in Index THEN mem[i] ELSE Junk

PopToFile ==
    /\ Used /\ Unused = {} /\ itop > iop
    /\ stack' = <<>>
    /\ LET lim == Settled(itop - iop, itop < BufSize)
           k   == Min2(lim - call.n, itop - iop)
       IN  /\ result' = Outcome("ok", [i \in 1 .. k |-> MemAt(iop + i - 1)])
           /\ iop' = iop + k
           /\ call' = IF call.n + k = lim THEN NoCall
                      ELSE [call EXCEPT !.n = @ + k, !.lim = lim]
    /\ UNCHANGED <<disk, open, hasbuf, boffset, itop, otop, mem, filsize, failed,
                   haspb, below, pbmem>>

PopAll == /\ Used /\ Unused = {} /\ itop <= iop
          /\ stack' = <<>> /\ result' = OK
          /\ UNCHANGED <<disk, open, fdvars, call, failed, haspb, below, pbmem>>

(***************************************************************************)
(* FCANPB, of which SEEK, FLUSH and CLOSE are callers: the file buffer's   *)
(* pointers are restored.  FRMBFS frees the pushback buffer too.           *)
(***************************************************************************)
CanPbNot(s) == s                               \* mutant: fcanpb not called
CanPb(s) == <<>>

Cancelling ==
    /\ \/ \E off \in 0 .. MaxOff : Seek(off)
       \/ SeekEOF \/ Flush \/ Close
    /\ stack' = CanPb(stack)
    /\ haspb' = (haspb /\ open')
    /\ UNCHANGED <<below, pbmem>>

(***************************************************************************)
(* Calls that begin, and the steps of FioBuffer with nothing pushed back.  *)
(***************************************************************************)
Begins == /\ GetC \/ \E n \in 1 .. MaxXfer : Read(n)
          /\ UNCHANGED pbvars

Plain == /\ stack = <<>>
         /\ \/ \E atEnd \in BOOLEAN : Open(atEnd)
            \/ \E ch \in Char : PutC(ch)
            \/ \E n \in 1 .. MaxXfer, ch \in Char : Write(n, ch)
            \/ NoPermission \/ FMkBfs \/ FilBuf \/ FlsBuf \/ CopyOut \/ CopyIn \/ Cancel
         /\ UNCHANGED pbvars

Data == UNION {[1 .. k -> Char] : k \in 1 .. MaxXfer}

PbInit == /\ Init
          /\ haspb = FALSE /\ below = FALSE /\ stack = <<>>
          /\ pbmem = [i \in PbIndex |-> Junk]

PbNext == \/ \E ch \in Char : UngetC(ch)
          \/ \E s \in Data : UngetLine(s) \/ Unread(s)
          \/ CopyBlock \/ PopToBlock \/ PopToFile \/ PopAll
          \/ Cancelling \/ Begins \/ Plain

PbSpec == PbInit /\ [][PbNext]_allvars
-----------------------------------------------------------------------------
(***************************************************************************)
(* The data and the frames of the pushback buffer never meet, the blocks   *)
(* lie one above the other, and there is a file buffer under them.         *)
(***************************************************************************)
PbTypeOK ==
    /\ haspb \in BOOLEAN /\ below \in BOOLEAN
    /\ pbmem \in [PbIndex -> Cell]
    /\ stack \in Seq([iop : 0 .. PbSize, itop : 0 .. PbSize])
    /\ \A d \in 1 .. Depth : stack[d].iop <= stack[d].itop
    /\ \A d \in 1 .. Depth - 1 : stack[d].itop <= stack[d + 1].iop
    /\ stack # <<>> => haspb /\ hasbuf
    /\ PbIop <= Sp(Depth)
=============================================================================
