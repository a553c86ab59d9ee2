----------------------------- MODULE FioBuffer -----------------------------
(***************************************************************************)
(* One file descriptor of FIO (sys/fio) open on a random access binary     *)
(* file: the single file buffer, the i/o pointers that describe it, and    *)
(* the file fault that moves it to another page of the file.               *)
(*                                                                         *)
(* Pointers into the buffer are kept relative to bufptr, so bufptr is 0    *)
(* and buftop is BufSize; a descriptor without a buffer has all its        *)
(* pointers at 0 except iop, as FSETFD and FRMBFS leave them.  The device  *)
(* is synchronous (unix/os/zfiobf.c transfers in ZARDBF and ZAWRBF and     *)
(* ZAWTBF only returns the count), so FBUFMODE is INACTIVE between calls.  *)
(* A call of GETC, READ, PUTC or WRITE is a sequence of steps, one per     *)
(* FMKBFS, FILBUF, FLSBUF or chunk copied, and no other call interleaves.  *)
(***************************************************************************)
EXTENDS Integers, Sequences

CONSTANTS
    Char,       \* the values a program stores
    Zero,       \* the character a hole in the file or ACLRC holds
    Junk,       \* a cell of memory never written since it was allocated
    BufSize,    \* FBUFSIZE, in chars, a multiple of the device block size
    MaxOff,     \* bound: largest file offset a program uses
    MaxXfer,    \* bound: largest count passed to READ or WRITE
    CanRead,    \* FF_READ is set in fflags
    CanWrite,   \* FF_WRITE is set in fflags
    Faults,     \* what the device may do: subset of {"read", "write", "short"}
    SeekPast,   \* programs also seek to 0 and beyond the end of file
    Fset        \* FSETI parameters programs set: subset of {"cancel"}

ASSUME BufSizeAssumption == BufSize \in Nat \ {0}
ASSUME BoundsAssumption  == MaxOff \in Nat \ {0} /\ MaxXfer \in Nat \ {0}
ASSUME CellAssumption    == Zero \notin Char /\ Junk \notin Char /\ Zero # Junk
ASSUME ModeAssumption    == {CanRead, CanWrite, SeekPast} \subseteq BOOLEAN

VARIABLES
    disk,       \* the bytes of the file on the device
    open,       \* the descriptor is allocated
    hasbuf,     \* bufptr # NULL
    boffset,    \* file offset of the first cell of the buffer
    iop,        \* the i/o pointer
    itop,       \* top of the valid data in the buffer
    otop,       \* writes below otop need no FLSBUF; above 0: modified
    mem,        \* the memory of the buffer
    filsize,    \* FILSIZE, the size FIO believes the file has
    call,       \* the procedure in progress
    result,     \* outcome of the latest step: [st, data]
    failed      \* history: an i/o error has been reported

fdvars == <<hasbuf, boffset, iop, itop, otop, mem, filsize>>
vars == <<disk, open, hasbuf, boffset, iop, itop, otop, mem, filsize,
          call, result, failed>>

Cell  == Char \cup {Zero, Junk}
Index == 0 .. BufSize - 1
ERR   == -1

Max2(a, b) == IF a > b THEN a ELSE b
Min2(a, b) == IF a < b THEN a ELSE b

(***************************************************************************)
(* A call: max characters asked for, lim those still thought possible      *)
(* (maxch in READ), n moved so far, ch the character being written.        *)
(* fresh: FMKBFS has just made the buffer, so FLSBUF must fault.           *)
(***************************************************************************)
NoCall == [op |-> "none", max |-> 0, lim |-> 0, n |-> 0, ch |-> Zero,
           fresh |-> FALSE]
Call(op, max, ch) == [op |-> op, max |-> max, lim |-> max, n |-> 0, ch |-> ch,
                      fresh |-> FALSE]

Outcome(st, data) == [st |-> st, data |-> data]
OK     == Outcome("ok", <<>>)
ATEOF  == Outcome("EOF", <<>>)
FAILED == Outcome("ERR", <<>>)

Idle    == open /\ call = NoCall
Reading == call.op \in {"getc", "read"}
Writing == call.op \in {"putc", "write"}
MayFill == Reading /\ CanRead
MayStore == Writing /\ CanWrite
-----------------------------------------------------------------------------
(***************************************************************************)
(* The macros of lib/fio.h.                                                *)
(***************************************************************************)
LNote == boffset + iop                               \* LNOTE, bufptr = 0
Full == hasbuf /\ otop = BufSize
UItopLost == IF Full THEN Min2(BufSize, Max2(0, iop)) ELSE itop  \* mutant: MAX
UItopOver == IF Full THEN Max2(itop, iop) ELSE itop              \* mutant: MIN
UItop == IF Full THEN Min2(BufSize, Max2(itop, iop)) ELSE itop
UOtop == IF Full THEN UItop ELSE otop                \* UPDATE_IOP
Modified == UOtop > 0                                \* BUF_MODIFIED after it

InData == iop >= 0 /\ iop < itop
InRoom == iop >= 0 /\ iop < otop

PageOf(off) == ((off - 1) \div BufSize) * BufSize + 1    \* FIRSTBUFOFF = 1

(***************************************************************************)
(* The file as the device will hold it after k cells of the buffer are     *)
(* written at off; a write beyond the end leaves a hole of zeros.          *)
(***************************************************************************)
DiskAfter(off, k) ==
    IF k = 0 THEN disk
    ELSE [i \in 1 .. Max2(Len(disk), off - 1 + k) |->
             IF i \in off .. off + k - 1 THEN mem[i - off]
             ELSE IF i <= Len(disk) THEN disk[i] ELSE Zero]

WriteResults(n) ==
    {n} \cup (IF "write" \in Faults THEN {ERR} ELSE {})
        \cup (IF "short" \in Faults THEN 0 .. n - 1 ELSE {})

(***************************************************************************)
(* AWRITEB refuses to leave a hole or to write before the first block.     *)
(***************************************************************************)
Writable(off) == off >= 1 /\ off - 1 <= filsize

(***************************************************************************)
(* FFLSBF and FWATIO: write the n modified cells, with result r.  FILSIZE  *)
(* is advanced by the request, before the result is known, and a count     *)
(* short of n is not looked at.                                            *)
(***************************************************************************)
FlushPageNoSize(n, r) ==                            \* mutant: FILSIZE kept
    /\ disk' = IF r = ERR THEN disk ELSE DiskAfter(boffset, r)
    /\ UNCHANGED filsize

FlushPage(n, r) ==
    /\ disk' = IF r = ERR THEN disk ELSE DiskAfter(boffset, r)
    /\ filsize' = Max2(filsize, boffset - 1 + n)

(***************************************************************************)
(* The exits of FFAULT.  MarkEmpty is its ioerror_ label; WriteFailed is   *)
(* FWATIO's error return, which keeps ITOP; Land puts the buffer down on   *)
(* a page with top valid cells.                                            *)
(***************************************************************************)
MarkEmpty ==
    /\ itop' = 0 /\ otop' = 0
    /\ result' = FAILED /\ failed' = TRUE
    /\ UNCHANGED <<boffset, iop, mem>>

WriteFailedDirty ==                                 \* mutant: OTOP kept
    /\ itop' = UItop /\ otop' = UOtop
    /\ result' = FAILED /\ failed' = TRUE
    /\ UNCHANGED <<boffset, iop, mem>>

WriteFailed ==
    /\ itop' = UItop /\ otop' = 0
    /\ result' = FAILED /\ failed' = TRUE
    /\ UNCHANGED <<boffset, iop, mem>>

Land(off, top, m, forWrite) ==
    /\ boffset' = PageOf(off)
    /\ iop' = off - PageOf(off)
    /\ itop' = top
    /\ otop' = IF forWrite THEN BufSize ELSE 0
    /\ mem' = m
    /\ result' = IF ~forWrite /\ top <= off - PageOf(off) THEN ATEOF ELSE OK
    /\ UNCHANGED failed

BeyondEndOffByOne(page) == page >= filsize'          \* mutant
BeyondEnd(page) == page > filsize'

Replaces(off, nreserve, forWrite) ==
    forWrite /\ off = PageOf(off) /\ nreserve >= BufSize

CharsAtAll(page) == BufSize                          \* mutant: count ignored
CharsAt(page) == Max2(0, Min2(BufSize, Len(disk') - page + 1))

Cleared == [i \in Index |-> Zero]

(***************************************************************************)
(* The second half of FFAULT: what the page at off is filled with.  It is  *)
(* not read when the write that caused the fault will replace all of it,   *)
(* when reading is disabled, or when it lies beyond the end of file.       *)
(***************************************************************************)
PickUp(off, nreserve, forWrite) ==
    LET page    == PageOf(off)
        atEOF   == BeyondEnd(page)
        replace == Replaces(off, nreserve, forWrite)
        n       == CharsAt(page)
    IN  \/ replace /\ Land(off, 0, mem, forWrite)
        \/ /\ ~replace /\ ~CanRead
           /\ Land(off, IF atEOF THEN 0 ELSE BufSize,
                   Cleared, forWrite)
        \/ ~replace /\ CanRead /\ atEOF /\ Land(off, 0, mem, forWrite)
        \/ /\ ~replace /\ CanRead /\ ~atEOF
           /\ \/ Land(off, n, [i \in Index |-> IF i < n /\ page + i <= Len(disk')
                                               THEN disk'[page + i] ELSE mem[i]],
                      forWrite)
              \/ "read" \in Faults /\ MarkEmpty

(***************************************************************************)
(* FFAULT: flush the buffer if it was written into, then pick it up and    *)
(* put it down on the page that holds off.                                 *)
(***************************************************************************)
FFault(off, nreserve, forWrite) ==
    \/ /\ off <= 0 \/ (Modified /\ ~Writable(boffset))
       /\ MarkEmpty
       /\ UNCHANGED <<disk, filsize>>
    \/ /\ off > 0 /\ ~Modified
       /\ UNCHANGED <<disk, filsize>>
       /\ PickUp(off, nreserve, forWrite)
    \/ /\ off > 0 /\ Modified /\ Writable(boffset)
       /\ \E r \in WriteResults(UOtop) :
             /\ FlushPage(UOtop, r)
             /\ IF r = ERR THEN WriteFailed
                ELSE PickUp(off, nreserve, forWrite)
-----------------------------------------------------------------------------
Content0 == UNION {[1 .. n -> Char] : n \in 0 .. Min2(MaxOff, BufSize + 1)}

Init ==
    /\ disk \in Content0
    /\ open = FALSE
    /\ hasbuf = FALSE /\ boffset = 1 /\ iop = 0 /\ itop = 0 /\ otop = 0
    /\ mem = [i \in Index |-> Junk]
    /\ filsize = 0
    /\ call = NoCall /\ result = OK /\ failed = FALSE

(***************************************************************************)
(* FILOPN: a new descriptor, its size taken from the device, positioned    *)
(* at the end (APPEND) or the beginning.                                   *)
(***************************************************************************)
Open(atEnd) ==
    /\ ~open
    /\ open' = TRUE
    /\ filsize' = Len(disk)
    /\ iop' = IF atEnd THEN Len(disk) ELSE 0
    /\ result' = OK
    /\ UNCHANGED <<disk, hasbuf, boffset, itop, otop, mem, call, failed>>

(***************************************************************************)
(* GETC, READ, PUTC and WRITE are entered.                                 *)
(***************************************************************************)
Enter(op, max, ch) ==
    /\ Idle
    /\ call' = Call(op, max, ch)
    /\ result' = OK
    /\ UNCHANGED <<disk, open, fdvars, failed>>

GetC       == Enter("getc", 1, Zero)
Read(n)    == Enter("read", n, Zero)
PutC(ch)   == LNote <= MaxOff /\ Enter("putc", 1, ch)
Write(n, ch) == LNote + n - 1 <= MaxOff /\ Enter("write", n, ch)

(***************************************************************************)
(* A transfer without the permission is an error of the program.           *)
(***************************************************************************)
NoPermission ==
    /\ \/ Reading /\ ~InData /\ ~CanRead
       \/ Writing /\ ~InRoom /\ ~CanWrite
    /\ call' = NoCall
    /\ result' = FAILED
    /\ UNCHANGED <<disk, open, fdvars, failed>>

(***************************************************************************)
(* FMKBFS: allocate the buffer; the logical offset is kept although the    *)
(* buffer offset becomes 0.                                                *)
(***************************************************************************)
FMkBfs ==
    /\ ~hasbuf
    /\ MayFill \/ MayStore
    /\ hasbuf' = TRUE
    /\ boffset' = 0 /\ iop' = LNote /\ itop' = 0 /\ otop' = 0
    /\ mem' = [i \in Index |-> Junk]
    /\ call' = [call EXCEPT !.fresh = TRUE]
    /\ result' = OK
    /\ UNCHANGED <<disk, open, filsize, failed>>

(***************************************************************************)
(* The count READ settles for after a fault: a page that is not full ends  *)
(* the file.                                                               *)
(***************************************************************************)
NewLimEager == IF call.op = "read"                   \* mutant: always settles
               THEN Min2(call.max, call.n + itop' - iop') ELSE call.lim
NewLim == IF call.op = "read" /\ itop' < BufSize
          THEN Min2(call.max, call.n + itop' - iop') ELSE call.lim

(***************************************************************************)
(* FILBUF: GETC or READ finds no data under the pointer.                   *)
(***************************************************************************)
FilBuf ==
    /\ MayFill /\ ~InData /\ hasbuf
    /\ FFault(LNote, 0, FALSE)
    /\ call' = IF result'.st # "ok" THEN NoCall
               ELSE [call EXCEPT !.fresh = FALSE, !.lim = NewLim]
    /\ UNCHANGED <<open, hasbuf>>

InPageUnset == iop \in Index /\ otop < BufSize        \* mutant
InPage == ~call.fresh /\ iop \in Index /\ otop < BufSize

(***************************************************************************)
(* FLSBUF: PUTC or WRITE finds no room under the pointer.  A pointer that  *)
(* is in the buffer needs no fault: the rest of the buffer is opened for   *)
(* writing by moving OTOP to its end.                                      *)
(***************************************************************************)
FlsBuf ==
    /\ MayStore /\ ~InRoom /\ hasbuf
    /\ IF InPage
       THEN /\ otop' = BufSize
            /\ result' = OK
            /\ UNCHANGED <<disk, boffset, iop, itop, mem, filsize, failed>>
       ELSE FFault(LNote, IF call.op = "write" THEN call.max - call.n ELSE 0,
                   TRUE)
    /\ call' = IF result'.st = "ERR" THEN NoCall
               ELSE [call EXCEPT !.fresh = FALSE]
    /\ UNCHANGED <<open, hasbuf>>

(***************************************************************************)
(* The chunk copies of READ and WRITE (one cell for GETC and PUTC).        *)
(***************************************************************************)
CopyOut ==
    /\ Reading /\ InData
    /\ LET k == Min2(call.lim - call.n, itop - iop)
       IN  /\ result' = Outcome("ok", [i \in 1 .. k |-> mem[iop + i - 1]])
           /\ iop' = iop + k
           /\ call' = IF call.n + k = call.lim THEN NoCall
                      ELSE [call EXCEPT !.n = @ + k]
    /\ UNCHANGED <<disk, open, hasbuf, boffset, itop, otop, mem, filsize,
                   failed>>

CopyIn ==
    /\ Writing /\ InRoom
    /\ LET k == Min2(call.lim - call.n, otop - iop)
       IN  /\ mem' = [i \in Index |-> IF i \in iop .. iop + k - 1
                                      THEN call.ch ELSE mem[i]]
           /\ iop' = iop + k
           /\ call' = IF call.n + k = call.lim THEN NoCall
                      ELSE [call EXCEPT !.n = @ + k]
    /\ result' = OK
    /\ UNCHANGED <<disk, open, hasbuf, boffset, itop, otop, filsize, failed>>

(***************************************************************************)
(* SEEK moves the i/o pointer only; the fault comes with the next          *)
(* transfer.  Seeking to the end goes through FFILSZ, which records the    *)
(* size including what is still in the buffer.                             *)
(***************************************************************************)
FFilSz == IF Modified THEN Max2(filsize, boffset - 1 + UItop) ELSE filsize

SeekTo(off) ==
    /\ itop' = UItop /\ otop' = UOtop
    /\ iop' = off - boffset
    /\ result' = OK
    /\ UNCHANGED <<disk, open, hasbuf, boffset, mem, call, failed>>

Seek(off) ==
    /\ Idle
    /\ SeekPast \/ off \in 1 .. FFilSz + 1
    /\ SeekTo(off)
    /\ UNCHANGED filsize

SeekEOF ==
    /\ Idle
    /\ filsize' = FFilSz
    /\ SeekTo(FFilSz + 1)

(***************************************************************************)
(* FLUSH, which CLOSE and FRMBFS also go through: what it writes, and      *)
(* where it leaves OTOP.                                                   *)
(***************************************************************************)
FlushOut ==
    \/ /\ ~Modified
       /\ result' = OK
       /\ UNCHANGED <<disk, filsize, failed>>
    \/ /\ Modified /\ ~Writable(boffset)
       /\ result' = FAILED /\ failed' = TRUE
       /\ UNCHANGED <<disk, filsize>>
    \/ /\ Modified /\ Writable(boffset)
       /\ \E r \in WriteResults(UOtop) :
             /\ FlushPage(UOtop, r)
             /\ result' = IF r = ERR THEN FAILED ELSE OK
             /\ failed' = (failed \/ r = ERR)

FlushedOtop == IF Modified /\ Writable(boffset) THEN 0 ELSE UOtop

Flush ==
    /\ Idle
    /\ FlushOut
    /\ itop' = UItop /\ otop' = FlushedOtop
    /\ UNCHANGED <<open, hasbuf, boffset, iop, mem, call>>

(***************************************************************************)
(* CLOSE flushes and returns buffer and descriptor; it keeps both when     *)
(* the flush fails.                                                        *)
(***************************************************************************)
Release ==
    /\ open' = FALSE /\ hasbuf' = FALSE
    /\ boffset' = 1 /\ iop' = 0 /\ itop' = 0 /\ otop' = 0
    /\ mem' = [i \in Index |-> Junk]

Close ==
    /\ Idle
    /\ FlushOut
    /\ IF result'.st = "ERR"
       THEN /\ itop' = UItop /\ otop' = FlushedOtop
            /\ UNCHANGED <<open, hasbuf, boffset, iop, mem>>
       ELSE Release
    /\ UNCHANGED call

(***************************************************************************)
(* FSETI (fd, F_CANCEL, ...) on a blocked file: the offset is kept and     *)
(* the buffer offset is set to 0 to invalidate the buffer.                 *)
(***************************************************************************)
Cancel ==
    /\ Idle /\ "cancel" \in Fset
    /\ itop' = 0 /\ otop' = 0
    /\ boffset' = 0 /\ iop' = LNote
    /\ result' = OK
    /\ UNCHANGED <<disk, open, hasbuf, mem, filsize, call, failed>>

Next ==
    \/ \E atEnd \in BOOLEAN : Open(atEnd)
    \/ GetC
    \/ \E n \in 1 .. MaxXfer : Read(n)
    \/ \E ch \in Char : PutC(ch)
    \/ \E n \in 1 .. MaxXfer, ch \in Char : Write(n, ch)
    \/ NoPermission \/ FMkBfs \/ FilBuf \/ FlsBuf \/ CopyOut \/ CopyIn
    \/ \E off \in 0 .. MaxOff : Seek(off)
    \/ SeekEOF \/ Flush \/ Close \/ Cancel

Spec == Init /\ [][Next]_vars
-----------------------------------------------------------------------------
Calls == [op : {"none", "getc", "read", "putc", "write"},
          max : Nat, lim : Nat, n : Nat, ch : Cell, fresh : BOOLEAN]
Results == [st : {"ok", "EOF", "ERR"}, data : Seq(Cell)]

(***************************************************************************)
(* Every variable has its type, and a call in progress has characters left *)
(* to move.                                                                *)
(***************************************************************************)
TypeOK ==
    /\ disk \in Seq(Cell)
    /\ open \in BOOLEAN /\ hasbuf \in BOOLEAN /\ failed \in BOOLEAN
    /\ boffset \in Int /\ iop \in Int /\ filsize \in Nat
    /\ itop \in 0 .. BufSize /\ otop \in 0 .. BufSize
    /\ mem \in [Index -> Cell]
    /\ call \in Calls
    /\ call # NoCall => call.n < call.lim /\ call.lim <= call.max
    /\ result \in Results

(***************************************************************************)
(* A modified buffer is always one the device accepts: it sits on a page   *)
(* boundary and leaves no hole, so FLUSH and CLOSE never fail with         *)
(* SYS_FAWROOB or SYS_FAWRALIGN (AWRITEB).                                 *)
(***************************************************************************)
FlushCanPlace ==
    Modified => boffset = PageOf(boffset) /\ Writable(boffset)

(***************************************************************************)
(* FIO's idea of the file size never lags behind the device, so a page     *)
(* that holds data is never taken for the end of file and zeroed.          *)
(***************************************************************************)
SizeCoversDisk == open => Len(disk) <= filsize

(***************************************************************************)
(* An i/o error leaves nothing in the buffer to be written, "else during   *)
(* error recovery close will try again to write the data, probably         *)
(* causing another error" (FWATIO).                                        *)
(***************************************************************************)
ErrorLeavesBufferClean ==
    [][ result'.st = "ERR" => ~Modified' ]_vars

=============================================================================
