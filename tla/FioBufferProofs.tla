--------------------------- MODULE FioBufferProofs ---------------------------
(***************************************************************************)
(* Proofs about one FIO descriptor, for every buffer size, file and        *)
(* sequence of calls: its types, that a modified buffer can be written,    *)
(* what errors and short reads mean, and that it implements FlatFile.      *)
(***************************************************************************)
EXTENDS MCFioBuffer, TLAPS

(***************************************************************************)
(* What a program must do for a modified buffer to have a page always:     *)
(* seek within the file only, never cancel buffered data, and have a       *)
(* device that does not fail to read.                                      *)
(***************************************************************************)
Careful == /\ SeekPast = FALSE
           /\ "cancel" \notin Fset
           /\ "read" \notin Faults

(***************************************************************************)
(* The strengthening of FlushCanPlace and SizeCoversDisk: where the buffer *)
(* lies and how the pointers, the position and FILSIZE are related.        *)
(***************************************************************************)
Owned == /\ ~open => ~hasbuf /\ boffset = 1 /\ call = NoCall
         /\ ~hasbuf => itop = 0 /\ otop = 0
Tops == otop \in {0, BufSize, itop}
Fresh == call.fresh => /\ hasbuf /\ itop = 0 /\ otop = 0
                       /\ MayFill \/ MayStore
OnPage == hasbuf /\ ~call.fresh => /\ boffset = PageOf(boffset)
                                   /\ Writable(boffset)
InFile == /\ LNote \in 1 .. FFilSz + 1
          /\ hasbuf => boffset - 1 + itop <= FFilSz

Placed == Owned /\ Tops /\ Fresh /\ OnPage /\ InFile /\ SizeCoversDisk
-----------------------------------------------------------------------------
(***************************************************************************)
(* PageOf rounds a file offset down to the first offset of its page        *)
(* (FFAULT, lines 41 to 51).                                               *)
(***************************************************************************)
LEMMA PageOfOffset ==
    ASSUME NEW off \in Int, off >= 1
    PROVE  /\ PageOf(off) \in Int
           /\ 1 <= PageOf(off) /\ PageOf(off) <= off
           /\ off < PageOf(off) + BufSize
           /\ PageOf(PageOf(off)) = PageOf(off)
<1> DEFINE q == (off - 1) \div BufSize
<1>1. /\ q \in Nat
      /\ q * BufSize <= off - 1
      /\ off - 1 < q * BufSize + BufSize
    BY BufSizeAssumption
<1>2. q * BufSize \in Nat
    BY <1>1, BufSizeAssumption
<1>3. (q * BufSize) \div BufSize = q
    BY <1>1, BufSizeAssumption
<1>4. PageOf(off) = q * BufSize + 1
    BY DEF PageOf
<1> HIDE DEF q
<1>5. PageOf(q * BufSize + 1) = q * BufSize + 1
  <2>1. (q * BufSize + 1) - 1 = q * BufSize
      BY <1>2
  <2> QED BY <2>1, <1>3 DEF PageOf
<1> QED BY <1>1, <1>2, <1>4, <1>5, BufSizeAssumption

(***************************************************************************)
(* UPDATE_IOP keeps the tops within the buffer.                            *)
(***************************************************************************)
LEMMA UpdatedTops ==
    ASSUME TypeOK
    PROVE  UItop \in 0 .. BufSize /\ UOtop \in 0 .. BufSize
BY BufSizeAssumption DEF TypeOK, UItop, UOtop, Full, Min2, Max2

(***************************************************************************)
(* A write leaves a sequence of cells on the device (ZAWRBF).              *)
(***************************************************************************)
LEMMA DiskAfterType ==
    ASSUME TypeOK, NEW off \in Int, off >= 1, NEW k \in 0 .. BufSize
    PROVE  /\ DiskAfter(off, k) \in Seq(Cell)
           /\ Len(DiskAfter(off, k)) = IF k = 0 THEN Len(disk)
                                       ELSE Max2(Len(disk), off - 1 + k)
<1>1. CASE k = 0
    BY <1>1 DEF DiskAfter, TypeOK
<1>2. CASE k # 0
  <2> DEFINE len == Max2(Len(disk), off - 1 + k)
             d(i) == IF i \in off .. off + k - 1 THEN mem[i - off]
                     ELSE IF i <= Len(disk) THEN disk[i] ELSE Zero
  <2>1. len \in Nat
      BY BufSizeAssumption DEF Max2, TypeOK
  <2>2. ASSUME NEW i \in 1 .. len PROVE d(i) \in Cell
    <3>1. CASE i \in off .. off + k - 1
      <4>1. i - off \in Index
          BY <3>1, BufSizeAssumption DEF Index
      <4> QED BY <3>1, <4>1 DEF TypeOK
    <3>2. CASE i \notin off .. off + k - 1 /\ i <= Len(disk)
      <4>1. i \in 1 .. Len(disk)
          BY <3>2, <2>1 DEF TypeOK
      <4> QED BY <3>2, <4>1 DEF TypeOK
    <3>3. CASE i \notin off .. off + k - 1 /\ ~(i <= Len(disk))
        BY <3>3 DEF Cell
    <3> QED BY <3>1, <3>2, <3>3
  <2>3. DiskAfter(off, k) = [i \in 1 .. len |-> d(i)]
      BY <1>2 DEF DiskAfter
  <2> HIDE DEF len, d
  <2>4. [i \in 1 .. len |-> d(i)] \in Seq(Cell)
        /\ Len([i \in 1 .. len |-> d(i)]) = len
      BY <2>1, <2>2
  <2>5. len = Max2(Len(disk), off - 1 + k)
      BY DEF len
  <2> QED BY <1>2, <2>3, <2>4, <2>5
<1> QED BY <1>1, <1>2

(***************************************************************************)
(* The outcomes are typed.                                                 *)
(***************************************************************************)
LEMMA OutcomeType == OK \in Results /\ ATEOF \in Results /\ FAILED \in Results
                     /\ OK.st = "ok" /\ ATEOF.st = "EOF" /\ FAILED.st = "ERR"
BY DEF OK, ATEOF, FAILED, Outcome, Results

(***************************************************************************)
(* What a file fault leaves in the descriptor.                             *)
(***************************************************************************)
FaultTyped ==
    /\ boffset' \in Int /\ iop' \in Int
    /\ itop' \in 0 .. BufSize /\ otop' \in 0 .. BufSize
    /\ mem' \in [Index -> Cell]
    /\ result' \in Results
    /\ failed' \in BOOLEAN

(***************************************************************************)
(* Landing on a page (the end of FFAULT) keeps the types.                  *)
(***************************************************************************)
LEMMA LandType ==
    ASSUME TypeOK, NEW off \in Int, off >= 1, NEW forWrite \in BOOLEAN,
           NEW top \in 0 .. BufSize, NEW m \in [Index -> Cell],
           Land(off, top, m, forWrite)
    PROVE  /\ FaultTyped
           /\ ~forWrite /\ result'.st = "ok" => itop' > iop'
           /\ result'.st # "ERR"
<1>1. PageOf(off) \in Int
    BY PageOfOffset
<1>2. CASE forWrite
    BY <1>1, <1>2, OutcomeType, BufSizeAssumption
    DEF Land, FaultTyped, TypeOK
<1>3. CASE ~forWrite
    BY <1>1, <1>3, OutcomeType, BufSizeAssumption
    DEF Land, FaultTyped, TypeOK
<1> QED BY <1>2, <1>3

(***************************************************************************)
(* So do the two error exits of FFAULT.                                    *)
(***************************************************************************)
LEMMA ErrorType ==
    ASSUME TypeOK, MarkEmpty \/ WriteFailed
    PROVE  FaultTyped /\ result'.st = "ERR"
<1>1. result' = FAILED /\ failed' = TRUE
    BY DEF MarkEmpty, WriteFailed
<1>2. itop' \in 0 .. BufSize /\ otop' \in 0 .. BufSize
    BY UpdatedTops, BufSizeAssumption DEF MarkEmpty, WriteFailed
<1>3. boffset' \in Int /\ iop' \in Int /\ mem' \in [Index -> Cell]
    BY DEF MarkEmpty, WriteFailed, TypeOK
<1> QED BY <1>1, <1>2, <1>3, OutcomeType DEF FaultTyped

(***************************************************************************)
(* Reading, clearing or reserving the new page (FFAULT) keeps the types.   *)
(***************************************************************************)
LEMMA PickUpType ==
    ASSUME TypeOK, NEW off \in Int, off >= 1, NEW nreserve \in Nat,
           NEW forWrite \in BOOLEAN, disk' \in Seq(Cell), filsize' \in Nat,
           PickUp(off, nreserve, forWrite)
    PROVE  /\ FaultTyped
           /\ ~forWrite /\ result'.st = "ok" => itop' > iop'
<1> DEFINE page == PageOf(off)
           n    == CharsAt(page)
           top0 == IF BeyondEnd(page) THEN 0 ELSE BufSize
           m    == [i \in Index |-> IF i < n /\ page + i <= Len(disk')
                                    THEN disk'[page + i] ELSE mem[i]]
<1>1. page \in Int /\ page >= 1
    BY PageOfOffset
<1>2. n \in 0 .. BufSize
    BY <1>1, BufSizeAssumption DEF CharsAt, Min2, Max2
<1>3. m \in [Index -> Cell]
  <2>1. ASSUME NEW i \in Index, i < n, page + i <= Len(disk')
        PROVE  disk'[page + i] \in Cell
    <3>1. page + i \in 1 .. Len(disk')
        BY <2>1, <1>1, BufSizeAssumption DEF Index
    <3> QED BY <3>1
  <2> QED BY <2>1 DEF TypeOK
<1>4. Cleared \in [Index -> Cell]
    BY DEF Cleared, Cell
<1>5. mem \in [Index -> Cell]
    BY DEF TypeOK
<1>6. 0 \in 0 .. BufSize /\ top0 \in 0 .. BufSize
    BY BufSizeAssumption
<1>7. \/ Land(off, 0, mem, forWrite)
      \/ Land(off, top0, Cleared, forWrite)
      \/ Land(off, n, m, forWrite)
      \/ MarkEmpty
    BY DEF PickUp
<1> HIDE DEF page, n, top0, m
<1>8. CASE Land(off, 0, mem, forWrite)
    BY <1>8, <1>5, <1>6, LandType
<1>9. CASE Land(off, top0, Cleared, forWrite)
    BY <1>9, <1>4, <1>6, LandType
<1>10. CASE Land(off, n, m, forWrite)
    BY <1>10, <1>2, <1>3, LandType
<1>11. CASE MarkEmpty
    BY <1>11, ErrorType
<1> QED BY <1>7, <1>8, <1>9, <1>10, <1>11

(***************************************************************************)
(* Writing the old page (FFLSBF) keeps the types.                          *)
(***************************************************************************)
LEMMA FlushPageType ==
    ASSUME TypeOK, Writable(boffset), NEW r \in WriteResults(UOtop),
           FlushPage(UOtop, r)
    PROVE  disk' \in Seq(Cell) /\ filsize' \in Nat
<1>1. UOtop \in 0 .. BufSize
    BY UpdatedTops
<1>2. r = ERR \/ r \in 0 .. BufSize
    BY <1>1, BufSizeAssumption DEF WriteResults
<1>3. boffset \in Int /\ boffset >= 1
    BY DEF TypeOK, Writable
<1>4. filsize' \in Nat
    BY <1>1, <1>3, BufSizeAssumption DEF FlushPage, Max2, TypeOK
<1>5. CASE r = ERR
    BY <1>4, <1>5 DEF FlushPage, TypeOK
<1>6. CASE r # ERR
    BY <1>2, <1>3, <1>4, <1>6, DiskAfterType DEF FlushPage
<1> QED BY <1>5, <1>6

(***************************************************************************)
(* A whole file fault (FFAULT) keeps the types.                            *)
(***************************************************************************)
LEMMA FFaultType ==
    ASSUME TypeOK, NEW off \in Int, NEW nreserve \in Nat,
           NEW forWrite \in BOOLEAN, FFault(off, nreserve, forWrite)
    PROVE  /\ FaultTyped
           /\ disk' \in Seq(Cell) /\ filsize' \in Nat
           /\ ~forWrite /\ result'.st = "ok" => itop' > iop'
<1>1. CASE MarkEmpty /\ UNCHANGED <<disk, filsize>>
    BY <1>1, ErrorType DEF TypeOK
<1>2. CASE /\ off > 0
           /\ UNCHANGED <<disk, filsize>>
           /\ PickUp(off, nreserve, forWrite)
  <2>1. disk' \in Seq(Cell) /\ filsize' \in Nat
      BY <1>2 DEF TypeOK
  <2> QED BY <1>2, <2>1, PickUpType
<1>3. ASSUME off > 0, Writable(boffset),
             NEW r \in WriteResults(UOtop), FlushPage(UOtop, r),
             IF r = ERR THEN WriteFailed ELSE PickUp(off, nreserve, forWrite)
      PROVE  /\ FaultTyped
             /\ disk' \in Seq(Cell) /\ filsize' \in Nat
             /\ ~forWrite /\ result'.st = "ok" => itop' > iop'
  <2>1. disk' \in Seq(Cell) /\ filsize' \in Nat
      BY <1>3, FlushPageType
  <2>2. CASE WriteFailed
      BY <2>1, <2>2, ErrorType
  <2>3. CASE PickUp(off, nreserve, forWrite)
      BY <1>3, <2>1, <2>3, PickUpType
  <2> QED BY <1>3, <2>2, <2>3
<1> QED BY <1>1, <1>2, <1>3 DEF FFault
-----------------------------------------------------------------------------
(***************************************************************************)
(* Type correctness, one lemma for the initial states and one for a step.  *)
(***************************************************************************)
LEMMA InitType == Init => TypeOK
<1> SUFFICES ASSUME Init PROVE TypeOK
    OBVIOUS
<1>1. disk \in Seq(Cell)
  <2>1. PICK n \in 0 .. Min2(MaxOff, BufSize + 1) : disk \in [1 .. n -> Char]
      BY DEF Init, Content0
  <2>2. n \in Nat
      OBVIOUS
  <2>3. disk \in [1 .. n -> Cell]
      BY <2>1 DEF Cell
  <2> QED BY <2>2, <2>3
<1>2. mem \in [Index -> Cell]
    BY DEF Init, Cell
<1>3. OK \in Results
    BY OutcomeType
<1>4. NoCall \in Calls
    BY DEF NoCall, Calls, Cell
<1>5. 0 \in 0 .. BufSize
    BY BufSizeAssumption
<1>6. open \in BOOLEAN /\ hasbuf \in BOOLEAN /\ failed \in BOOLEAN
    BY DEF Init
<1>7. /\ boffset \in Int /\ iop \in Int /\ filsize \in Nat
      /\ itop \in 0 .. BufSize /\ otop \in 0 .. BufSize
    BY <1>5 DEF Init
<1>8. call = NoCall /\ result = OK
    BY DEF Init
<1> QED BY <1>1, <1>2, <1>3, <1>4, <1>6, <1>7, <1>8 DEF TypeOK

(***************************************************************************)
(* The part of TypeOK about the call in progress.                          *)
(***************************************************************************)
CallTyped == /\ call \in Calls
             /\ call # NoCall => call.n < call.lim /\ call.lim <= call.max

(***************************************************************************)
(* The record that stands for no call is one of the calls.                 *)
(***************************************************************************)
LEMMA NoCallType == NoCall \in Calls
BY DEF NoCall, Calls, Cell

(***************************************************************************)
(* Entering GETC, READ, PUTC or WRITE keeps the types.                     *)
(***************************************************************************)
LEMMA EnterType ==
    ASSUME TypeOK, NEW op \in {"getc", "read", "putc", "write"},
           NEW max \in Nat \ {0}, NEW ch \in Cell, Enter(op, max, ch)
    PROVE  TypeOK'
<1>1. CallTyped'
    BY DEF Enter, Call, CallTyped, Calls
<1>2. result' \in Results
    BY OutcomeType DEF Enter
<1>3. UNCHANGED <<disk, open, fdvars, failed>>
    BY DEF Enter
<1> QED BY <1>1, <1>2, <1>3 DEF TypeOK, CallTyped, fdvars

(***************************************************************************)
(* FILBUF leaves a call that still has characters to move, because a fault *)
(* that is not at the end of file brings in at least one.                  *)
(***************************************************************************)
LEMMA FilBufType ==
    ASSUME TypeOK, FilBuf
    PROVE  TypeOK'
<1>1. LNote \in Int
    BY DEF TypeOK, LNote
<1>2. /\ FaultTyped
      /\ disk' \in Seq(Cell) /\ filsize' \in Nat
      /\ result'.st = "ok" => itop' > iop'
    BY <1>1, FFaultType DEF FilBuf
<1>3. UNCHANGED <<open, hasbuf>>
    BY DEF FilBuf
<1>4. CallTyped'
  <2>1. CASE result'.st # "ok"
      BY <2>1, NoCallType DEF FilBuf, CallTyped
  <2>2. CASE result'.st = "ok"
    <3>1. call # NoCall
        BY DEF FilBuf, MayFill, Reading, NoCall
    <3>2. call \in Calls /\ call.n < call.lim /\ call.lim <= call.max
        BY <3>1 DEF TypeOK
    <3>3. NewLim \in Nat /\ call.n < NewLim /\ NewLim <= call.max
        BY <1>2, <2>2, <3>2 DEF NewLim, Min2, Calls, FaultTyped
    <3>4. call' = [call EXCEPT !.fresh = FALSE, !.lim = NewLim]
        BY <2>2 DEF FilBuf
    <3> QED BY <3>2, <3>3, <3>4 DEF CallTyped, Calls
  <2> QED BY <2>1, <2>2
<1> QED BY <1>2, <1>3, <1>4
        DEF TypeOK, FaultTyped, CallTyped

(***************************************************************************)
(* FLSBUF keeps the types.                                                 *)
(***************************************************************************)
LEMMA FlsBufType ==
    ASSUME TypeOK, FlsBuf
    PROVE  TypeOK'
<1>1. call # NoCall
    BY DEF FlsBuf, MayStore, Writing, NoCall
<1>2. call \in Calls /\ call.n < call.lim /\ call.lim <= call.max
    BY <1>1 DEF TypeOK
<1>3. CallTyped'
    BY <1>2, NoCallType DEF FlsBuf, CallTyped, Calls
<1>4. FaultTyped /\ disk' \in Seq(Cell) /\ filsize' \in Nat
  <2>1. CASE InPage
      BY <2>1, OutcomeType, BufSizeAssumption
      DEF FlsBuf, FaultTyped, TypeOK
  <2>2. CASE ~InPage
    <3> DEFINE nreserve == IF call.op = "write" THEN call.max - call.n ELSE 0
    <3>1. nreserve \in Nat
        BY <1>2 DEF Calls
    <3>2. LNote \in Int
        BY DEF TypeOK, LNote
    <3>3. FFault(LNote, nreserve, TRUE)
        BY <2>2 DEF FlsBuf
    <3> HIDE DEF nreserve
    <3> QED BY <3>1, <3>2, <3>3, FFaultType
  <2> QED BY <2>1, <2>2
<1>5. UNCHANGED <<open, hasbuf>>
    BY DEF FlsBuf
<1> QED BY <1>3, <1>4, <1>5
        DEF TypeOK, FaultTyped, CallTyped

(***************************************************************************)
(* The chunk copies of READ and WRITE stay within the buffer.              *)
(***************************************************************************)
LEMMA CopyOutType ==
    ASSUME TypeOK, CopyOut
    PROVE  TypeOK'
<1> DEFINE k == Min2(call.lim - call.n, itop - iop)
           out == [i \in 1 .. k |-> mem[iop + i - 1]]
<1>1. call # NoCall
    BY DEF CopyOut, Reading, NoCall
<1>2. call \in Calls /\ call.n < call.lim /\ call.lim <= call.max
    BY <1>1 DEF TypeOK
<1>3. /\ iop \in Nat /\ itop \in Nat /\ iop < itop /\ itop <= BufSize
    BY BufSizeAssumption DEF CopyOut, InData, TypeOK
<1>4. k \in Nat /\ k >= 1 /\ k <= itop - iop /\ k <= call.lim - call.n
    BY <1>2, <1>3 DEF Min2, Calls
<1>5. /\ result' = Outcome("ok", out)
      /\ iop' = iop + k
      /\ call' = IF call.n + k = call.lim THEN NoCall
                 ELSE [call EXCEPT !.n = @ + k]
      /\ UNCHANGED <<disk, open, hasbuf, boffset, itop, otop, mem, filsize,
                     failed>>
    BY DEF CopyOut
<1> HIDE DEF k
<1>6. out \in Seq(Cell)
  <2>1. ASSUME NEW i \in 1 .. k PROVE mem[iop + i - 1] \in Cell
    <3>1. iop + i - 1 \in Index
        BY <1>3, <1>4, BufSizeAssumption DEF Index
    <3> QED BY <3>1 DEF TypeOK
  <2> QED BY <2>1, <1>4
<1> HIDE DEF out
<1>7. result' \in Results
    BY <1>5, <1>6 DEF Outcome, Results
<1>8. CallTyped'
  <2>1. CASE call.n + k = call.lim
      BY <2>1, <1>5, NoCallType DEF CallTyped
  <2>2. CASE call.n + k # call.lim
      BY <2>2, <1>2, <1>4, <1>5 DEF CallTyped, Calls
  <2> QED BY <2>1, <2>2
<1>9. iop' \in Int
    BY <1>3, <1>4, <1>5
<1> QED BY <1>5, <1>7, <1>8, <1>9 DEF TypeOK, CallTyped

(***************************************************************************)
(* Storing characters (PUTC, WRITE) keeps the types.                       *)
(***************************************************************************)
LEMMA CopyInType ==
    ASSUME TypeOK, CopyIn
    PROVE  TypeOK'
<1> DEFINE k == Min2(call.lim - call.n, otop - iop)
<1>1. call # NoCall
    BY DEF CopyIn, Writing, NoCall
<1>2. call \in Calls /\ call.n < call.lim /\ call.lim <= call.max
    BY <1>1 DEF TypeOK
<1>3. iop \in Nat /\ otop \in Nat /\ iop < otop
    BY BufSizeAssumption DEF CopyIn, InRoom, TypeOK
<1>4. k \in Nat /\ k >= 1 /\ k <= call.lim - call.n
    BY <1>2, <1>3 DEF Min2, Calls
<1>5. /\ mem' = [i \in Index |-> IF i \in iop .. iop + k - 1
                                 THEN call.ch ELSE mem[i]]
      /\ iop' = iop + k
      /\ call' = IF call.n + k = call.lim THEN NoCall
                 ELSE [call EXCEPT !.n = @ + k]
      /\ result' = OK
      /\ UNCHANGED <<disk, open, hasbuf, boffset, itop, otop, filsize, failed>>
    BY DEF CopyIn
<1> HIDE DEF k
<1>6. mem' \in [Index -> Cell]
  <2>1. call.ch \in Cell
      BY <1>2 DEF Calls
  <2> QED BY <2>1, <1>5 DEF TypeOK
<1>7. CallTyped'
  <2>1. CASE call.n + k = call.lim
      BY <2>1, <1>5, NoCallType DEF CallTyped
  <2>2. CASE call.n + k # call.lim
      BY <2>2, <1>2, <1>4, <1>5 DEF CallTyped, Calls
  <2> QED BY <2>1, <2>2
<1>8. iop' \in Int /\ result' \in Results
    BY <1>3, <1>4, <1>5, OutcomeType
<1> QED BY <1>5, <1>6, <1>7, <1>8 DEF TypeOK, CallTyped

(***************************************************************************)
(* FLUSH and CLOSE: what FlushOut writes and reports.                      *)
(***************************************************************************)
LEMMA FlushOutType ==
    ASSUME TypeOK, FlushOut
    PROVE  /\ disk' \in Seq(Cell) /\ filsize' \in Nat
           /\ result' \in Results /\ failed' \in BOOLEAN
<1>1. CASE UNCHANGED <<disk, filsize, failed>> /\ result' = OK
    BY <1>1, OutcomeType DEF TypeOK
<1>2. CASE UNCHANGED <<disk, filsize>> /\ result' = FAILED /\ failed' = TRUE
    BY <1>2, OutcomeType DEF TypeOK
<1>3. ASSUME Writable(boffset),
             NEW r \in WriteResults(UOtop), FlushPage(UOtop, r),
             result' = IF r = ERR THEN FAILED ELSE OK,
             failed' = (failed \/ r = ERR)
      PROVE  /\ disk' \in Seq(Cell) /\ filsize' \in Nat
             /\ result' \in Results /\ failed' \in BOOLEAN
  <2>1. disk' \in Seq(Cell) /\ filsize' \in Nat
      BY <1>3, FlushPageType
  <2>2. failed' \in BOOLEAN
      BY <1>3
  <2>3. result' \in Results
      BY <1>3, OutcomeType
  <2> QED BY <2>1, <2>2, <2>3
<1> QED BY <1>1, <1>2, <1>3 DEF FlushOut

(***************************************************************************)
(* FLUSH and CLOSE keep the types.                                         *)
(***************************************************************************)
LEMMA CloseType ==
    ASSUME TypeOK, Close \/ Flush
    PROVE  TypeOK'
<1>1. /\ disk' \in Seq(Cell) /\ filsize' \in Nat
      /\ result' \in Results /\ failed' \in BOOLEAN
    BY FlushOutType DEF Close, Flush
<1>2. UNCHANGED call
    BY DEF Close, Flush
<1>3. UItop \in 0 .. BufSize /\ FlushedOtop \in 0 .. BufSize
    BY UpdatedTops, BufSizeAssumption DEF FlushedOtop
<1>4. CASE /\ itop' = UItop /\ otop' = FlushedOtop
           /\ UNCHANGED <<open, hasbuf, boffset, iop, mem>>
    BY <1>1, <1>2, <1>3, <1>4 DEF TypeOK
<1>5. CASE Release
  <2>1. mem' \in [Index -> Cell]
      BY <1>5 DEF Release, Cell
  <2>2. 0 \in 0 .. BufSize
      BY BufSizeAssumption
  <2>3. open' \in BOOLEAN /\ hasbuf' \in BOOLEAN
      BY <1>5 DEF Release
  <2>4. /\ boffset' \in Int /\ iop' \in Int
        /\ itop' \in 0 .. BufSize /\ otop' \in 0 .. BufSize
      BY <1>5, <2>2 DEF Release
  <2> QED BY <1>1, <1>2, <2>1, <2>3, <2>4 DEF TypeOK
<1> QED BY <1>4, <1>5 DEF Close, Flush

(***************************************************************************)
(* OPEN, FMKBFS, the two seeks and F_CANCEL only set pointers.             *)
(***************************************************************************)
LEMMA PointerType ==
    ASSUME TypeOK,
           \/ \E atEnd \in BOOLEAN : Open(atEnd)
           \/ NoPermission \/ FMkBfs \/ SeekEOF \/ Cancel
           \/ \E off \in 0 .. MaxOff : Seek(off)
    PROVE  TypeOK'
<1>1. 0 \in 0 .. BufSize
    BY BufSizeAssumption
<1>2. UItop \in 0 .. BufSize /\ UOtop \in 0 .. BufSize
    BY UpdatedTops
<1>3. FFilSz \in Nat
    BY <1>2, BufSizeAssumption DEF FFilSz, Max2, TypeOK
<1>4. LNote \in Int
    BY DEF LNote, TypeOK
<1>5. ASSUME NEW atEnd \in BOOLEAN, Open(atEnd) PROVE TypeOK'
  <2>1. filsize' \in Nat /\ iop' \in Int
      BY <1>5 DEF Open, TypeOK
  <2>2. open' \in BOOLEAN
      BY <1>5 DEF Open
  <2> QED BY <1>5, <2>1, <2>2, OutcomeType DEF Open, TypeOK
<1>6. CASE NoPermission
  <2>1. call' = NoCall /\ result' \in Results
      BY <1>6, OutcomeType DEF NoPermission
  <2>2. UNCHANGED <<disk, open, fdvars, failed>>
      BY <1>6 DEF NoPermission
  <2> QED BY <2>1, <2>2, NoCallType DEF TypeOK, fdvars
<1>7. CASE FMkBfs
  <2>1. call # NoCall
      BY <1>7 DEF FMkBfs, MayFill, MayStore, Reading, Writing, NoCall
  <2>2. CallTyped'
      BY <1>7, <2>1 DEF FMkBfs, TypeOK, CallTyped, Calls
  <2>3. mem' \in [Index -> Cell]
      BY <1>7 DEF FMkBfs, Cell
  <2>4. hasbuf' \in BOOLEAN
      BY <1>7 DEF FMkBfs
  <2>5. /\ boffset' \in Int /\ iop' \in Int
        /\ itop' \in 0 .. BufSize /\ otop' \in 0 .. BufSize
      BY <1>7, <1>1, <1>4 DEF FMkBfs
  <2>6. UNCHANGED <<disk, open, filsize, failed>> /\ result' \in Results
      BY <1>7, OutcomeType DEF FMkBfs
  <2> QED BY <2>2, <2>3, <2>4, <2>5, <2>6 DEF TypeOK, CallTyped
<1>8. ASSUME NEW off \in Int, SeekTo(off), filsize' \in Nat PROVE TypeOK'
  <2>1. /\ iop' \in Int /\ itop' \in 0 .. BufSize /\ otop' \in 0 .. BufSize
      BY <1>8, <1>2 DEF SeekTo, TypeOK
  <2>2. UNCHANGED <<disk, open, hasbuf, boffset, mem, call, failed>>
        /\ result' \in Results
      BY <1>8, OutcomeType DEF SeekTo
  <2> QED BY <1>8, <2>1, <2>2 DEF TypeOK
<1>9. CASE SeekEOF
  <2>1. FFilSz + 1 \in Int /\ filsize' \in Nat
      BY <1>9, <1>3 DEF SeekEOF
  <2> QED BY <1>9, <2>1, <1>8 DEF SeekEOF
<1>10. ASSUME NEW off \in 0 .. MaxOff, Seek(off) PROVE TypeOK'
  <2>1. off \in Int /\ filsize' \in Nat
      BY <1>10, BoundsAssumption DEF Seek, TypeOK
  <2> QED BY <1>10, <2>1, <1>8 DEF Seek
<1>11. CASE Cancel
    BY <1>11, <1>1, <1>4, OutcomeType DEF Cancel, TypeOK
<1> QED BY <1>5, <1>6, <1>7, <1>9, <1>10, <1>11

LEMMA StepType ==
  ASSUME TypeOK, [Next]_vars PROVE TypeOK'
<1>1. CASE UNCHANGED vars
    BY <1>1 DEF vars, TypeOK
<1>2. CASE GetC \/ (\E n \in 1 .. MaxXfer : Read(n))
  <2>1. Zero \in Cell /\ 1 \in Nat \ {0}
      BY DEF Cell
  <2>2. \A n \in 1 .. MaxXfer : n \in Nat \ {0}
      BY BoundsAssumption
  <2> QED BY <1>2, <2>1, <2>2, EnterType DEF GetC, Read
<1>3. CASE \/ \E ch \in Char : PutC(ch)
           \/ \E n \in 1 .. MaxXfer, ch \in Char : Write(n, ch)
  <2>1. Char \subseteq Cell /\ 1 \in Nat \ {0}
      BY DEF Cell
  <2>2. \A n \in 1 .. MaxXfer : n \in Nat \ {0}
      BY BoundsAssumption
  <2> QED BY <1>3, <2>1, <2>2, EnterType DEF PutC, Write
<1>4. CASE FilBuf
    BY <1>4, FilBufType
<1>5. CASE FlsBuf
    BY <1>5, FlsBufType
<1>6. CASE CopyOut
    BY <1>6, CopyOutType
<1>7. CASE CopyIn
    BY <1>7, CopyInType
<1>8. CASE Close \/ Flush
    BY <1>8, CloseType
<1>9. CASE \/ \E atEnd \in BOOLEAN : Open(atEnd)
           \/ NoPermission \/ FMkBfs \/ SeekEOF \/ Cancel
           \/ \E off \in 0 .. MaxOff : Seek(off)
    BY <1>9, PointerType
<1> QED BY <1>1, <1>2, <1>3, <1>4, <1>5, <1>6, <1>7, <1>8, <1>9 DEF Next

(***************************************************************************)
(* The pointers of a descriptor stay in its buffer and every call has      *)
(* something left to do (the whole of FIO's binary path).                  *)
(***************************************************************************)
THEOREM TypeCorrect == Spec => []TypeOK
<1>1. Init => TypeOK
    BY InitType
<1>2. TypeOK /\ [Next]_vars => TypeOK'
    BY StepType
<1> QED BY <1>1, <1>2, PTL DEF Spec
-----------------------------------------------------------------------------
(***************************************************************************)
(* The size FFILSZ reports covers FILSIZE and what is still in the buffer. *)
(***************************************************************************)
LEMMA FileSize ==
    ASSUME TypeOK
    PROVE  /\ FFilSz \in Nat /\ FFilSz >= filsize
           /\ Modified => FFilSz = Max2(filsize, boffset - 1 + UItop)
           /\ Modified => FFilSz >= boffset - 1 + UItop
           /\ ~Modified => FFilSz = filsize
BY UpdatedTops, BufSizeAssumption DEF FFilSz, Max2, TypeOK

(***************************************************************************)
(* What is written out of a placed buffer is all its valid data.           *)
(***************************************************************************)
LEMMA ModifiedPlaced ==
    ASSUME TypeOK, Placed, Modified
    PROVE  /\ hasbuf /\ ~call.fresh
           /\ UOtop = UItop
           /\ boffset = PageOf(boffset) /\ Writable(boffset)
<1>1. otop # 0
    BY BufSizeAssumption DEF Modified, UOtop, Full, TypeOK
<1>2. hasbuf /\ ~call.fresh
    BY <1>1 DEF Placed, Owned, Fresh
<1>3. UOtop = UItop
    BY <1>1, <1>2 DEF Placed, Tops, UOtop, UItop, Full
<1> QED BY <1>2, <1>3 DEF Placed, OnPage

(***************************************************************************)
(* Writing the buffer makes FILSIZE the size FFILSZ reported, whatever     *)
(* the device did.                                                         *)
(***************************************************************************)
LEMMA FlushedSize ==
    ASSUME TypeOK, Placed, open, Modified,
           NEW r \in WriteResults(UOtop), FlushPage(UOtop, r)
    PROVE  /\ filsize' = FFilSz
           /\ disk' \in Seq(Cell) /\ Len(disk') <= filsize'
<1>1. Writable(boffset) /\ UOtop = UItop
    BY ModifiedPlaced
<1>2. UOtop \in 0 .. BufSize
    BY UpdatedTops
<1>3. r = ERR \/ (r \in 0 .. BufSize /\ r <= UOtop)
    BY <1>2, BufSizeAssumption DEF WriteResults
<1>4. boffset \in Int /\ boffset >= 1
    BY <1>1 DEF TypeOK, Writable
<1>5. filsize' = Max2(filsize, boffset - 1 + UOtop)
    BY DEF FlushPage
<1>6. filsize' = FFilSz
    BY <1>1, <1>5, FileSize
<1>7. filsize \in Nat /\ Len(disk) <= filsize /\ disk \in Seq(Cell)
    BY DEF Placed, SizeCoversDisk, TypeOK
<1>8. CASE r = ERR
    BY <1>2, <1>4, <1>5, <1>6, <1>7, <1>8, BufSizeAssumption
    DEF FlushPage, Max2
<1>9. CASE r # ERR
  <2>1. /\ disk' \in Seq(Cell)
        /\ Len(disk') = IF r = 0 THEN Len(disk)
                        ELSE Max2(Len(disk), boffset - 1 + r)
      BY <1>3, <1>4, <1>9, DiskAfterType DEF FlushPage
  <2>2. Len(disk) \in Nat
      BY <1>7
  <2>3. Len(disk') <= filsize'
      BY <1>2, <1>3, <1>4, <1>5, <1>7, <1>9, <2>1, <2>2, BufSizeAssumption
      DEF Max2
  <2> QED BY <1>6, <2>1, <2>3
<1> QED BY <1>8, <1>9

(***************************************************************************)
(* UPDATE_IOP a second time changes nothing, wherever the pointer moved.   *)
(***************************************************************************)
LEMMA UpdateTwice ==
    ASSUME TypeOK, iop' \in Int, hasbuf' = hasbuf,
           itop' = UItop, otop' = UOtop
    PROVE  UItop' = UItop /\ UOtop' = UOtop
<1>1. UItop \in 0 .. BufSize
    BY UpdatedTops
<1>2. CASE Full
  <2>1. otop' = UItop /\ itop' = UItop
      BY <1>2 DEF UOtop
  <2>2. Max2(itop', iop') \in Int /\ Max2(itop', iop') >= UItop
      BY <1>1, <2>1 DEF Max2
  <2>3. UItop = BufSize => Min2(BufSize, Max2(itop', iop')) = BufSize
      BY <1>1, <2>2, BufSizeAssumption DEF Min2
  <2>4. UItop' = UItop
      BY <2>1, <2>3 DEF UItop, Full
  <2>5. UOtop' = UItop
      BY <2>1, <2>4 DEF UOtop
  <2> QED BY <1>2, <2>4, <2>5 DEF UOtop
<1>3. CASE ~Full
    BY <1>3 DEF UItop, UOtop, Full
<1> QED BY <1>2, <1>3

(***************************************************************************)
(* Where a file fault leaves the descriptor: on the page of the offset     *)
(* that caused it, or, if the buffer could not be written, where it was.   *)
(***************************************************************************)
FaultPlaced ==
    /\ Tops' /\ InFile'
    /\ boffset' = PageOf(boffset') /\ Writable(boffset)'

(***************************************************************************)
(* The page on which FFAULT lands is one the device accepts.               *)
(***************************************************************************)
LEMMA LandPlaced ==
    ASSUME TypeOK, NEW off \in Int, off >= 1, NEW forWrite \in BOOLEAN,
           NEW top \in 0 .. BufSize, NEW m,
           NEW size \in Nat, filsize' = size, off <= size + 1, hasbuf' = TRUE,
           \/ PageOf(off) - 1 + top <= size
           \/ forWrite /\ top = BufSize,
           Land(off, top, m, forWrite)
    PROVE  FaultPlaced
<1>1. /\ PageOf(off) \in Int /\ 1 <= PageOf(off) /\ PageOf(off) <= off
      /\ off < PageOf(off) + BufSize
      /\ PageOf(PageOf(off)) = PageOf(off)
    BY PageOfOffset
<1>2. /\ boffset' = PageOf(off) /\ iop' = off - PageOf(off)
      /\ itop' = top /\ otop' = IF forWrite THEN BufSize ELSE 0
    BY DEF Land
<1>3. boffset' = PageOf(boffset') /\ Writable(boffset)'
  <2>1. boffset' >= 1 /\ boffset' - 1 <= filsize'
      BY <1>1, <1>2
  <2>2. boffset' = PageOf(boffset')
      BY <1>1, <1>2
  <2> QED BY <2>1, <2>2 DEF Writable
<1>4. Tops'
    BY <1>2 DEF Tops
<1>5. LNote' = off
    BY <1>1, <1>2 DEF LNote
<1>6. /\ FFilSz' \in Nat /\ FFilSz' >= filsize'
      /\ boffset' - 1 + itop' <= FFilSz'
  <2>1. CASE forWrite
    <3>1. Full'
        BY <1>2, <2>1 DEF Full
    <3>2. UItop' \in Nat /\ UItop' >= top /\ UItop' <= BufSize
        BY <1>1, <1>2, <3>1, BufSizeAssumption DEF UItop, Min2, Max2
    <3>3. UOtop' = UItop'
        BY <3>1 DEF UOtop
    <3>4. FFilSz' = IF UItop' > 0 THEN Max2(filsize', boffset' - 1 + UItop')
                    ELSE filsize'
        BY <3>3 DEF FFilSz, Modified
    <3> QED BY <1>1, <1>2, <3>2, <3>4, BufSizeAssumption DEF Max2
  <2>2. CASE ~forWrite
    <3>1. UOtop' = 0
        BY <1>2, <2>2, BufSizeAssumption DEF UOtop, Full
    <3>2. FFilSz' = filsize'
        BY <3>1 DEF FFilSz, Modified
    <3> QED BY <1>1, <1>2, <2>2, <3>2, BufSizeAssumption
  <2> QED BY <2>1, <2>2
<1>7. InFile'
  <2>1. PICK ffilsz \in Nat : FFilSz' = ffilsz
      BY <1>6
  <2>2. off \in 1 .. ffilsz + 1 /\ boffset' - 1 + itop' <= ffilsz
      BY <1>6, <2>1
  <2> QED BY <1>5, <2>1, <2>2 DEF InFile
<1> QED BY <1>3, <1>4, <1>7 DEF FaultPlaced

(***************************************************************************)
(* The same after the page has been read, cleared or reserved (FFAULT).    *)
(***************************************************************************)
LEMMA PickUpPlaced ==
    ASSUME TypeOK, Careful, NEW off \in Int, off >= 1, NEW nreserve \in Nat,
           NEW forWrite \in BOOLEAN, forWrite \/ CanRead,
           NEW size \in Nat, filsize' = size, off <= size + 1,
           disk' \in Seq(Cell), Len(disk') <= size, hasbuf' = TRUE,
           PickUp(off, nreserve, forWrite)
    PROVE  FaultPlaced
<1> DEFINE page == PageOf(off)
           n    == CharsAt(page)
           top0 == IF BeyondEnd(page) THEN 0 ELSE BufSize
           m    == [i \in Index |-> IF i < n /\ page + i <= Len(disk')
                                    THEN disk'[page + i] ELSE mem[i]]
<1>1. page \in Int /\ page >= 1 /\ page <= off
    BY PageOfOffset
<1>2. n \in 0 .. BufSize /\ page - 1 + n <= size
  <2>1. Len(disk') \in Nat
      OBVIOUS
  <2>2. n = Max2(0, Min2(BufSize, Len(disk') - page + 1))
      BY DEF CharsAt
  <2> HIDE DEF page, n
  <2>3. n \in Int /\ 0 <= n /\ n <= BufSize
        /\ (n > 0 => n <= Len(disk') - page + 1)
      BY <1>1, <2>1, <2>2, BufSizeAssumption DEF Min2, Max2
  <2> QED BY <1>1, <2>1, <2>3, BufSizeAssumption
<1>3. /\ 0 \in 0 .. BufSize /\ page - 1 + 0 <= size
      /\ top0 \in 0 .. BufSize
    BY <1>1, BufSizeAssumption
<1>4. \/ Land(off, 0, mem, forWrite)
      \/ ~CanRead /\ Land(off, top0, Cleared, forWrite)
      \/ Land(off, n, m, forWrite)
    BY DEF PickUp, Careful
<1>5. top0 = 0 \/ top0 = BufSize
    OBVIOUS
<1> HIDE DEF page, n, top0, m
<1>6. CASE Land(off, 0, mem, forWrite)
    BY <1>3, <1>6, LandPlaced DEF page
<1>7. CASE ~CanRead /\ Land(off, top0, Cleared, forWrite)
    BY <1>3, <1>5, <1>7, LandPlaced DEF page
<1>8. CASE Land(off, n, m, forWrite)
    BY <1>2, <1>8, LandPlaced DEF page
<1> QED BY <1>4, <1>6, <1>7, <1>8

(***************************************************************************)
(* A fault at a position within the file leaves the buffer placed          *)
(* (FFAULT).                                                               *)
(***************************************************************************)
LEMMA FFaultPlaced ==
    ASSUME TypeOK, Careful, Placed, open, hasbuf, hasbuf' = hasbuf,
           NEW nreserve \in Nat,
           NEW forWrite \in BOOLEAN, forWrite \/ CanRead,
           FFault(LNote, nreserve, forWrite)
    PROVE  FaultPlaced /\ Len(disk') <= filsize'
<1>1. /\ LNote \in Int /\ LNote >= 1 /\ LNote <= FFilSz + 1
      /\ FFilSz \in Nat /\ filsize \in Nat
    BY FileSize DEF Placed, InFile, LNote, TypeOK
<1>2. disk \in Seq(Cell) /\ Len(disk) <= filsize
    BY DEF TypeOK, Placed, SizeCoversDisk
<1>3. CASE LNote <= 0 \/ (Modified /\ ~Writable(boffset))
    BY <1>1, <1>3, ModifiedPlaced
<1>4. CASE /\ LNote > 0 /\ ~Modified
           /\ UNCHANGED <<disk, filsize>>
           /\ PickUp(LNote, nreserve, forWrite)
  <2>1. FFilSz = filsize
      BY <1>4, FileSize
  <2>2. filsize' = filsize /\ disk' = disk
      BY <1>4
  <2>3. PickUp(LNote, nreserve, forWrite)
      BY <1>4
  <2>4. FaultPlaced
      BY <1>1, <1>2, <2>1, <2>2, <2>3, PickUpPlaced
  <2> QED BY <1>2, <2>2, <2>4
<1>5. ASSUME Modified, NEW r \in WriteResults(UOtop), FlushPage(UOtop, r),
             IF r = ERR THEN WriteFailed
             ELSE PickUp(LNote, nreserve, forWrite)
      PROVE  FaultPlaced /\ Len(disk') <= filsize'
  <2>1. filsize' = FFilSz /\ disk' \in Seq(Cell) /\ Len(disk') <= filsize'
      BY <1>5, FlushedSize
  <2>2. CASE PickUp(LNote, nreserve, forWrite)
      BY <1>1, <2>1, <2>2, PickUpPlaced
  <2>3. CASE WriteFailed
    <3>1. itop' = UItop /\ otop' = 0 /\ UNCHANGED <<boffset, iop>>
        BY <2>3 DEF WriteFailed
    <3>2. /\ boffset = PageOf(boffset) /\ Writable(boffset)
          /\ FFilSz >= boffset - 1 + UItop
        BY <1>5, ModifiedPlaced, FileSize
    <3>3. FFilSz' = filsize'
        BY <3>1, BufSizeAssumption DEF FFilSz, Modified, UOtop, Full
    <3>4. Tops' /\ InFile'
        BY <1>1, <2>1, <3>1, <3>2, <3>3 DEF Tops, InFile, LNote
    <3>5. boffset' = PageOf(boffset') /\ Writable(boffset)'
        BY <1>1, <2>1, <3>1, <3>2, FileSize DEF Writable, TypeOK
    <3> QED BY <2>1, <3>4, <3>5 DEF FaultPlaced
  <2> QED BY <1>5, <2>2, <2>3
<1> QED BY <1>3, <1>4, <1>5 DEF FFault
-----------------------------------------------------------------------------
(***************************************************************************)
(* Each operation keeps a buffer placed.                                   *)
(***************************************************************************)
LEMMA InitPlaced == Init => Placed
<1> SUFFICES ASSUME Init PROVE Placed
    OBVIOUS
<1>1. /\ ~open /\ ~hasbuf /\ boffset = 1 /\ iop = 0 /\ itop = 0 /\ otop = 0
      /\ filsize = 0 /\ call = NoCall
    BY DEF Init
<1>2. ~call.fresh
    BY <1>1 DEF NoCall
<1>3. FFilSz = 0 /\ LNote = 1
    BY <1>1 DEF FFilSz, Modified, UOtop, Full, LNote
<1> QED BY <1>1, <1>2, <1>3
        DEF Placed, Owned, Tops, Fresh, OnPage, InFile, SizeCoversDisk

(***************************************************************************)
(* Entering a call, or refusing it, moves nothing.                         *)
(***************************************************************************)
LEMMA CallPlaced ==
    ASSUME TypeOK, Placed, NoPermission \/ open,
           UNCHANGED <<disk, open, fdvars>>, ~call'.fresh,
           ~call.fresh
    PROVE  Placed'
<1>1. UNCHANGED <<Modified, FFilSz, LNote>>
    BY DEF fdvars, Modified, UOtop, UItop, Full, FFilSz, LNote, Writable
<1>2. open' => open
    OBVIOUS
<1>3. open'
    BY DEF Placed, Owned, NoPermission, Reading, Writing, NoCall
<1> QED BY <1>1, <1>2, <1>3
        DEF Placed, Owned, Tops, Fresh, OnPage, InFile, SizeCoversDisk,
            fdvars, Writable

(***************************************************************************)
(* A buffer already used by a call has been on a page (FMKBFS, FLSBUF).    *)
(***************************************************************************)
LEMMA NotFresh ==
    ASSUME TypeOK, Placed, Idle \/ NoPermission \/ CopyOut \/ CopyIn
    PROVE  ~call.fresh /\ open
<1>1. CASE Idle
    BY <1>1 DEF Idle, NoCall
<1>2. CASE NoPermission \/ CopyOut \/ CopyIn
  <2>1. call # NoCall
      BY <1>2 DEF NoPermission, CopyOut, CopyIn, Reading, Writing, NoCall
  <2>2. CASE call.fresh
    <3>1. itop = 0 /\ otop = 0 /\ (MayFill \/ MayStore)
        BY <2>2 DEF Placed, Fresh
    <3>2. ~InData /\ ~InRoom
        BY <3>1 DEF InData, InRoom, TypeOK
    <3> QED BY <1>2, <3>1, <3>2
            DEF NoPermission, CopyOut, CopyIn, MayFill, MayStore,
                Reading, Writing
  <2> QED BY <2>1, <2>2 DEF Placed, Owned
<1> QED BY <1>1, <1>2

(***************************************************************************)
(* Entering a call moves no pointer.                                       *)
(***************************************************************************)
LEMMA EnterPlaced ==
    ASSUME TypeOK, Placed,
           \/ NoPermission
           \/ \E op \in {"getc", "read", "putc", "write"},
                 max \in Nat, ch \in Cell : Enter(op, max, ch)
    PROVE  Placed'
<1>1. /\ Idle \/ NoPermission
      /\ UNCHANGED <<disk, open, fdvars>>
      /\ ~call'.fresh
    BY DEF Enter, NoPermission, Call, NoCall
<1> QED BY <1>1, NotFresh, CallPlaced

(***************************************************************************)
(* A descriptor just opened has no buffer and stands within the file       *)
(* (FILOPN).                                                               *)
(***************************************************************************)
LEMMA OpenPlaced ==
    ASSUME TypeOK, Placed, NEW atEnd \in BOOLEAN, Open(atEnd)
    PROVE  Placed'
<1>1. /\ ~hasbuf /\ boffset = 1 /\ itop = 0 /\ otop = 0
      /\ call = NoCall
    BY DEF Open, Placed, Owned
<1>2. ~call.fresh
    BY <1>1 DEF NoCall
<1>3. PICK n \in Nat : Len(disk) = n
    BY DEF TypeOK
<1>4. filsize' = n /\ LNote' \in 1 .. n + 1 /\ FFilSz' = n
    BY <1>1, <1>3
    DEF Open, LNote, FFilSz, Modified, UOtop, Full
<1> QED BY <1>1, <1>2, <1>3, <1>4
        DEF Open, Placed, Owned, Tops, Fresh, OnPage, InFile, SizeCoversDisk

(***************************************************************************)
(* A new buffer is on no page until its first fault (FMKBFS).              *)
(***************************************************************************)
LEMMA FMkBfsPlaced ==
    ASSUME TypeOK, Placed, FMkBfs
    PROVE  Placed'
<1>1. /\ ~hasbuf /\ itop = 0 /\ otop = 0
      /\ call # NoCall /\ open
    BY DEF FMkBfs, Placed, Owned, MayFill, MayStore, Reading, Writing, NoCall
<1>2. FFilSz = filsize /\ filsize \in Nat
    BY <1>1 DEF FFilSz, Modified, UOtop, Full, TypeOK
<1>3. PICK off \in Int : LNote = off
    BY DEF LNote, TypeOK
<1>4. boffset' = 0 /\ iop' = off /\ filsize' = filsize
      /\ itop' = 0 /\ otop' = 0 /\ hasbuf' = TRUE
    BY <1>3 DEF FMkBfs
<1>5. LNote' = off
    BY <1>4 DEF LNote
<1>6. FFilSz' = filsize
    BY <1>4, BufSizeAssumption DEF FFilSz, Modified, UOtop, Full
<1>7. InFile'
  <2>1. off \in 1 .. filsize + 1
      BY <1>2, <1>3 DEF Placed, InFile
  <2>2. boffset' - 1 + itop' <= filsize
      BY <1>2, <1>4
  <2> QED BY <1>5, <1>6, <2>1, <2>2 DEF InFile
<1>8. call' # NoCall /\ call'.fresh /\ (MayFill \/ MayStore)'
    BY DEF FMkBfs, TypeOK, Calls, NoCall, MayFill, MayStore, Reading, Writing
<1>9. UNCHANGED <<disk, open, filsize>>
    BY DEF FMkBfs
<1> QED BY <1>1, <1>4, <1>7, <1>8, <1>9
        DEF Placed, Owned, Tops, Fresh, OnPage, SizeCoversDisk

(***************************************************************************)
(* FILBUF and FLSBUF: a file fault, or room opened in the same buffer.     *)
(***************************************************************************)
LEMMA FilBufPlaced ==
    ASSUME TypeOK, Careful, Placed, FilBuf
    PROVE  Placed'
<1>1. call # NoCall /\ hasbuf /\ hasbuf' = hasbuf /\ open' = open /\ CanRead
    BY DEF FilBuf, MayFill, Reading, NoCall
<1>2. open
    BY <1>1 DEF Placed, Owned
<1>3. FFault(LNote, 0, FALSE)
    BY DEF FilBuf
<1>4. FaultPlaced /\ Len(disk') <= filsize'
    BY <1>1, <1>2, <1>3, FFaultPlaced
<1>5. ~call'.fresh
  <2>1. CASE result'.st # "ok"
      BY <2>1 DEF FilBuf, NoCall
  <2>2. CASE result'.st = "ok"
    <3>1. call' = [call EXCEPT !.fresh = FALSE, !.lim = NewLim]
        BY <2>2 DEF FilBuf
    <3> QED BY <3>1 DEF TypeOK, Calls
  <2> QED BY <2>1, <2>2
<1> QED BY <1>1, <1>2, <1>4, <1>5
        DEF FaultPlaced, Placed, Owned, Fresh, OnPage, SizeCoversDisk

(***************************************************************************)
(* FLSBUF leaves the buffer placed, with or without a fault.               *)
(***************************************************************************)
LEMMA FlsBufPlaced ==
    ASSUME TypeOK, Careful, Placed, FlsBuf
    PROVE  Placed'
<1>1. call # NoCall /\ hasbuf /\ hasbuf' = hasbuf /\ open' = open
    BY DEF FlsBuf, MayStore, Writing, NoCall
<1>2. open
    BY <1>1 DEF Placed, Owned
<1>3. ~call'.fresh
    BY DEF FlsBuf, NoCall, TypeOK, Calls
<1>4. CASE InPage
  <2>1. /\ otop' = BufSize
        /\ UNCHANGED <<disk, boffset, iop, itop, filsize>>
        /\ ~call.fresh /\ iop \in Index /\ otop < BufSize
      BY <1>4 DEF FlsBuf, InPage
  <2>2. boffset = PageOf(boffset) /\ Writable(boffset)
      BY <1>1, <2>1 DEF Placed, OnPage
  <2>3. /\ LNote \in Int /\ LNote >= 1 /\ LNote <= FFilSz + 1
        /\ boffset - 1 + itop <= FFilSz /\ FFilSz \in Nat
        /\ filsize \in Nat
      BY <1>1, FileSize DEF Placed, InFile, TypeOK, LNote
  <2>4. UItop' = Max2(itop, iop)
      BY <1>1, <2>1, BufSizeAssumption
      DEF UItop, Full, Min2, Max2, Index, TypeOK
  <2>5. UOtop' = UItop'
      BY <1>1, <2>1 DEF UOtop, Full
  <2>6. PICK u \in 0 .. BufSize : Max2(itop, iop) = u
      BY <2>1, BufSizeAssumption DEF Max2, TypeOK, Index
  <2>7. itop <= u /\ iop <= u
      BY <2>1, <2>6, BufSizeAssumption DEF Max2, TypeOK, Index
  <2>8. FFilSz' = IF u > 0 THEN Max2(filsize, boffset - 1 + u) ELSE filsize
      BY <2>1, <2>4, <2>5, <2>6 DEF FFilSz, Modified
  <2>9. FFilSz = filsize \/ FFilSz = Max2(filsize, boffset - 1 + itop)
    <3>1. ~Full
        BY <2>1, BufSizeAssumption DEF Full, TypeOK
    <3> QED BY <3>1 DEF FFilSz, UItop
  <2>10. LNote' = boffset + iop /\ LNote = boffset + iop
      BY <2>1 DEF LNote
  <2>11. PICK size \in Nat : FFilSz' = size
      BY <2>2, <2>3, <2>6, <2>8, BufSizeAssumption DEF Max2, TypeOK
  <2>12. /\ filsize <= size
         /\ boffset - 1 + u <= size
    <3>1. CASE u > 0
        BY <2>3, <2>6, <2>8, <2>11, <3>1, BufSizeAssumption DEF Max2, TypeOK
    <3>2. CASE u = 0
        BY <2>2, <2>3, <2>8, <2>11, <3>2 DEF Writable, TypeOK
    <3> QED BY <2>6, <3>1, <3>2, BufSizeAssumption
  <2>13. boffset + iop \in 1 .. size + 1 /\ boffset - 1 + itop <= size
      BY <2>1, <2>3, <2>6, <2>7, <2>10, <2>12, BufSizeAssumption
      DEF TypeOK, Index
  <2>14. InFile'
      BY <2>1, <2>10, <2>11, <2>13 DEF InFile
  <2>15. OnPage' /\ Tops' /\ SizeCoversDisk'
      BY <1>2, <2>1, <2>2 DEF OnPage, Tops, Writable, Placed, SizeCoversDisk
  <2> QED BY <1>1, <1>2, <1>3, <2>14, <2>15 DEF Placed, Owned, Fresh
<1>5. CASE ~InPage
  <2> DEFINE nreserve == IF call.op = "write" THEN call.max - call.n ELSE 0
  <2>1. nreserve \in Nat
      BY <1>1 DEF TypeOK, Calls
  <2>2. FFault(LNote, nreserve, TRUE)
      BY <1>5 DEF FlsBuf
  <2> HIDE DEF nreserve
  <2>3. FaultPlaced /\ Len(disk') <= filsize'
      BY <1>1, <1>2, <2>1, <2>2, FFaultPlaced
  <2> QED BY <1>1, <1>2, <1>3, <2>3
          DEF FaultPlaced, Placed, Owned, Fresh, OnPage, SizeCoversDisk
<1> QED BY <1>4, <1>5

(***************************************************************************)
(* READ and WRITE move the pointer within the buffer; what WRITE passes    *)
(* over becomes valid.                                                     *)
(***************************************************************************)
LEMMA CopyOutPlaced ==
    ASSUME TypeOK, Placed, CopyOut
    PROVE  Placed'
<1> DEFINE k == Min2(call.lim - call.n, itop - iop)
<1>1. ~call.fresh /\ open /\ call # NoCall
    BY NotFresh DEF CopyOut, Reading, NoCall
<1>2. call \in Calls /\ call.n < call.lim
    BY <1>1 DEF TypeOK
<1>3. /\ iop \in Nat /\ itop \in Nat /\ iop < itop /\ itop <= BufSize
    BY BufSizeAssumption DEF CopyOut, InData, TypeOK
<1>4. k \in Nat /\ k <= itop - iop
    BY <1>2, <1>3 DEF Min2, Calls
<1>5. /\ iop' = iop + k
      /\ UNCHANGED <<disk, open, hasbuf, boffset, itop, otop, filsize>>
      /\ ~call'.fresh
    BY <1>1, <1>2 DEF CopyOut, NoCall, Calls
<1> HIDE DEF k
<1>6. hasbuf
    BY <1>3 DEF Placed, Owned
<1>7. UItop' = UItop
  <2>1. CASE Full
    <3>1. Full'
        BY <1>5, <2>1 DEF Full
    <3>2. Max2(itop, iop) = itop /\ Max2(itop, iop + k) = itop
        BY <1>3, <1>4 DEF Max2
    <3> QED BY <1>5, <2>1, <3>1, <3>2 DEF UItop
  <2>2. CASE ~Full
      BY <1>5, <2>2 DEF UItop, Full
  <2> QED BY <2>1, <2>2
<1>8. UNCHANGED <<UOtop, FFilSz>>
    BY <1>5, <1>7 DEF UOtop, Full, FFilSz, Modified
<1>9. InFile'
  <2>1. PICK size \in Nat : FFilSz = size
      BY FileSize
  <2>2. boffset - 1 + itop <= size /\ LNote \in 1 .. size + 1
      BY <1>6, <2>1 DEF Placed, InFile
  <2>3. boffset + (iop + k) \in 1 .. size + 1
      BY <1>3, <1>4, <2>2 DEF LNote, TypeOK
  <2> QED BY <1>5, <1>8, <2>1, <2>2, <2>3 DEF InFile, LNote
<1> QED BY <1>1, <1>5, <1>9
        DEF Placed, Owned, Tops, Fresh, OnPage, SizeCoversDisk, Writable

(***************************************************************************)
(* Storing characters below otop stays on the page (PUTC, WRITE).          *)
(***************************************************************************)
LEMMA CopyInPlaced ==
    ASSUME TypeOK, Placed, CopyIn
    PROVE  Placed'
<1> DEFINE k == Min2(call.lim - call.n, otop - iop)
<1>1. ~call.fresh /\ open /\ call # NoCall
    BY NotFresh DEF CopyIn, Writing, NoCall
<1>2. call \in Calls /\ call.n < call.lim
    BY <1>1 DEF TypeOK
<1>3. /\ iop \in Nat /\ otop \in Nat /\ iop < otop /\ otop <= BufSize
      /\ itop \in Nat /\ itop <= BufSize
    BY BufSizeAssumption DEF CopyIn, InRoom, TypeOK
<1>4. k \in Nat /\ 1 <= k /\ k <= otop - iop
    BY <1>2, <1>3 DEF Min2, Calls
<1>5. /\ iop' = iop + k
      /\ UNCHANGED <<disk, open, hasbuf, boffset, itop, otop, filsize>>
      /\ ~call'.fresh
    BY <1>1, <1>2 DEF CopyIn, NoCall, Calls
<1> HIDE DEF k
<1>6. hasbuf
    BY <1>3 DEF Placed, Owned
<1>7. /\ boffset = PageOf(boffset) /\ boffset \in Int /\ boffset >= 1
      /\ filsize \in Nat
    BY <1>1, <1>6 DEF Placed, OnPage, TypeOK, Writable
<1>8. PICK u \in 1 .. BufSize : /\ UItop' = u /\ UOtop' = u
                                /\ itop <= u /\ iop + k <= u
  <2>1. CASE otop = BufSize
    <3>1. Full'
        BY <1>5, <1>6, <2>1 DEF Full
    <3>2. UItop' = Min2(BufSize, Max2(itop, iop + k)) /\ UOtop' = UItop'
        BY <1>5, <3>1 DEF UItop, UOtop
    <3>3. Min2(BufSize, Max2(itop, iop + k)) = Max2(itop, iop + k)
        BY <1>3, <1>4, <2>1, BufSizeAssumption DEF Min2, Max2
    <3>4. /\ Max2(itop, iop + k) \in 1 .. BufSize
          /\ itop <= Max2(itop, iop + k) /\ iop + k <= Max2(itop, iop + k)
        BY <1>3, <1>4, <2>1, BufSizeAssumption DEF Max2
    <3> QED BY <3>2, <3>3, <3>4
  <2>2. CASE otop # BufSize
    <3>1. otop = itop
        BY <1>3, <2>2 DEF Placed, Tops
    <3>2. UItop' = itop /\ UOtop' = itop
        BY <1>5, <2>2, <3>1 DEF UItop, UOtop, Full
    <3>3. itop \in 1 .. BufSize /\ iop + k <= itop
        BY <1>3, <1>4, <3>1, BufSizeAssumption
    <3> QED BY <1>3, <3>2, <3>3
  <2> QED BY <2>1, <2>2
<1>9. FFilSz' = Max2(filsize, boffset - 1 + u)
  <2>1. Modified'
      BY <1>8, BufSizeAssumption DEF Modified
  <2> QED BY <1>5, <1>8, <2>1 DEF FFilSz
<1>10. PICK size \in Nat : /\ FFilSz' = size
                           /\ boffset - 1 + u <= size
    BY <1>7, <1>8, <1>9, BufSizeAssumption DEF Max2
<1>11. InFile'
  <2>1. boffset - 1 + itop <= size
      BY <1>3, <1>7, <1>8, <1>10, BufSizeAssumption
  <2>2. boffset + (iop + k) \in 1 .. size + 1
      BY <1>3, <1>4, <1>7, <1>8, <1>10, BufSizeAssumption
  <2> QED BY <1>5, <1>10, <2>1, <2>2 DEF InFile, LNote
<1> QED BY <1>1, <1>5, <1>11
        DEF Placed, Owned, Tops, Fresh, OnPage, SizeCoversDisk, Writable

(***************************************************************************)
(* SEEK within the file, and to its end.                                   *)
(***************************************************************************)
LEMMA SeekPlaced ==
    ASSUME TypeOK, Placed, Idle, NEW off \in Int,
           off \in 1 .. FFilSz + 1, SeekTo(off),
           filsize' = filsize \/ filsize' = FFilSz
    PROVE  Placed'
<1>1. ~call.fresh /\ open
    BY NotFresh
<1>2. /\ iop' = off - boffset /\ itop' = UItop /\ otop' = UOtop
      /\ UNCHANGED <<disk, open, hasbuf, boffset, call>>
    BY DEF SeekTo
<1>3. boffset \in Int /\ off - boffset \in Int /\ filsize \in Nat
    BY DEF TypeOK
<1>4. iop' \in Int
    BY <1>2, <1>3
<1>5. UItop' = UItop /\ UOtop' = UOtop
    BY <1>2, <1>4, UpdateTwice
<1>6. PICK size \in Nat : FFilSz = size /\ filsize <= size
    BY FileSize
<1>7. PICK u \in 0 .. BufSize : UItop = u
    BY UpdatedTops
<1>8. FFilSz' = size
  <2>1. CASE Modified
    <3>1. size = Max2(filsize, boffset - 1 + u)
        BY <1>6, <1>7, <2>1, FileSize
    <3>2. Max2(size, boffset - 1 + u) = size
        BY <1>3, <1>6, <1>7, <3>1, BufSizeAssumption DEF Max2
    <3>3. FFilSz' = Max2(filsize', boffset - 1 + u)
        BY <1>2, <1>5, <1>7, <2>1 DEF FFilSz, Modified
    <3>4. filsize' = filsize \/ filsize' = size
        BY <1>6
    <3> QED BY <3>1, <3>2, <3>3, <3>4
  <2>2. CASE ~Modified
      BY <1>5, <1>6, <2>2 DEF FFilSz, Modified
  <2> QED BY <2>1, <2>2
<1>9. hasbuf => boffset - 1 + u <= size
  <2>1. CASE Modified
      BY <1>6, <1>7, <2>1, FileSize
  <2>2. CASE hasbuf /\ ~Modified /\ Full
    <3>1. u = 0
        BY <1>7, <2>2, BufSizeAssumption DEF Modified, UOtop
    <3>2. boffset - 1 <= filsize
        BY <1>1, <2>2 DEF Placed, OnPage, Writable
    <3> QED BY <1>3, <1>6, <3>1, <3>2
  <2>3. CASE hasbuf /\ ~Full
      BY <1>6, <1>7, <2>3 DEF Placed, InFile, UItop
  <2> QED BY <2>1, <2>2, <2>3
<1>10. InFile'
  <2>1. LNote' = off
      BY <1>2, <1>3 DEF LNote
  <2>2. off \in 1 .. size + 1
      BY <1>6
  <2> QED BY <1>2, <1>7, <1>8, <1>9, <2>1, <2>2 DEF InFile
<1>11. Tops'
    BY <1>2, UpdatedTops DEF Tops, Placed, UItop, UOtop, Full
<1>12. Owned'
    BY <1>2, <1>1 DEF Owned, Placed, UItop, UOtop, Full
<1>13. OnPage' /\ SizeCoversDisk'
  <2>1. PICK f \in Nat : filsize' = f /\ filsize <= f
      BY <1>3, <1>6
  <2>2. Len(disk) \in Nat /\ Len(disk) <= f
      BY <1>1, <1>3, <2>1 DEF Placed, SizeCoversDisk, TypeOK
  <2>3. SizeCoversDisk'
      BY <1>2, <2>1, <2>2 DEF SizeCoversDisk
  <2>4. CASE hasbuf
    <3>1. boffset = PageOf(boffset) /\ boffset >= 1 /\ boffset - 1 <= filsize
        BY <1>1, <2>4 DEF Placed, OnPage, Writable
    <3>2. boffset - 1 <= f
        BY <1>3, <2>1, <3>1
    <3> QED BY <1>2, <2>1, <2>3, <3>1, <3>2 DEF OnPage, Writable
  <2>5. CASE ~hasbuf
      BY <1>2, <2>3, <2>5 DEF OnPage
  <2> QED BY <2>4, <2>5
<1> QED BY <1>1, <1>2, <1>10, <1>11, <1>12, <1>13 DEF Placed, Fresh

(***************************************************************************)
(* FLUSH and CLOSE write a modified buffer on its page.                    *)
(***************************************************************************)
LEMMA FlushPlaced ==
    ASSUME TypeOK, Placed, Idle, FlushOut,
           itop' = UItop, otop' = FlushedOtop,
           UNCHANGED <<open, hasbuf, boffset, iop, call>>
    PROVE  Placed'
<1>1. ~call.fresh /\ open
    BY NotFresh
<1>2. otop' = 0
  <2>1. CASE Modified
      BY <2>1, ModifiedPlaced DEF FlushedOtop
  <2>2. CASE ~Modified
      BY <2>2, UpdatedTops, BufSizeAssumption DEF FlushedOtop, Modified
  <2> QED BY <2>1, <2>2
<1>3. filsize' = FFilSz /\ Len(disk') <= filsize'
  <2>1. CASE Modified
    <3>1. PICK r \in WriteResults(UOtop) : FlushPage(UOtop, r)
        BY <2>1, ModifiedPlaced DEF FlushOut
    <3> QED BY <1>1, <2>1, <3>1, FlushedSize
  <2>2. CASE ~Modified
      BY <1>1, <2>2, FileSize DEF FlushOut, Placed, SizeCoversDisk
  <2> QED BY <2>1, <2>2
<1>4. PICK size \in Nat : FFilSz = size /\ filsize <= size
    BY FileSize
<1>5. FFilSz' = size
    BY <1>2, <1>3, <1>4, BufSizeAssumption DEF FFilSz, Modified, UOtop, Full
<1>6. PICK u \in 0 .. BufSize : UItop = u
    BY UpdatedTops
<1>7. boffset \in Int /\ filsize \in Nat
    BY DEF TypeOK
<1>8. hasbuf => boffset - 1 + u <= size
  <2>1. CASE Modified
      BY <1>4, <1>6, <2>1, FileSize
  <2>2. CASE hasbuf /\ ~Modified /\ Full
    <3>1. u = 0
        BY <1>6, <2>2, BufSizeAssumption DEF Modified, UOtop
    <3>2. boffset - 1 <= filsize
        BY <1>1, <2>2 DEF Placed, OnPage, Writable
    <3> QED BY <1>4, <1>7, <3>1, <3>2
  <2>3. CASE hasbuf /\ ~Full
      BY <1>4, <1>6, <2>3 DEF Placed, InFile, UItop
  <2> QED BY <2>1, <2>2, <2>3
<1>9. InFile'
  <2>1. LNote' = LNote
      BY DEF LNote
  <2>2. LNote \in 1 .. size + 1
      BY <1>4 DEF Placed, InFile
  <2> QED BY <1>5, <1>6, <1>8, <2>1, <2>2 DEF InFile
<1>10. Owned' /\ Tops'
    BY <1>1, <1>2 DEF Owned, Tops, Placed, UItop, Full
<1>11. OnPage'
  <2>1. CASE hasbuf
    <3>1. boffset = PageOf(boffset) /\ boffset >= 1 /\ boffset - 1 <= filsize
        BY <1>1, <2>1 DEF Placed, OnPage, Writable
    <3>2. boffset - 1 <= size
        BY <1>4, <1>7, <3>1
    <3> QED BY <1>3, <1>4, <3>1, <3>2 DEF OnPage, Writable
  <2>2. CASE ~hasbuf
      BY <2>2 DEF OnPage
  <2> QED BY <2>1, <2>2
<1> QED BY <1>1, <1>3, <1>9, <1>10, <1>11
        DEF Placed, Fresh, SizeCoversDisk

(***************************************************************************)
(* A closed descriptor has no buffer (FRMBFS).                             *)
(***************************************************************************)
LEMMA ReleasePlaced ==
    ASSUME filsize' \in Nat, call' = NoCall, Release
    PROVE  Placed'
<1>1. /\ ~open' /\ ~hasbuf' /\ boffset' = 1 /\ iop' = 0
      /\ itop' = 0 /\ otop' = 0
    BY DEF Release
<1>2. PICK size \in Nat : filsize' = size
    OBVIOUS
<1>3. FFilSz' = size /\ LNote' = 1
    BY <1>1, <1>2 DEF FFilSz, Modified, UOtop, Full, LNote
<1>4. InFile'
    BY <1>1, <1>2, <1>3 DEF InFile
<1> QED BY <1>1, <1>4
        DEF Placed, Owned, Tops, Fresh, OnPage, SizeCoversDisk, NoCall

(***************************************************************************)
(* FLUSH and CLOSE leave the buffer placed.                                *)
(***************************************************************************)
LEMMA ClosePlaced ==
    ASSUME TypeOK, Placed, Flush \/ Close
    PROVE  Placed'
<1>1. Idle /\ FlushOut /\ UNCHANGED call
    BY DEF Flush, Close
<1>2. CASE Release
  <2>1. filsize' \in Nat /\ call' = NoCall
      BY <1>1, FlushOutType DEF Idle
  <2> QED BY <1>2, <2>1, ReleasePlaced
<1>3. CASE /\ itop' = UItop /\ otop' = FlushedOtop
           /\ UNCHANGED <<open, hasbuf, boffset, iop>>
    BY <1>1, <1>3, FlushPlaced
<1> QED BY <1>2, <1>3 DEF Flush, Close

(***************************************************************************)
(* The buffer stays placed, for a program that seeks within the file only  *)
(* and a device that does not fail to read.                                *)
(***************************************************************************)
LEMMA StepPlaced ==
    ASSUME Careful, TypeOK, Placed, [Next]_vars
    PROVE  Placed'
<1>1. CASE UNCHANGED vars
  <2>1. UNCHANGED <<LNote, FFilSz>>
      BY <1>1 DEF vars, LNote, FFilSz, Modified, UOtop, UItop, Full
  <2> QED BY <1>1, <2>1
          DEF vars, Placed, Owned, Tops, Fresh, OnPage, InFile,
              SizeCoversDisk, Writable, MayFill, MayStore, Reading, Writing
<1>2. CASE \/ GetC \/ NoPermission
           \/ \E n \in 1 .. MaxXfer : Read(n)
           \/ \E ch \in Char : PutC(ch)
           \/ \E n \in 1 .. MaxXfer, ch \in Char : Write(n, ch)
  <2>1. /\ Char \subseteq Cell /\ Zero \in Cell /\ 1 \in Nat
        /\ 1 .. MaxXfer \subseteq Nat
      BY BoundsAssumption DEF Cell
  <2> QED BY <1>2, <2>1, EnterPlaced DEF GetC, Read, PutC, Write
<1>3. ASSUME NEW atEnd \in BOOLEAN, Open(atEnd) PROVE Placed'
    BY <1>3, OpenPlaced
<1>4. CASE FMkBfs
    BY <1>4, FMkBfsPlaced
<1>5. CASE FilBuf
    BY <1>5, FilBufPlaced
<1>6. CASE FlsBuf
    BY <1>6, FlsBufPlaced
<1>7. CASE CopyOut
    BY <1>7, CopyOutPlaced
<1>8. CASE CopyIn
    BY <1>8, CopyInPlaced
<1>9. ASSUME NEW off \in 0 .. MaxOff, Seek(off) PROVE Placed'
  <2>1. off \in Int /\ off \in 1 .. FFilSz + 1
      BY <1>9, BoundsAssumption DEF Seek, Careful
  <2> QED BY <1>9, <2>1, SeekPlaced DEF Seek
<1>10. CASE SeekEOF
  <2>1. FFilSz + 1 \in Int /\ FFilSz + 1 \in 1 .. FFilSz + 1
      BY FileSize
  <2> QED BY <1>10, <2>1, SeekPlaced DEF SeekEOF
<1>11. CASE Flush \/ Close
    BY <1>11, ClosePlaced
<1>12. CASE Cancel
    BY <1>12 DEF Cancel, Careful
<1> QED BY <1>1, <1>2, <1>3, <1>4, <1>5, <1>6, <1>7, <1>8, <1>9, <1>10,
           <1>11, <1>12 DEF Next

(***************************************************************************)
(* The inductive invariant behind the two theorems below: the buffer lies  *)
(* on a page within the file, and FILSIZE, the pointers and the position   *)
(* agree, after any sequence of calls of a careful program.                *)
(***************************************************************************)
THEOREM PlacedInvariant ==
    ASSUME Careful
    PROVE  Spec => []Placed
<1>1. Init => Placed
    BY InitPlaced
<1>2. TypeOK /\ Placed /\ [Next]_vars => Placed'
    BY StepPlaced
<1> QED BY <1>1, <1>2, TypeCorrect, PTL DEF Spec

(***************************************************************************)
(* FLUSH and CLOSE never meet a buffer the device refuses (AWRITEB): it is *)
(* on a page boundary and leaves no hole in the file.                      *)
(***************************************************************************)
THEOREM BufferCanBeWritten ==
    ASSUME Careful
    PROVE  Spec => []FlushCanPlace
<1>1. TypeOK /\ Placed => FlushCanPlace
    BY ModifiedPlaced DEF FlushCanPlace
<1> QED BY <1>1, TypeCorrect, PlacedInvariant, PTL

(***************************************************************************)
(* FILSIZE is never less than the size of the file on the device, so the   *)
(* test of FFAULT for a page beyond the end of file is sound.              *)
(***************************************************************************)
THEOREM SizeIsSound ==
    ASSUME Careful
    PROVE  Spec => []SizeCoversDisk
<1>1. Placed => SizeCoversDisk
    BY DEF Placed
<1> QED BY <1>1, PlacedInvariant, PTL
-----------------------------------------------------------------------------
(***************************************************************************)
(* A transfer is one a program may ask for of an open file.                *)
(***************************************************************************)
Asked ==
    /\ call # NoCall => open /\ call.max =< MaxXfer
    /\ Writing => call.ch \in Char /\ call.lim = call.max

(***************************************************************************)
(* A READ that settled for less than it was asked for has all the rest of  *)
(* the file in the buffer.                                                 *)
(***************************************************************************)
RestBuffered ==
    call.op = "read" /\ call.lim < call.max =>
        /\ hasbuf /\ otop = 0 /\ InData
        /\ call.lim - call.n = itop - iop
        /\ boffset + itop = Len(disk) + 1
-----------------------------------------------------------------------------
LEMMA AskedInit == Init => Asked
BY DEF Init, Asked, NoCall, Writing

(***************************************************************************)
(* A call in progress goes on as it was entered.                           *)
(***************************************************************************)
LEMMA AskedStep == ASSUME TypeOK, Asked, [Next]_vars PROVE Asked'
<1>1. MaxXfer \in Nat /\ MaxXfer >= 1 /\ Zero \notin Char
  BY BoundsAssumption, CellAssumption
<1>2. ASSUME (call' = call /\ (open => open')) \/ call' = NoCall PROVE Asked'
  BY <1>2 DEF Asked, Writing, NoCall
<1>3. ASSUME call' = [call EXCEPT !.fresh = FALSE] \/ call' = [call EXCEPT !.fresh = TRUE],
             call # NoCall, open' = open
      PROVE  Asked'
  BY <1>3 DEF Asked, Writing, TypeOK, Calls
<1>4. ASSUME call' = [call EXCEPT !.n = call'.n], call # NoCall, open' = open PROVE Asked'
  BY <1>4 DEF Asked, Writing, TypeOK, Calls
<1>5. ASSUME NEW op \in {"getc", "read"}, NEW n \in 1 .. MaxXfer, Enter(op, n, Zero)
      PROVE  Asked'
  BY <1>1, <1>5 DEF Enter, Idle, Call, Asked, Writing
<1>6. ASSUME NEW op \in {"putc", "write"}, NEW n \in 1 .. MaxXfer, NEW ch \in Char,
             Enter(op, n, ch)
      PROVE  Asked'
  BY <1>1, <1>6 DEF Enter, Idle, Call, Asked, Writing
<1>7. 1 \in 1 .. MaxXfer
  BY <1>1
<1>8. Reading \/ Writing => call # NoCall
  BY DEF Reading, Writing, NoCall
<1>9. CASE UNCHANGED vars \/ NoPermission \/ SeekEOF \/ Flush \/ Close \/ Cancel
           \/ (\E atEnd \in BOOLEAN : Open(atEnd)) \/ (\E off \in 0 .. MaxOff : Seek(off))
  BY <1>2, <1>9 DEF vars, NoPermission, SeekEOF, SeekTo, Flush, Close, Idle, Cancel, Open, Seek
<1>10. CASE GetC \/ (\E n \in 1 .. MaxXfer : Read(n))
  BY <1>5, <1>7, <1>10 DEF GetC, Read
<1>11. CASE \/ \E ch \in Char : PutC(ch)
            \/ \E n \in 1 .. MaxXfer, ch \in Char : Write(n, ch)
  BY <1>6, <1>7, <1>11 DEF PutC, Write
<1>12. CASE FMkBfs
  BY <1>3, <1>8, <1>12 DEF FMkBfs, MayFill, MayStore
<1>13. CASE FlsBuf
  BY <1>2, <1>3, <1>8, <1>13 DEF FlsBuf, MayStore
<1>14. CASE FilBuf
  <2>1. Reading /\ (call' = NoCall \/ call' = [call EXCEPT !.fresh = FALSE, !.lim = NewLim])
    BY <1>14 DEF FilBuf, MayFill
  <2>2. CASE call' = NoCall
    BY <1>2, <2>2
  <2>3. CASE call' = [call EXCEPT !.fresh = FALSE, !.lim = NewLim]
    <3>1. call'.op = call.op /\ call'.max = call.max /\ call # NoCall /\ open' = open
      BY <1>8, <1>14, <2>1, <2>3 DEF FilBuf, TypeOK, Calls
    <3> QED BY <2>1, <3>1 DEF Asked, Reading, Writing
  <2> QED BY <2>1, <2>2, <2>3
<1>15. CASE CopyOut \/ CopyIn
  <2>1. (Reading \/ Writing) /\ (call' = NoCall \/ \E k : call' = [call EXCEPT !.n = @ + k])
    BY <1>15 DEF CopyOut, CopyIn
  <2>2. CASE call' = NoCall
    BY <1>2, <2>2
  <2>3. ASSUME NEW k, call' = [call EXCEPT !.n = @ + k] PROVE Asked'
    <3>1. call' = [call EXCEPT !.n = call'.n]
      BY <2>3 DEF TypeOK, Calls
    <3> QED BY <1>4, <1>8, <1>15, <2>1, <3>1 DEF CopyOut, CopyIn
  <2> QED BY <2>1, <2>2, <2>3
<1> QED BY <1>9, <1>10, <1>11, <1>12, <1>13, <1>14, <1>15 DEF Next
-----------------------------------------------------------------------------
(***************************************************************************)
(* Errors.  Whatever fails in FFAULT, OTOP is reset.                       *)
(***************************************************************************)
LEMMA NothingToWrite == ASSUME otop' = 0 PROVE ~Modified'
<1>1. ~Full'
  BY BufSizeAssumption DEF Full
<1> QED BY <1>1 DEF Modified, UOtop

LEMMA LandSucceeds ==
  ASSUME NEW off, NEW top, NEW m, NEW forWrite, Land(off, top, m, forWrite)
  PROVE  result'.st # "ERR" /\ failed' = failed
BY OutcomeType DEF Land

LEMMA FaultError ==
  ASSUME NEW off, NEW nreserve, NEW forWrite, FFault(off, nreserve, forWrite),
         result'.st = "ERR"
  PROVE  otop' = 0
<1>1. ASSUME PickUp(off, nreserve, forWrite) PROVE MarkEmpty
  BY <1>1, LandSucceeds DEF PickUp
<1> QED BY <1>1 DEF FFault, MarkEmpty, WriteFailed

(***************************************************************************)
(* ErrorLeavesBufferClean: for a careful program that may read and write,  *)
(* a call that ends in an error leaves nothing that a later FLUSH or CLOSE *)
(* would try to write again.  A descriptor that may not read refuses to    *)
(* and keeps what it has, which is no i/o error.                           *)
(***************************************************************************)
THEOREM ErrorsDoNotRepeat ==
  ASSUME Careful, CanRead, CanWrite
  PROVE  Spec => ErrorLeavesBufferClean
<1>1. TypeOK /\ Placed /\ [Next]_vars => [result'.st = "ERR" => ~Modified']_vars
  <2> SUFFICES ASSUME TypeOK, Placed, Next, result'.st = "ERR" PROVE otop' = 0
    BY NothingToWrite
  <2>1. CASE FilBuf
    BY <2>1, FaultError DEF FilBuf
  <2>2. CASE FlsBuf
    BY <2>2, FaultError, OutcomeType DEF FlsBuf
  <2>3. CASE Flush \/ Close
    <3>1. CASE ~Modified
      BY <2>3, <3>1, OutcomeType DEF Flush, Close, FlushOut
    <3>2. CASE Modified
      <4>1. Writable(boffset)
        BY <3>2, ModifiedPlaced
      <4>2. FlushedOtop = 0
        BY <3>2, <4>1 DEF FlushedOtop
      <4> QED BY <2>3, <4>2 DEF Flush, Close, Release
    <3> QED BY <3>1, <3>2
  <2>4. ~NoPermission
    BY DEF NoPermission
  <2>5. CASE \/ GetC \/ (\E n \in 1 .. MaxXfer : Read(n)) \/ (\E ch \in Char : PutC(ch))
             \/ (\E n \in 1 .. MaxXfer, ch \in Char : Write(n, ch))
             \/ FMkBfs \/ CopyOut \/ CopyIn
             \/ (\E off \in 0 .. MaxOff : Seek(off)) \/ SeekEOF \/ Cancel
             \/ (\E atEnd \in BOOLEAN : Open(atEnd))
    <3>1. result'.st = "ok"
      BY <2>5 DEF GetC, Read, PutC, Write, Enter, FMkBfs, CopyOut, CopyIn, Seek,
         SeekEOF, SeekTo, Cancel, Open, OK, Outcome
    <3> QED BY <3>1
  <2> QED BY <2>1, <2>2, <2>3, <2>4, <2>5 DEF Next
<1> QED BY <1>1, TypeCorrect, PlacedInvariant, PTL DEF Spec, ErrorLeavesBufferClean
-----------------------------------------------------------------------------
(***************************************************************************)
(* Short reads.  A fault for a reader that finds data on a page it does    *)
(* not fill has come to the last page, and has all of it.                  *)
(***************************************************************************)
LEMMA ReaderLands ==
  ASSUME TypeOK, TypeOK', CanRead, NEW off \in Int, FFault(off, 0, FALSE),
         result'.st = "ok"
  PROVE  /\ otop' = 0 /\ iop' >= 0 /\ iop' < itop'
         /\ itop' < BufSize => boffset' + itop' = Len(disk') + 1
<1> DEFINE page == PageOf(off)
           n == CharsAt(page)
<1>1. off > 0 /\ PickUp(off, 0, FALSE)
  BY OutcomeType DEF FFault, MarkEmpty, WriteFailed
<1>2. page \in Int /\ page =< off
  BY <1>1, PageOfOffset
<1>3. \E m : Land(off, 0, m, FALSE) \/ Land(off, n, m, FALSE)
  BY <1>1, OutcomeType DEF PickUp, Replaces, MarkEmpty
<1>4. \A m : ~Land(off, 0, m, FALSE)
  BY <1>1, <1>2, OutcomeType DEF Land
<1>5. PICK m : Land(off, n, m, FALSE)
  BY <1>3, <1>4
<1>6. /\ boffset' = page /\ iop' = off - page /\ itop' = n /\ otop' = 0
      /\ n > off - page
  BY <1>5, <1>2, OutcomeType DEF Land, TypeOK
<1>7. Len(disk') \in Nat
  BY DEF TypeOK
<1>8. n < BufSize => n = Len(disk') - page + 1
  <2> DEFINE l == Len(disk')
  <2>1. n = Max2(0, Min2(BufSize, l - page + 1))
    BY DEF CharsAt
  <2> HIDE DEF l, n, page
  <2>2. l \in Nat /\ off - page >= 0 /\ n > off - page
    BY <1>1, <1>2, <1>6, <1>7 DEF l
  <2>3. n < BufSize => n = l - page + 1
    BY <1>1, <1>2, <2>1, <2>2, BufSizeAssumption DEF Max2, Min2
  <2> QED BY <2>3 DEF l
<1> HIDE DEF page, n
<1> QED BY <1>1, <1>2, <1>6, <1>7, <1>8

LEMMA SettledFill == ASSUME TypeOK, TypeOK', RestBuffered, FilBuf PROVE RestBuffered'
<1>1. SUFFICES ASSUME result'.st = "ok", call'.op = "read", call'.lim < call'.max
               PROVE  RestBuffered'
  BY <1>1 DEF FilBuf, RestBuffered, NoCall
<1>2. CanRead /\ hasbuf' /\ call' = [call EXCEPT !.fresh = FALSE, !.lim = NewLim]
  BY <1>1 DEF FilBuf, MayFill
<1>3. /\ otop' = 0 /\ iop' >= 0 /\ iop' < itop'
      /\ itop' < BufSize => boffset' + itop' = Len(disk') + 1
  <2>1. LNote \in Int
    BY DEF LNote, TypeOK
  <2>2. FFault(LNote, 0, FALSE)
    BY DEF FilBuf
  <2> QED BY <1>1, <1>2, <2>1, <2>2, ReaderLands
<1>4. call'.op = call.op /\ call'.n = call.n /\ call'.max = call.max /\ call'.lim = NewLim
  <2> DEFINE lim == NewLim
  <2>1. call' = [call EXCEPT !.fresh = FALSE, !.lim = lim]
    BY <1>2
  <2> HIDE DEF lim
  <2>2. call'.op = call.op /\ call'.n = call.n /\ call'.max = call.max /\ call'.lim = lim
    BY <2>1 DEF TypeOK, Calls
  <2> QED BY <2>2 DEF lim
<1>5. call.n \in Nat /\ call.max \in Nat /\ iop' \in Int /\ itop' \in Int /\ itop' =< BufSize
  BY BufSizeAssumption DEF TypeOK, Calls
<1>6. itop' < BufSize /\ call'.lim - call'.n = itop' - iop'
  <2>1. itop' < BufSize
    BY <1>1, <1>4 DEF NewLim, RestBuffered, FilBuf
  <2> QED BY <1>1, <1>4, <1>5, <2>1 DEF NewLim, Min2
<1> QED BY <1>2, <1>3, <1>6 DEF RestBuffered, InData
(***************************************************************************)
(* The copy that follows ends the call, so nothing else intervenes.        *)
(***************************************************************************)
LEMMA SettledStep == ASSUME TypeOK, TypeOK', Asked, RestBuffered, [Next]_vars PROVE RestBuffered'
<1>1. CASE FilBuf
  BY <1>1, SettledFill
<1>2. CASE CopyOut
  <2> DEFINE k == Min2(call.lim - call.n, itop - iop)
  <2>1. /\ call' = IF call.n + k = call.lim THEN NoCall ELSE [call EXCEPT !.n = @ + k]
        /\ UNCHANGED <<disk, hasbuf, boffset, itop, otop>>
    BY <1>2 DEF CopyOut
  <2>2. SUFFICES ASSUME call' # NoCall, call'.op = "read", call'.lim < call'.max PROVE FALSE
    BY DEF RestBuffered, NoCall
  <2> HIDE DEF k
  <2>3. call.op = "read" /\ call.lim < call.max
    BY <2>1, <2>2 DEF TypeOK, Calls
  <2> QED BY <2>1, <2>2, <2>3 DEF k, RestBuffered, Min2, TypeOK, Calls
<1>3. CASE UNCHANGED vars
  BY <1>3 DEF vars, RestBuffered, InData
<1>4. ASSUME ~FilBuf, ~CopyOut, Next, call'.op = "read", call'.lim < call'.max
      PROVE  FALSE
  <2>1. call.op = "read" /\ call.lim < call.max
    <3>1. CASE \/ GetC \/ (\E n \in 1 .. MaxXfer : Read(n)) \/ (\E ch \in Char : PutC(ch))
               \/ (\E n \in 1 .. MaxXfer, ch \in Char : Write(n, ch))
      <4>1. PICK op, max, ch : call' = Call(op, max, ch) /\ max \in Int
        BY <3>1, BoundsAssumption DEF GetC, Read, PutC, Write, Enter
      <4> QED BY <4>1, <1>4 DEF Call
    <3>2. CASE NoPermission
      BY <3>2, <1>4 DEF NoPermission, NoCall
    <3>3. CASE FMkBfs \/ FlsBuf \/ CopyIn
      <4>1. \/ call' = NoCall \/ (\E b : call' = [call EXCEPT !.fresh = b])
            \/ \E k : call' = [call EXCEPT !.n = @ + k]
        BY <3>3 DEF FMkBfs, FlsBuf, CopyIn
      <4>2. ASSUME NEW b, call' = [call EXCEPT !.fresh = b] PROVE call.op = "read" /\ call.lim < call.max
        BY <4>2, <1>4 DEF TypeOK, Calls
      <4>3. ASSUME NEW k, call' = [call EXCEPT !.n = @ + k] PROVE call.op = "read" /\ call.lim < call.max
        BY <4>3, <1>4 DEF TypeOK, Calls
      <4> QED BY <4>1, <4>2, <4>3, <1>4 DEF NoCall
    <3>4. CASE \/ (\E off \in 0 .. MaxOff : Seek(off)) \/ SeekEOF \/ Flush \/ Close \/ Cancel
               \/ (\E atEnd \in BOOLEAN : Open(atEnd))
      BY <3>4, <1>4 DEF Seek, SeekEOF, SeekTo, Flush, Close, Cancel, Open
    <3> QED BY <3>1, <3>2, <3>3, <3>4, <1>4 DEF Next
  <2>2. hasbuf /\ InData /\ Reading
    BY <2>1 DEF RestBuffered, Reading
  <2>3. call # NoCall /\ ~Writing
    BY <2>1 DEF NoCall, Writing
  <2>4. \/ NoPermission \/ FMkBfs \/ FlsBuf \/ CopyIn \/ (\E atEnd \in BOOLEAN : Open(atEnd))
    BY <2>3, <1>4 DEF Next, GetC, Read, PutC, Write, Enter, Idle, Seek, SeekEOF, Flush,
       Close, Cancel
  <2>5. \E atEnd \in BOOLEAN : Open(atEnd)
    BY <2>2, <2>3, <2>4 DEF NoPermission, FMkBfs, FlsBuf, CopyIn, MayStore
  <2> QED BY <2>3, <2>5 DEF Open, Asked
<1> QED BY <1>1, <1>2, <1>3, <1>4 DEF RestBuffered
LEMMA AskedSettled == Spec => [](TypeOK /\ Asked /\ RestBuffered)
<1>1. Init => Asked /\ RestBuffered
  BY AskedInit DEF Init, RestBuffered, NoCall
<1>2. TypeOK /\ TypeOK' /\ Asked /\ RestBuffered /\ [Next]_vars => Asked' /\ RestBuffered'
  BY AskedStep, SettledStep
<1> QED BY <1>1, <1>2, TypeCorrect, PTL DEF Spec

(***************************************************************************)
(* ShortReadMeansEOF: a READ that moves fewer characters than it was asked *)
(* for, and does not fail, leaves the position past the last character of  *)
(* the file; for any file, however it is opened, seeked and written, and   *)
(* whatever the device has done before.                                    *)
(***************************************************************************)
THEOREM ShortReadsEndTheFile == Spec => ShortReadMeansEOF
<1>1. TypeOK /\ Asked /\ RestBuffered /\ [Next]_vars =>
        [ (call.op = "read" /\ call' = NoCall /\ result'.st = "ok"
             /\ call.n + Len(result'.data) < call.max)
            => LNote' > ViewLen' ]_vars
  <2> SUFFICES ASSUME TypeOK, RestBuffered, Next, call.op = "read", call' = NoCall,
                      result'.st = "ok", call.n + Len(result'.data) < call.max
               PROVE  LNote' > ViewLen'
    OBVIOUS
  <2>1. CopyOut
    <3>1. ~Writing /\ call # NoCall
      BY DEF Writing, NoCall
    <3>2. ~NoPermission /\ ~FilBuf
      BY OutcomeType DEF NoPermission, FilBuf, NoCall, TypeOK, Calls
    <3>3. ~FMkBfs
      BY DEF FMkBfs, NoCall, TypeOK, Calls
    <3>4. \A atEnd \in BOOLEAN : ~Open(atEnd)
      BY <3>1 DEF Open
    <3> QED BY <3>1, <3>2, <3>3, <3>4 DEF Next, GetC, Read, PutC, Write, Enter, Idle, Seek,
               SeekEOF, Flush, Close, Cancel, FlsBuf, MayStore, CopyIn
  <2> DEFINE k == Min2(call.lim - call.n, itop - iop)
  <2>2. /\ call' = IF call.n + k = call.lim THEN NoCall ELSE [call EXCEPT !.n = @ + k]
        /\ result' = Outcome("ok", [i \in 1 .. k |-> mem[iop + i - 1]])
        /\ iop' = iop + k /\ InData
        /\ UNCHANGED <<disk, boffset, otop>>
    BY <2>1 DEF CopyOut
  <2>3. /\ k \in Nat
        /\ call.n \in Nat /\ call.lim \in Nat /\ call.max \in Nat
        /\ iop \in Int /\ itop \in Int /\ boffset \in Int /\ Len(disk) \in Nat
    BY <2>2 DEF Min2, InData, TypeOK, Calls, NoCall
  <2> HIDE DEF k
  <2>4. Len(result'.data) = k
    BY <2>2, <2>3 DEF Outcome
  <2>5. call.n + k = call.lim
    BY <2>2, <2>3 DEF NoCall, TypeOK, Calls
  <2>6. otop = 0 /\ call.lim - call.n = itop - iop /\ boffset + itop = Len(disk) + 1
    BY <2>3, <2>4, <2>5 DEF RestBuffered
  <2>7. ViewLen' = Len(disk)
    BY <2>2, <2>6, NothingToWrite DEF ViewLen
  <2>8. LNote' = boffset + iop + k
    BY <2>2, <2>3 DEF LNote
  <2> QED BY <2>3, <2>5, <2>6, <2>7, <2>8
<1> QED BY <1>1, AskedSettled, PTL DEF Spec, ShortReadMeansEOF
-----------------------------------------------------------------------------
(***************************************************************************)
(* The refinement.  The valid part of a buffer that is not modified is     *)
(* what the device holds.                                                  *)
(***************************************************************************)
Synced ==
    hasbuf => \A i \in 0 .. UItop - 1 :
        boffset + i \in 1 .. Len(disk) /\ mem[i] = disk[boffset + i]

(***************************************************************************)
(* The page was not read because the WRITE that wants it replaces it all.  *)
(***************************************************************************)
Replacing ==
    /\ otop = BufSize /\ itop = 0 /\ iop = 0
    /\ call.op = "write" /\ call.max - call.n >= BufSize

(***************************************************************************)
(* Otherwise the valid part covers what the device has of the page.        *)
(***************************************************************************)
Covers == \A i \in Index : boffset + i =< Len(disk) => i < UItop

Content ==
    /\ open => filsize =< ViewLen
    /\ ~Modified => Synced
    /\ hasbuf /\ ~call.fresh => Replacing \/ Covers

Faithful == ~failed => Content
-----------------------------------------------------------------------------
(***************************************************************************)
(* The view, cell by cell.                                                 *)
(***************************************************************************)
LEMMA ViewCells ==
  ASSUME TypeOK, Placed
  PROVE  /\ ViewLen \in Nat /\ ViewLen >= Len(disk) /\ Len(disk) \in Nat
         /\ Modified => /\ ViewLen = Max2(Len(disk), boffset - 1 + UItop)
                        /\ ViewLen >= boffset - 1 + UItop
         /\ ~Modified => ViewLen = Len(disk)
         /\ DOMAIN View = 1 .. ViewLen /\ Len(View) = ViewLen
         /\ \A i \in 1 .. ViewLen :
               View[i] = IF hasbuf /\ i - boffset \in 0 .. UItop - 1 THEN mem[i - boffset]
                         ELSE IF i <= Len(disk) THEN disk[i] ELSE Zero
<1>1. Len(disk) \in Nat /\ boffset \in Int /\ UItop \in 0 .. BufSize
  BY UpdatedTops DEF TypeOK
<1>2. UItop \in Int /\ UItop >= 0
  BY <1>1, BufSizeAssumption
<1>3. /\ ViewLen \in Nat /\ ViewLen >= Len(disk)
      /\ Modified => /\ ViewLen = Max2(Len(disk), boffset - 1 + UItop)
                     /\ ViewLen >= boffset - 1 + UItop
      /\ ~Modified => ViewLen = Len(disk)
  BY <1>1, <1>2 DEF ViewLen, Max2
<1> DEFINE c(i) == IF hasbuf /\ i - boffset \in 0 .. UItop - 1 THEN mem[i - boffset]
                   ELSE IF i <= Len(disk) THEN disk[i] ELSE Zero
<1>4. View = [i \in 1 .. ViewLen |-> c(i)]
  BY DEF View
<1> HIDE DEF c
<1>5. DOMAIN View = 1 .. ViewLen /\ \A i \in 1 .. ViewLen : View[i] = c(i)
  BY <1>4
<1>6. Len(View) = ViewLen
  <2> DEFINE n == ViewLen
  <2>1. View = [i \in 1 .. n |-> c(i)] /\ n \in Nat
    BY <1>3, <1>4
  <2> HIDE DEF n
  <2> QED BY <2>1 DEF n
<1> QED BY <1>1, <1>3, <1>5, <1>6 DEF c

LEMMA DiskCells ==
  ASSUME TypeOK
  PROVE  Len(disk) \in Nat /\ disk = [i \in 1 .. Len(disk) |-> disk[i]]
BY DEF TypeOK

LEMMA SyncedView ==
  ASSUME TypeOK, Placed, Synced
  PROVE  ViewLen = Len(disk) /\ View = disk
<1>1. UItop \in Int /\ boffset \in Int /\ Len(disk) \in Nat
  BY UpdatedTops, BufSizeAssumption DEF TypeOK
<1>2. ViewLen = Len(disk)
  <2>1. CASE Modified
    <3>1. hasbuf /\ UItop > 0
      BY <2>1, ModifiedPlaced DEF Modified
    <3>2. boffset + (UItop - 1) \in 1 .. Len(disk)
      BY <1>1, <3>1 DEF Synced
    <3> QED BY <1>1, <2>1, <3>2, ViewCells DEF Max2
  <2> QED BY <2>1, ViewCells
<1>3. ASSUME NEW i \in 1 .. Len(disk) PROVE View[i] = disk[i]
  <2>1. CASE hasbuf /\ i - boffset \in 0 .. UItop - 1
    <3>1. View[i] = mem[i - boffset]
      BY <1>2, <2>1, ViewCells
    <3>2. mem[i - boffset] = disk[boffset + (i - boffset)]
      BY <2>1 DEF Synced
    <3>3. boffset + (i - boffset) = i
      BY <1>1
    <3> QED BY <3>1, <3>2, <3>3
  <2>2. CASE ~(hasbuf /\ i - boffset \in 0 .. UItop - 1)
    BY <1>1, <1>2, <2>2, ViewCells
  <2> QED BY <2>1, <2>2
<1>4. View = [i \in 1 .. Len(disk) |-> View[i]]
  BY <1>2, ViewCells DEF View
<1> QED BY <1>2, <1>3, <1>4, DiskCells

(***************************************************************************)
(* A buffer that is written out whole makes the device hold the view.      *)
(***************************************************************************)
LEMMA FlushedView ==
  ASSUME TypeOK, Placed, Modified
  PROVE  DiskAfter(boffset, UOtop) = View
<1>1. UOtop = UItop /\ UOtop > 0 /\ hasbuf
  BY ModifiedPlaced DEF Modified
<1>2. UItop \in Int /\ boffset \in Int /\ Len(disk) \in Nat
  BY UpdatedTops, BufSizeAssumption DEF TypeOK
<1> DEFINE len == Max2(Len(disk), boffset - 1 + UItop)
           w(i) == IF i \in boffset .. boffset + UItop - 1 THEN mem[i - boffset]
                   ELSE IF i <= Len(disk) THEN disk[i] ELSE Zero
           c(i) == IF hasbuf /\ i - boffset \in 0 .. UItop - 1 THEN mem[i - boffset]
                   ELSE IF i <= Len(disk) THEN disk[i] ELSE Zero
<1>3. DiskAfter(boffset, UOtop) = [i \in 1 .. len |-> w(i)]
  BY <1>1, <1>2 DEF DiskAfter
<1>4. View = [i \in 1 .. len |-> c(i)]
  <2>1. ViewLen = len
    BY ViewCells
  <2> QED BY <2>1 DEF View
<1>5. \A i \in 1 .. len : w(i) = c(i)
  <2>1. ASSUME NEW i \in 1 .. len
        PROVE  i \in boffset .. boffset + UItop - 1 <=> i - boffset \in 0 .. UItop - 1
    BY <1>2
  <2> QED BY <1>1, <2>1
<1> HIDE DEF w, c, len
<1> QED BY <1>3, <1>4, <1>5
-----------------------------------------------------------------------------
(***************************************************************************)
(* Where FFAULT lands without an error, the page holds what the device has *)
(* of it, unless the WRITE that caused the fault replaces it.              *)
(***************************************************************************)
Landed(off, nreserve, forWrite) ==
    /\ Synced' /\ LNote' = off /\ failed' = failed
    /\ result' \in {OK, ATEOF} /\ (forWrite => result' = OK)
    /\ result' = ATEOF => off > Len(disk')
    /\ \/ Covers'
       \/ forWrite /\ nreserve >= BufSize /\ otop' = BufSize /\ itop' = 0 /\ iop' = 0

(***************************************************************************)
(* The tops after a landing that does not skip a cell.                     *)
(***************************************************************************)
LEMMA LandTop ==
  ASSUME TypeOK', hasbuf' = TRUE, NEW off \in Int, off >= 1, NEW forWrite \in BOOLEAN,
         NEW top \in 0 .. BufSize, NEW m, Land(off, top, m, forWrite),
         off - PageOf(off) =< top
  PROVE  /\ UItop' = top /\ LNote' = off /\ boffset' = PageOf(off) /\ mem' = m
         /\ iop' = off - PageOf(off) /\ itop' = top
         /\ forWrite => otop' = BufSize
         /\ failed' = failed
         /\ result' = IF ~forWrite /\ top =< off - PageOf(off) THEN ATEOF ELSE OK
<1> DEFINE page == PageOf(off)
<1>1. page \in Int /\ page =< off
  BY PageOfOffset
<1> HIDE DEF page
<1>2. /\ boffset' = page /\ iop' = off - page /\ itop' = top /\ mem' = m
      /\ otop' = IF forWrite THEN BufSize ELSE 0
      /\ failed' = failed
      /\ result' = IF ~forWrite /\ top =< off - page THEN ATEOF ELSE OK
  BY DEF Land, page
<1>3. LNote' = off
  BY <1>1, <1>2 DEF LNote
<1>4. off - page >= 0 /\ off - page =< top /\ top \in Int /\ top =< BufSize
  BY <1>1, BufSizeAssumption DEF page
<1>5. UItop' = top
  BY <1>1, <1>2, <1>4, BufSizeAssumption DEF UItop, Full, Min2, Max2
<1> QED BY <1>2, <1>3, <1>5 DEF page

LEMMA LandView ==
  ASSUME TypeOK', Placed', open', hasbuf' = TRUE, CanRead,
         NEW off \in Int, off >= 1, off =< Len(disk') + 1,
         NEW forWrite \in BOOLEAN, NEW nreserve \in Nat,
         PickUp(off, nreserve, forWrite), ~failed', filsize' =< Len(disk')
  PROVE  Landed(off, nreserve, forWrite)
<1> DEFINE page == PageOf(off)
           n == CharsAt(page)
           l == Len(disk')
<1>1. /\ page \in Int /\ 1 =< page /\ page =< off /\ off < page + BufSize
      /\ l \in Nat /\ l >= off - 1
  BY PageOfOffset DEF TypeOK
<1>8. l = filsize'
  BY <1>1 DEF TypeOK, Placed, SizeCoversDisk
<1>2. n = Max2(0, Min2(BufSize, l - page + 1))
  BY DEF CharsAt
<1>3. ASSUME NEW m, Land(off, 0, m, forWrite), off = page,
             l < page \/ (forWrite /\ nreserve >= BufSize)
      PROVE  Landed(off, nreserve, forWrite)
  <2>1. /\ UItop' = 0 /\ LNote' = off /\ boffset' = page /\ iop' = 0 /\ itop' = 0
        /\ forWrite => otop' = BufSize
        /\ failed' = failed
        /\ result' = IF ~forWrite THEN ATEOF ELSE OK
    <3>1. 0 \in 0 .. BufSize /\ off - PageOf(off) = 0
      BY <1>1, <1>3, BufSizeAssumption
    <3> QED BY <1>3, <3>1, LandTop
  <2>2. Synced'
    BY <2>1 DEF Synced
  <2>3. l < page => Covers'
    BY <1>1, <2>1, BufSizeAssumption DEF Covers, Index
  <2>4. result' \in {OK, ATEOF} /\ (forWrite => result' = OK)
    BY <2>1
  <2>5. result' = ATEOF => off > l
    <3>1. result' = ATEOF => ~forWrite
      BY <2>1 DEF OK, ATEOF, Outcome
    <3> QED BY <1>1, <1>3, <3>1
  <2>6. \/ Covers'
        \/ forWrite /\ nreserve >= BufSize /\ otop' = BufSize /\ itop' = 0 /\ iop' = 0
    BY <1>3, <2>1, <2>3
  <2> HIDE DEF page, n
  <2> QED BY <2>1, <2>2, <2>4, <2>5, <2>6 DEF Landed
<1>4. ASSUME NEW m, Land(off, n, m, forWrite), ~(page > l),
             m = [i \in Index |-> IF i < n /\ page + i =< Len(disk') THEN disk'[page + i]
                                  ELSE mem[i]]
      PROVE  Landed(off, nreserve, forWrite)
  <2> HIDE DEF page
  <2>1. /\ n \in 0 .. BufSize /\ off - page =< n
        /\ n < BufSize => n = l - page + 1
        /\ n =< l - page + 1
    <3> HIDE DEF n, l
    <3> QED BY <1>1, <1>2, <1>4, BufSizeAssumption DEF Max2, Min2, l
  <2> HIDE DEF n, l
  <2>7. /\ n \in Int /\ page \in Int /\ l \in Int /\ 1 =< page
        /\ n =< BufSize /\ n =< l - page + 1
        /\ n < BufSize => n = l - page + 1
    BY <1>1, <2>1, BufSizeAssumption
  <2>2. /\ UItop' = n /\ LNote' = off /\ boffset' = page /\ mem' = m
        /\ iop' = off - page /\ itop' = n
        /\ failed' = failed
        /\ result' = IF ~forWrite /\ n =< off - page THEN ATEOF ELSE OK
    BY <1>4, <2>1, LandTop DEF page
  <2>3. Synced'
    <3>1. ASSUME NEW i \in 0 .. n - 1
          PROVE  page + i \in 1 .. l /\ m[i] = disk'[page + i]
      <4>1. i \in Int /\ i >= 0 /\ i =< n - 1
        BY <2>7
      <4>2. i \in Index
        BY <2>7, <4>1, BufSizeAssumption DEF Index
      <4>3. i < n /\ page + i \in 1 .. l
        BY <2>7, <4>1
      <4> QED BY <1>4, <4>2, <4>3 DEF l
    <3> QED BY <2>2, <3>1 DEF Synced, l
  <2>4. Covers'
    <3>1. ASSUME NEW i \in Index, page + i =< l PROVE i < n
      <4>1. i \in Int /\ i =< BufSize - 1
        BY BufSizeAssumption DEF Index
      <4> QED BY <2>7, <3>1, <4>1, BufSizeAssumption
    <3>2. /\ UItop' = n /\ boffset' = page
      BY <2>2
    <3> QED BY <3>1, <3>2 DEF Covers, l
  <2>5. result' = ATEOF => off > l
    <3>1. result' = ATEOF => n =< off - page
      BY <2>2 DEF OK, ATEOF, Outcome
    <3>2. off - page < BufSize
      BY <1>1, BufSizeAssumption
    <3> QED BY <1>1, <2>7, <3>1, <3>2, BufSizeAssumption
  <2>6. result' \in {OK, ATEOF} /\ (forWrite => result' = OK)
    BY <2>2
  <2> QED BY <2>2, <2>3, <2>4, <2>5, <2>6 DEF Landed, l
<1>5. CASE Replaces(off, nreserve, forWrite)
  <2>1. Land(off, 0, mem, forWrite) /\ off = page /\ forWrite /\ nreserve >= BufSize
    BY <1>5 DEF PickUp, Replaces
  <2> QED BY <1>3, <2>1
<1>6. CASE ~Replaces(off, nreserve, forWrite) /\ BeyondEnd(page)
  <2>1. Land(off, 0, mem, forWrite)
    BY <1>6 DEF PickUp
  <2>2. l < page /\ off = page
    BY <1>1, <1>6, <1>8 DEF BeyondEnd
  <2> QED BY <1>3, <2>1, <2>2
<1>7. CASE ~Replaces(off, nreserve, forWrite) /\ ~BeyondEnd(page)
  <2>1. Land(off, n, [i \in Index |-> IF i < n /\ page + i =< Len(disk') THEN disk'[page + i]
                                      ELSE mem[i]], forWrite)
    BY <1>7 DEF PickUp, MarkEmpty
  <2>2. ~(page > l)
    BY <1>1, <1>7, <1>8 DEF BeyondEnd
  <2> QED BY <1>4, <2>1, <2>2
<1> QED BY <1>5, <1>6, <1>7
(***************************************************************************)
(* Neither does the device fail, nor write less than it was given.         *)
(***************************************************************************)
Steadfast == Careful /\ CanRead /\ "short" \notin Faults

LEMMA SizeIsView ==
  ASSUME TypeOK, Placed, open, Content
  PROVE  FFilSz = ViewLen
<1>1. /\ Len(disk) \in Nat /\ filsize \in Nat /\ boffset \in Int /\ UItop \in Int
      /\ Len(disk) =< filsize /\ filsize =< ViewLen
  BY UpdatedTops, BufSizeAssumption DEF TypeOK, Placed, SizeCoversDisk, Content
<1>2. CASE Modified
  <2>1. ViewLen = Max2(Len(disk), boffset - 1 + UItop)
    BY <1>2, ViewCells
  <2>2. FFilSz = Max2(filsize, boffset - 1 + UItop)
    BY <1>2, FileSize
  <2> QED BY <1>1, <2>1, <2>2 DEF Max2
<1>3. CASE ~Modified
  <2>1. ViewLen = Len(disk)
    BY <1>3, ViewCells
  <2>2. FFilSz = filsize
    BY <1>3, FileSize
  <2> QED BY <1>1, <2>1, <2>2
<1> QED BY <1>2, <1>3

(***************************************************************************)
(* Writing out a modified buffer.                                          *)
(***************************************************************************)
LEMMA FlushView ==
  ASSUME Steadfast, TypeOK, Placed, open, Content, Modified,
         NEW r \in WriteResults(UOtop), FlushPage(UOtop, r), r # ERR
  PROVE  disk' = View /\ filsize' = Len(disk')
<1>1. UOtop = UItop /\ UItop \in Int
  BY ModifiedPlaced, UpdatedTops
<1>2. r = UOtop
  BY DEF Steadfast, WriteResults
<1>3. disk' = View
  BY <1>2, FlushedView DEF FlushPage
<1>4. filsize' = FFilSz
  BY FlushedSize
<1> QED BY <1>3, <1>4, SizeIsView, ViewCells

(***************************************************************************)
(* A file fault without an error leaves on the device what the program     *)
(* sees, and lands.                                                        *)
(***************************************************************************)
LEMMA FaultView ==
  ASSUME Steadfast, TypeOK, TypeOK', Placed, Placed', Content, open, open', hasbuf' = TRUE,
         NEW forWrite \in BOOLEAN, NEW nreserve \in Nat,
         FFault(LNote, nreserve, forWrite), ~failed'
  PROVE  /\ disk' = View /\ filsize' = Len(disk')
         /\ Landed(LNote, nreserve, forWrite)
<1>1. LNote \in Int /\ LNote >= 1 /\ LNote =< FFilSz + 1
  BY FileSize DEF Placed, InFile, LNote, TypeOK
<1>2. disk' = View /\ filsize' = Len(disk') /\ PickUp(LNote, nreserve, forWrite)
  <2>1. CASE Modified
    <3>1. PICK r \in WriteResults(UOtop) :
             FlushPage(UOtop, r) /\ r # ERR /\ PickUp(LNote, nreserve, forWrite)
      BY <2>1, ModifiedPlaced DEF FFault, MarkEmpty, WriteFailed
    <3> QED BY <2>1, <3>1, FlushView
  <2>2. CASE ~Modified
    <3>1. disk' = disk /\ filsize' = filsize /\ PickUp(LNote, nreserve, forWrite)
      BY <2>2 DEF FFault, MarkEmpty
    <3>2. ViewLen = Len(disk) /\ View = disk
      BY <2>2, SyncedView DEF Content
    <3>3. filsize = Len(disk)
      BY <2>2, <3>2, SizeIsView, FileSize
    <3> QED BY <3>1, <3>2, <3>3
  <2> QED BY <2>1, <2>2
<1>3. Len(disk') = ViewLen /\ FFilSz = ViewLen /\ ViewLen \in Nat
  BY <1>2, ViewCells, SizeIsView
<1>4. LNote =< Len(disk') + 1 /\ filsize' =< Len(disk')
  BY <1>1, <1>2, <1>3
<1> QED BY <1>1, <1>2, <1>4, LandView DEF Steadfast

LEMMA SyncedViewNext ==
  (TypeOK /\ Placed /\ Synced)' => (ViewLen = Len(disk) /\ View = disk)'
<1>1. TypeOK /\ Placed /\ Synced => ViewLen = Len(disk) /\ View = disk
  BY SyncedView
<1> QED BY <1>1, PTL

(***************************************************************************)
(* So the view stays, and what else there is to know about the buffer.     *)
(***************************************************************************)
LEMMA LandedContent ==
  ASSUME TypeOK, TypeOK', Placed, Placed', disk' = View, filsize' = Len(disk'), Synced',
         hasbuf' /\ ~call'.fresh => Replacing' \/ Covers'
  PROVE  View' = View /\ ViewLen' = ViewLen /\ Content'
<1>1. ViewLen' = Len(disk') /\ View' = disk'
  BY SyncedViewNext
<1>2. Len(disk') = ViewLen /\ ViewLen \in Nat
  BY ViewCells
<1> QED BY <1>1, <1>2 DEF Content
-----------------------------------------------------------------------------
(***************************************************************************)
(* The steps of FlatFile.                                                  *)
(***************************************************************************)
Moved == /\ View' = View /\ LNote' \in 1 .. ViewLen + 1
         /\ result' = OK /\ UNCHANGED failed

LEMMA FlatMove == ASSUME TypeOK, Placed, Moved PROVE Flat!Next
<1>1. Flat!Move
  BY ViewCells DEF Moved, OK, Outcome, Flat!Move, Flat!Outcome
<1> QED BY <1>1 DEF Flat!Next

LEMMA FlatEOF ==
  ASSUME TypeOK, Placed, LNote > ViewLen, result' = ATEOF, View' = View, LNote' = LNote,
         failed' = failed
  PROVE  Flat!Next
<1>1. Flat!AtEOF
  BY ViewCells DEF ATEOF, Outcome, Flat!AtEOF, Flat!Outcome
<1> QED BY <1>1 DEF Flat!Next

LEMMA FlatRefuse ==
  ASSUME result' = FAILED, View' = View, LNote' = LNote, failed' = failed
  PROVE  Flat!Next
<1>1. Flat!Refuse
  BY DEF FAILED, Outcome, Flat!Refuse, Flat!Outcome
<1> QED BY <1>1 DEF Flat!Next

LEMMA FlatFail == ASSUME failed' = TRUE PROVE Flat!Next
<1>1. Flat!Fail
  BY DEF Flat!Fail
<1> QED BY <1>1 DEF Flat!Next

(***************************************************************************)
(* The view and the position are functions of the descriptor.              *)
(***************************************************************************)
LEMMA SameView ==
  ASSUME UNCHANGED <<disk, hasbuf, boffset, iop, itop, otop, mem>>
  PROVE  /\ View' = View /\ ViewLen' = ViewLen /\ LNote' = LNote
         /\ Modified' = Modified /\ UItop' = UItop
         /\ Synced' = Synced /\ Covers' = Covers
BY DEF View, ViewLen, LNote, Modified, UOtop, UItop, Full, Synced, Covers
-----------------------------------------------------------------------------
(***************************************************************************)
(* One lemma for each operation: without an error it is a step of FlatFile *)
(* and keeps the view in order.                                            *)
(***************************************************************************)
Viewed == TypeOK /\ Placed /\ Asked /\ Content

LEMMA InView ==
  ASSUME Viewed, open
  PROVE  LNote \in 1 .. ViewLen + 1 /\ FFilSz = ViewLen
<1>1. FFilSz = ViewLen
  BY SizeIsView DEF Viewed
<1> QED BY <1>1 DEF Viewed, Placed, InFile

LEMMA EnterView ==
  ASSUME Viewed, NEW op, NEW max, NEW ch, Enter(op, max, ch)
  PROVE  Content' /\ Flat!Next
<1>1. /\ UNCHANGED <<disk, open, fdvars, failed>> /\ result' = OK
      /\ open /\ call = NoCall
  BY DEF Enter, Idle
<1>2. ~call.fresh /\ ~Replacing
  BY <1>1 DEF NoCall, Replacing
<1>3. hasbuf => Covers
  BY <1>2 DEF Viewed, Content
<1>4. Content'
  BY <1>1, <1>3, SameView DEF Viewed, Content, fdvars
<1>5. Moved
  BY <1>1, SameView, InView DEF Moved, fdvars
<1> QED BY <1>4, <1>5, FlatMove DEF Viewed

LEMMA RefusedView ==
  ASSUME Viewed, CanRead, NoPermission
  PROVE  Content' /\ Flat!Next
<1>1. /\ UNCHANGED <<disk, open, fdvars, failed>> /\ result' = FAILED
      /\ Writing /\ ~InRoom /\ ~CanWrite
  BY DEF NoPermission
<1>2. ~call.fresh
  BY <1>1 DEF Viewed, Placed, Fresh, MayFill, MayStore, Reading, Writing
<1>3. ~Replacing
  BY <1>1, BufSizeAssumption DEF Replacing, InRoom
<1>4. Content'
  BY <1>1, <1>2, <1>3, SameView DEF Viewed, Content, fdvars
<1> QED BY <1>1, <1>4, SameView, FlatRefuse DEF fdvars

LEMMA OpenView ==
  ASSUME Viewed, NEW atEnd \in BOOLEAN, Open(atEnd)
  PROVE  Content' /\ Flat!Next
<1>1. /\ ~hasbuf /\ boffset = 1 /\ otop = 0
      /\ UNCHANGED <<disk, hasbuf, boffset, itop, otop, mem, failed>>
      /\ iop' \in {0, Len(disk)} /\ filsize' = Len(disk) /\ result' = OK
  BY DEF Open, Viewed, Placed, Owned
<1>2. ~Full /\ ~Full' /\ ~Modified /\ ~Modified'
  BY <1>1, BufSizeAssumption DEF Full, Modified, UOtop
<1>3. ViewLen = Len(disk) /\ ViewLen' = ViewLen /\ Len(disk) \in Nat
  BY <1>1, <1>2, DiskCells DEF ViewLen, Viewed
<1>4. View' = View
  BY <1>1, <1>2, <1>3 DEF View, UItop
<1>5. LNote' \in 1 .. ViewLen + 1
  <2> DEFINE l == Len(disk)
  <2>1. LNote' = 1 + iop'
    BY <1>1 DEF LNote
  <2>2. iop' \in {0, l} /\ l \in Nat /\ ViewLen = l
    BY <1>1, <1>3
  <2> HIDE DEF l
  <2>3. LNote' \in Int /\ LNote' >= 1 /\ LNote' =< ViewLen + 1
    <3>1. CASE iop' = 0
      BY <2>1, <2>2, <3>1
    <3>2. CASE iop' = l
      BY <2>1, <2>2, <3>2
    <3> QED BY <2>2, <3>1, <3>2
  <2> QED BY <2>2, <2>3
<1>6. Content'
  BY <1>1, <1>3 DEF Content, Synced
<1>7. Moved
  BY <1>1, <1>4, <1>5 DEF Moved
<1> QED BY <1>6, <1>7, FlatMove DEF Viewed

LEMMA FMkBfsView ==
  ASSUME Viewed, TypeOK', Placed', FMkBfs
  PROVE  Content' /\ Flat!Next
<1>1. /\ ~hasbuf /\ hasbuf' = TRUE /\ boffset' = 0 /\ iop' = LNote
      /\ itop' = 0 /\ otop' = 0 /\ result' = OK
      /\ UNCHANGED <<disk, open, filsize, failed>>
      /\ call' = [call EXCEPT !.fresh = TRUE]
  BY DEF FMkBfs
<1>2. open
  BY DEF Viewed, Asked, FMkBfs, MayFill, MayStore, Reading, Writing, NoCall
<1>3. Synced
  BY <1>1 DEF Synced
<1>4. View = disk /\ ViewLen = Len(disk)
  BY <1>3, SyncedView DEF Viewed
<1>5. UItop' = 0
  BY <1>1, BufSizeAssumption DEF UItop, Full
<1>6. Synced'
  BY <1>5 DEF Synced
<1>7. View' = disk' /\ ViewLen' = Len(disk')
  BY <1>6, SyncedViewNext
<1>8. LNote' = LNote
  BY <1>1 DEF LNote, Viewed, TypeOK
<1>9. call'.fresh
  BY <1>1 DEF Viewed, TypeOK, Calls
<1>10. Content'
  BY <1>1, <1>2, <1>4, <1>6, <1>7, <1>9 DEF Viewed, Content
<1>11. Moved
  BY <1>1, <1>2, <1>4, <1>7, <1>8, InView DEF Moved
<1> QED BY <1>10, <1>11, FlatMove DEF Viewed

LEMMA FilBufView ==
  ASSUME Steadfast, Viewed, TypeOK', Placed', FilBuf, ~failed'
  PROVE  Content' /\ Flat!Next
<1>1. open /\ open' = open /\ hasbuf' = TRUE
  BY DEF Viewed, Asked, FilBuf, MayFill, Reading, NoCall
<1>2. disk' = View /\ filsize' = Len(disk') /\ Landed(LNote, 0, FALSE)
  <2>1. FFault(LNote, 0, FALSE)
    BY DEF FilBuf
  <2>2. Content
    BY DEF Viewed
  <2> QED BY <1>1, <2>1, <2>2, FaultView DEF Viewed
<1>3. Content' /\ View' = View
  BY <1>2, LandedContent DEF Viewed, Landed
<1>4. LNote' = LNote /\ UNCHANGED failed
  BY <1>2 DEF Landed
<1>5. CASE result' = OK
  <2>1. Moved
    BY <1>1, <1>3, <1>4, <1>5, InView DEF Moved
  <2> QED BY <1>3, <2>1, FlatMove DEF Viewed
<1>6. CASE result' = ATEOF
  <2>1. LNote > ViewLen
    BY <1>2, <1>6, ViewCells DEF Landed, Viewed
  <2> QED BY <1>3, <1>4, <1>6, <2>1, FlatEOF DEF Viewed
<1> QED BY <1>2, <1>5, <1>6 DEF Landed
(***************************************************************************)
(* A pointer into a page that is not all open for writing is not past the  *)
(* data of the page.                                                       *)
(***************************************************************************)
LEMMA PointerInData ==
  ASSUME Viewed, open, hasbuf, ~call.fresh, iop \in Index, otop < BufSize
  PROVE  iop =< itop /\ UItop = itop /\ UOtop = otop
<1>1. ~Full
  BY BufSizeAssumption DEF Full, Viewed, TypeOK
<1>2. UItop = itop /\ UOtop = otop
  BY <1>1 DEF UItop, UOtop
<1>3. /\ iop \in Int /\ itop \in Int /\ boffset \in Int /\ Len(disk) \in Nat /\ ViewLen \in Nat
      /\ iop >= 0 /\ iop < BufSize /\ itop >= 0
  BY ViewCells, BufSizeAssumption DEF Viewed, TypeOK, Index
<1>4. Covers
  BY BufSizeAssumption DEF Viewed, Content, Replacing
<1>5. boffset + iop =< ViewLen + 1
  BY InView DEF LNote
<1>6. SUFFICES ASSUME iop > itop PROVE FALSE
  BY <1>2, <1>3
<1>7. ~(boffset + (iop - 1) =< Len(disk))
  <2>1. iop - 1 \in Index /\ ~(iop - 1 < itop)
    BY <1>3, <1>6, BufSizeAssumption DEF Index
  <2> QED BY <1>2, <1>4, <2>1 DEF Covers
<1>8. ViewLen =< boffset - 1 + itop \/ ViewLen = Len(disk)
  BY <1>2, <1>3, ViewCells DEF Viewed, Max2
<1> QED BY <1>3, <1>5, <1>6, <1>7, <1>8

LEMMA FlsBufView ==
  ASSUME Steadfast, Viewed, TypeOK', Placed', FlsBuf, ~failed'
  PROVE  Content' /\ Flat!Next
<1>1. open /\ open' = open /\ hasbuf' = TRUE /\ hasbuf /\ Writing
  BY DEF Viewed, Asked, FlsBuf, MayStore, Writing, NoCall
<1>2. CASE InPage
  <2>1. /\ ~call.fresh /\ iop \in Index /\ otop < BufSize
        /\ otop' = BufSize /\ result' = OK
        /\ UNCHANGED <<disk, boffset, iop, itop, mem, filsize, failed>>
        /\ call' = [call EXCEPT !.fresh = FALSE]
    BY <1>2, OutcomeType DEF FlsBuf, InPage
  <2>2. iop =< itop /\ UItop = itop /\ UOtop = otop
    BY <1>1, <2>1, PointerInData
  <2>3. itop \in Int /\ iop \in Int /\ itop >= 0 /\ itop =< BufSize /\ otop \in Int
    BY BufSizeAssumption DEF Viewed, TypeOK
  <2>4. UItop' = itop
    BY <1>1, <2>1, <2>2, <2>3, BufSizeAssumption DEF UItop, Full, Min2, Max2
  <2>5. View' = View /\ ViewLen' = ViewLen /\ (~Modified' => Synced')
    <3>1. CASE Modified
      <4>1. UOtop' = itop /\ otop = itop
        <5>1. otop = itop
          BY <2>2, <2>1, <3>1, BufSizeAssumption DEF Viewed, Placed, Tops, Modified
        <5> QED BY <1>1, <2>1, <2>4, <5>1 DEF UOtop, Full
      <4>2. Modified'
        BY <2>2, <3>1, <4>1 DEF Modified
      <4>3. ViewLen' = ViewLen
        BY <2>1, <2>2, <2>4, <3>1, <4>2 DEF ViewLen
      <4>4. View' = View
        BY <1>1, <2>1, <2>2, <2>4, <4>3 DEF View
      <4> QED BY <4>2, <4>3, <4>4
    <3>2. CASE ~Modified
      <4>1. Synced
        BY <3>2 DEF Viewed, Content
      <4>2. Synced'
        BY <1>1, <2>1, <2>2, <2>4, <4>1 DEF Synced
      <4>3. View = disk /\ ViewLen = Len(disk)
        BY <4>1, SyncedView DEF Viewed
      <4>4. View' = disk' /\ ViewLen' = Len(disk')
        BY <4>2, SyncedViewNext
      <4> QED BY <2>1, <4>2, <4>3, <4>4
    <3> QED BY <3>1, <3>2
  <2>6. Covers'
    <3>1. Covers
      BY <1>1, <2>1, BufSizeAssumption DEF Viewed, Content, Replacing
    <3> QED BY <2>1, <2>2, <2>4, <3>1 DEF Covers
  <2>7. Content'
    BY <1>1, <2>1, <2>5, <2>6 DEF Viewed, Content
  <2>8. Moved
    BY <1>1, <2>1, <2>5, InView DEF Moved, LNote
  <2> QED BY <2>7, <2>8, FlatMove DEF Viewed
<1>3. CASE ~InPage
  <2> DEFINE nres == IF call.op = "write" THEN call.max - call.n ELSE 0
  <2>1. FFault(LNote, nres, TRUE)
    BY <1>3 DEF FlsBuf
  <2>2. nres \in Nat
    BY DEF Viewed, TypeOK, Calls, NoCall
  <2> HIDE DEF nres
  <2>3. disk' = View /\ filsize' = Len(disk') /\ Landed(LNote, nres, TRUE)
    <3>1. Content
      BY DEF Viewed
    <3> QED BY <1>1, <2>1, <2>2, <3>1, FaultView DEF Viewed
  <2>4. result' = OK /\ call' = [call EXCEPT !.fresh = FALSE]
    BY <2>3, OutcomeType DEF Landed, FlsBuf
  <2>5. Replacing' \/ Covers'
    <3>1. ASSUME nres >= BufSize, otop' = BufSize, itop' = 0, iop' = 0 PROVE Replacing'
      <4>1. call.op = "write" /\ call.max - call.n >= BufSize
        BY <3>1, BufSizeAssumption DEF nres
      <4>2. call'.op = call.op /\ call'.max = call.max /\ call'.n = call.n
        BY <2>4 DEF Viewed, TypeOK, Calls
      <4> QED BY <3>1, <4>1, <4>2 DEF Replacing
    <3> QED BY <2>3, <3>1 DEF Landed
  <2>6. Content' /\ View' = View
    BY <2>3, <2>5, LandedContent DEF Viewed, Landed
  <2>7. Moved
    BY <1>1, <2>3, <2>4, <2>6, InView DEF Moved, Landed
  <2> QED BY <2>6, <2>7, FlatMove DEF Viewed
<1> QED BY <1>2, <1>3
LEMMA SeekView ==
  ASSUME Viewed, Idle, NEW off \in 1 .. ViewLen + 1, SeekTo(off),
         filsize' = filsize \/ filsize' = FFilSz
  PROVE  Content' /\ Flat!Next
<1>1. /\ itop' = UItop /\ otop' = UOtop /\ iop' = off - boffset /\ result' = OK
      /\ UNCHANGED <<disk, open, hasbuf, boffset, mem, call, failed>>
      /\ open /\ call = NoCall
  BY DEF SeekTo, Idle
<1>2. off \in Int /\ boffset \in Int
  BY ViewCells DEF Viewed, TypeOK
<1>3. UItop' = UItop /\ UOtop' = UOtop
  BY <1>1, <1>2, UpdateTwice DEF Viewed
<1>4. View' = View /\ ViewLen' = ViewLen /\ Modified' = Modified
  BY <1>1, <1>3 DEF View, ViewLen, Modified
<1>5. ~Replacing /\ ~call.fresh
  BY <1>1 DEF Replacing, NoCall
<1>6. Synced' = Synced /\ Covers' = Covers
  BY <1>1, <1>3 DEF Synced, Covers
<1>7. filsize' =< ViewLen
  BY <1>1, InView, ViewCells DEF Viewed, Content
<1>8. Content'
  BY <1>1, <1>4, <1>5, <1>6, <1>7 DEF Viewed, Content
<1>9. LNote' = off
  BY <1>1, <1>2 DEF LNote
<1>10. Moved
  BY <1>1, <1>4, <1>9 DEF Moved
<1> QED BY <1>8, <1>10, FlatMove DEF Viewed

(***************************************************************************)
(* FLUSH and CLOSE put on the device what the program sees.                *)
(***************************************************************************)
LEMMA OutView ==
  ASSUME Steadfast, Viewed, open, FlushOut, ~failed'
  PROVE  /\ disk' = View /\ filsize' = Len(disk')
         /\ result' = OK /\ UNCHANGED failed /\ FlushedOtop = 0
<1>1. UOtop \in Int /\ UOtop >= 0
  BY UpdatedTops, BufSizeAssumption DEF Viewed
<1>2. CASE Modified
  <2>1. Writable(boffset)
    BY <1>2, ModifiedPlaced DEF Viewed
  <2>2. PICK r \in WriteResults(UOtop) :
           /\ FlushPage(UOtop, r) /\ result' = IF r = ERR THEN FAILED ELSE OK
           /\ failed' = (failed \/ r = ERR)
    BY <1>2, <2>1 DEF FlushOut
  <2>3. r # ERR
    BY <2>2
  <2>4. failed' = failed
    BY <2>2, <2>3 DEF Viewed, TypeOK
  <2> QED BY <1>2, <2>1, <2>2, <2>3, <2>4, FlushView DEF Viewed, FlushedOtop
<1>3. CASE ~Modified
  <2>1. View = disk /\ ViewLen = Len(disk)
    BY <1>3, SyncedView DEF Viewed, Content
  <2>2. filsize = ViewLen
    BY <1>3, InView, FileSize DEF Viewed
  <2>3. FlushedOtop = 0
    BY <1>1, <1>3 DEF FlushedOtop, Modified
  <2> QED BY <1>3, <2>1, <2>2, <2>3 DEF FlushOut
<1> QED BY <1>2, <1>3

LEMMA FlushFlat ==
  ASSUME Steadfast, Viewed, TypeOK', Placed', Flush, ~failed'
  PROVE  Content' /\ Flat!Next
<1>1. /\ open /\ call = NoCall /\ FlushOut
      /\ itop' = UItop /\ otop' = FlushedOtop
      /\ UNCHANGED <<open, hasbuf, boffset, iop, mem, call>>
  BY DEF Flush, Idle
<1>2. /\ disk' = View /\ filsize' = Len(disk')
      /\ result' = OK /\ UNCHANGED failed /\ otop' = 0
  BY <1>1, OutView
<1>3. UItop' = UItop
  BY <1>1, <1>2, BufSizeAssumption DEF UItop, Full
<1>4. UItop \in Int /\ boffset \in Int /\ Len(disk) \in Nat /\ ViewLen \in Nat
  BY UpdatedTops, ViewCells, BufSizeAssumption DEF Viewed, TypeOK
<1>5. Len(disk') = ViewLen
  BY <1>2, ViewCells DEF Viewed
<1>6. Synced'
  <2>1. CASE Modified
    <3>1. hasbuf /\ boffset >= 1
      BY <2>1, ModifiedPlaced DEF Viewed, Writable
    <3>2. ViewLen >= boffset - 1 + UItop
      BY <2>1, ViewCells DEF Viewed
    <3>3. ASSUME NEW i \in 0 .. UItop - 1
          PROVE  boffset + i \in 1 .. ViewLen /\ mem[i] = View[boffset + i]
      <4>1. boffset + i \in 1 .. ViewLen /\ (boffset + i) - boffset = i
        BY <1>4, <3>1, <3>2
      <4> QED BY <3>1, <4>1, ViewCells DEF Viewed
    <3> QED BY <1>1, <1>2, <1>3, <1>5, <3>3 DEF Synced
  <2>2. CASE ~Modified
    <3>1. Synced
      BY <2>2 DEF Viewed, Content
    <3>2. View = disk
      BY <3>1, SyncedView DEF Viewed
    <3> QED BY <1>1, <1>2, <1>3, <3>1, <3>2 DEF Synced
  <2> QED BY <2>1, <2>2
<1>7. hasbuf' => Covers'
  <2>1. ASSUME hasbuf, NEW i \in Index, boffset + i =< ViewLen PROVE i < UItop
    <3>1. Covers /\ i \in Int
      BY <1>1, <2>1, BufSizeAssumption DEF Viewed, Content, Replacing, NoCall, Index
    <3>2. CASE boffset + i =< Len(disk)
      BY <3>1, <3>2 DEF Covers
    <3>3. CASE ~(boffset + i =< Len(disk))
      <4>1. ViewLen = Max2(Len(disk), boffset - 1 + UItop)
        BY <1>4, <2>1, <3>1, <3>3, ViewCells DEF Viewed
      <4> QED BY <1>4, <2>1, <3>1, <3>3, <4>1 DEF Max2
    <3> QED BY <3>2, <3>3
  <2> QED BY <1>1, <1>3, <1>5, <2>1 DEF Covers
<1>8. Content' /\ View' = View
  BY <1>2, <1>6, <1>7, LandedContent DEF Viewed
<1>9. Moved
  BY <1>1, <1>2, <1>8, InView DEF Moved, LNote
<1> QED BY <1>8, <1>9, FlatMove DEF Viewed

LEMMA CloseFlat ==
  ASSUME Steadfast, Viewed, TypeOK', Placed', Close, ~failed'
  PROVE  Content' /\ Flat!Next
<1>1. open /\ FlushOut
  BY DEF Close, Idle
<1>2. /\ disk' = View /\ filsize' = Len(disk')
      /\ result' = OK /\ UNCHANGED failed
  BY <1>1, OutView
<1>3. hasbuf' = FALSE /\ boffset' = 1 /\ iop' = 0
  BY <1>2, OutcomeType DEF Close, Release
<1>4. Content' /\ View' = View
  BY <1>2, <1>3, LandedContent DEF Viewed, Synced
<1>5. LNote' \in 1 .. ViewLen + 1
  BY <1>3, ViewCells DEF LNote, Viewed
<1> QED BY <1>2, <1>4, <1>5, FlatMove DEF Viewed, Moved
(***************************************************************************)
(* What READ copies out of the buffer is what FlatFile delivers.           *)
(***************************************************************************)
LEMMA Excerpt ==
  ASSUME NEW S, NEW s \in Seq(S), NEW p \in Nat, NEW k \in Nat,
         p >= 1, k >= 1, p + k - 1 =< Len(s)
  PROVE  SubSeq(s, p, p + k - 1) = [i \in 1 .. k |-> s[p + i - 1]]
OBVIOUS

LEMMA DataView ==
  ASSUME Viewed, InData
  PROVE  /\ hasbuf /\ ~call.fresh /\ UItop = itop
         /\ boffset - 1 + itop =< ViewLen
         /\ \A i \in 0 .. itop - 1 : boffset + i \in 1 .. ViewLen => View[boffset + i] = mem[i]
<1>1. /\ iop \in Int /\ itop \in Int /\ iop >= 0 /\ iop < itop /\ itop =< BufSize
      /\ boffset \in Int /\ ViewLen \in Nat /\ Len(disk) \in Nat
  BY ViewCells, BufSizeAssumption DEF InData, Viewed, TypeOK
<1>2. hasbuf /\ ~call.fresh
  BY <1>1 DEF Viewed, Placed, Owned, Fresh
<1>3. UItop = itop
  BY <1>1, BufSizeAssumption DEF UItop, Min2, Max2
<1>4. boffset - 1 + itop =< ViewLen
  <2>1. CASE Modified
    BY <1>3, <2>1, ViewCells DEF Viewed
  <2>2. CASE ~Modified
    <3>1. Synced
      BY <2>2 DEF Viewed, Content
    <3>2. itop - 1 \in 0 .. UItop - 1
      BY <1>1, <1>3
    <3>3. boffset + (itop - 1) \in 1 .. Len(disk)
      BY <1>2, <3>1, <3>2 DEF Synced
    <3>4. ViewLen = Len(disk)
      BY <2>2, ViewCells DEF Viewed
    <3> QED BY <1>1, <3>3, <3>4
  <2> QED BY <2>1, <2>2
<1>5. ASSUME NEW i \in 0 .. itop - 1, boffset + i \in 1 .. ViewLen
      PROVE  View[boffset + i] = mem[i]
  <2>1. (boffset + i) - boffset = i
    BY <1>1
  <2> QED BY <1>2, <1>3, <1>5, <2>1, ViewCells DEF Viewed
<1> QED BY <1>2, <1>3, <1>4, <1>5

LEMMA CopyOutView ==
  ASSUME Viewed, CopyOut
  PROVE  Content' /\ Flat!Next
<1> DEFINE k == Min2(call.lim - call.n, itop - iop)
<1>1. /\ Reading /\ InData
      /\ result' = Outcome("ok", [i \in 1 .. k |-> mem[iop + i - 1]])
      /\ iop' = iop + k
      /\ call' = IF call.n + k = call.lim THEN NoCall ELSE [call EXCEPT !.n = @ + k]
      /\ UNCHANGED <<disk, open, hasbuf, boffset, itop, otop, mem, filsize, failed>>
  BY DEF CopyOut
<1>2. /\ call.n \in Nat /\ call.lim \in Nat /\ call.max \in Nat
      /\ call.n < call.lim /\ call.lim =< call.max /\ call.max =< MaxXfer /\ MaxXfer \in Nat
      /\ open
  BY <1>1, BoundsAssumption DEF Viewed, TypeOK, Calls, Asked, Reading, NoCall
<1>3. /\ iop \in Int /\ itop \in Int /\ iop >= 0 /\ iop < itop /\ itop =< BufSize
      /\ boffset \in Int /\ ViewLen \in Nat
  BY <1>1, ViewCells, BufSizeAssumption DEF InData, Viewed, TypeOK
<1>4. k \in Int /\ k >= 1 /\ k =< MaxXfer /\ iop + k =< itop
  BY <1>2, <1>3 DEF Min2
<1>5. /\ hasbuf /\ ~call.fresh /\ UItop = itop /\ boffset - 1 + itop =< ViewLen
      /\ \A i \in 0 .. itop - 1 : boffset + i \in 1 .. ViewLen => View[boffset + i] = mem[i]
  BY <1>1, DataView
<1>6. LNote \in Int /\ LNote >= 1 /\ LNote = boffset + iop
  BY <1>2, <1>3, InView DEF LNote
<1> HIDE DEF k
<1>7. UItop' = UItop
  <2>1. /\ itop' = itop /\ iop' = iop + k /\ Full' = Full
        /\ UItop' = IF Full' THEN Min2(BufSize, Max2(itop', iop')) ELSE itop'
    BY <1>1 DEF UItop, Full
  <2>2. Max2(itop', iop') = itop
    BY <1>3, <1>4, <2>1 DEF Max2
  <2>3. Min2(BufSize, itop) = itop
    BY <1>3, BufSizeAssumption DEF Min2
  <2> QED BY <1>5, <2>1, <2>2, <2>3
<1>8. Modified' = Modified
  BY <1>1, <1>7 DEF Modified, UOtop, Full
<1>9. View' = View /\ ViewLen' = ViewLen /\ Synced' = Synced /\ Covers' = Covers
  BY <1>1, <1>7, <1>8 DEF View, ViewLen, Synced, Covers
<1>10. Content'
  <2>1. ~Replacing
    BY <1>1 DEF Replacing, Reading
  <2> QED BY <1>1, <1>5, <1>8, <1>9, <2>1 DEF Viewed, Content
<1>11. [i \in 1 .. k |-> mem[iop + i - 1]] = SubSeq(View, LNote, LNote + k - 1)
  <2>1. ASSUME NEW i \in 1 .. k PROVE mem[iop + i - 1] = View[LNote + i - 1]
    <3>1. /\ iop + i - 1 \in 0 .. itop - 1
          /\ boffset + (iop + i - 1) \in 1 .. ViewLen
          /\ boffset + (iop + i - 1) = LNote + i - 1
      BY <1>3, <1>4, <1>5, <1>6
    <3> QED BY <1>5, <3>1
  <2>2. SubSeq(View, LNote, LNote + k - 1) = [i \in 1 .. k |-> View[LNote + i - 1]]
    <3> DEFINE S == {View[i] : i \in 1 .. ViewLen}
    <3>1. View \in Seq(S)
      <4>1. View = [i \in 1 .. ViewLen |-> View[i]]
        BY ViewCells DEF Viewed, View
      <4> DEFINE n == ViewLen
                 v == View
      <4> HIDE DEF n, v
      <4>2. n \in Nat /\ v = [i \in 1 .. n |-> v[i]]
        BY <1>3, <4>1 DEF n, v
      <4>3. v \in Seq({v[i] : i \in 1 .. n})
        BY <4>2
      <4> QED BY <4>3 DEF n, v
    <3> HIDE DEF S
    <3> QED BY <1>3, <1>4, <1>5, <1>6, <3>1, ViewCells, Excerpt DEF Viewed
  <2> QED BY <2>1, <2>2
<1>12. LNote' = LNote + k
  BY <1>1, <1>3, <1>4, <1>6 DEF LNote
<1>13. Flat!Deliver(k)
  <2>1. k \in 1 .. Len(View) - LNote + 1
    BY <1>3, <1>4, <1>5, <1>6, ViewCells DEF Viewed
  <2> QED BY <1>1, <1>9, <1>11, <1>12, <2>1 DEF Flat!Deliver, Flat!Outcome, Outcome
<1> QED BY <1>4, <1>10, <1>13 DEF Flat!Next
(***************************************************************************)
(* WRITE and PUTC lay characters over the view; the top of the valid data  *)
(* follows the pointer.                                                    *)
(***************************************************************************)
LEMMA RoomTops ==
  ASSUME Viewed, InRoom, open, NEW k \in Nat, k >= 1, iop + k =< otop,
         iop' = iop + k, UNCHANGED <<disk, hasbuf, boffset, itop, otop>>
  PROVE  /\ hasbuf /\ ~call.fresh /\ iop =< UItop
         /\ UItop' = Max2(UItop, iop + k) /\ Modified'
         /\ ViewLen = Max2(Len(disk), boffset - 1 + UItop)
         /\ ViewLen' = Max2(Len(disk), boffset - 1 + UItop')
<1>1. /\ iop \in Int /\ itop \in Int /\ otop \in Int /\ boffset \in Int
      /\ iop >= 0 /\ iop < otop /\ otop =< BufSize /\ itop >= 0 /\ itop =< BufSize
      /\ Len(disk) \in Nat
  BY BufSizeAssumption DEF InRoom, Viewed, TypeOK
<1>2. hasbuf /\ ~call.fresh
  BY <1>1 DEF Viewed, Placed, Owned, Fresh
<1>3. otop = BufSize \/ otop = itop
  BY <1>1 DEF Viewed, Placed, Tops
<1>4. Full' = Full /\ (Full <=> otop = BufSize)
  BY <1>2 DEF Full
<1>5. UItop = (IF Full THEN Max2(itop, iop) ELSE itop) /\ UItop \in Int
  <2>1. Min2(BufSize, Max2(itop, iop)) = Max2(itop, iop)
    BY <1>1, BufSizeAssumption DEF Min2, Max2
  <2> QED BY <1>1, <2>1 DEF UItop, Max2
<1>6. UItop' = IF Full THEN Max2(itop, iop + k) ELSE itop
  <2>1. UItop' = IF Full' THEN Min2(BufSize, Max2(itop', iop')) ELSE itop'
    BY DEF UItop
  <2>2. Min2(BufSize, Max2(itop, iop + k)) = Max2(itop, iop + k)
    BY <1>1, BufSizeAssumption DEF Min2, Max2
  <2> QED BY <1>4, <2>1, <2>2
<1>7. iop =< UItop /\ UItop' = Max2(UItop, iop + k)
  BY <1>1, <1>3, <1>4, <1>5, <1>6 DEF Max2
<1>8. Modified'
  <2>1. UOtop' = IF Full THEN UItop' ELSE otop
    BY <1>4 DEF UOtop
  <2> QED BY <1>1, <1>5, <1>7, <2>1 DEF Modified, Max2
<1>9. ViewLen' = Max2(Len(disk), boffset - 1 + UItop')
  BY <1>8 DEF ViewLen
<1>10. ViewLen = Max2(Len(disk), boffset - 1 + UItop)
  <2>1. CASE Modified
    BY <2>1, ViewCells DEF Viewed
  <2>2. CASE ~Modified
    <3>1. UItop = 0 /\ iop = 0
      BY <1>1, <1>3, <1>4, <1>5, <2>2 DEF Modified, UOtop, Max2
    <3>2. ViewLen = Len(disk)
      BY <2>2, ViewCells DEF Viewed
    <3>3. boffset =< Len(disk) + 1
      BY <1>1, <3>1, <3>2, InView DEF LNote
    <3> QED BY <1>1, <3>1, <3>2, <3>3 DEF Max2
  <2> QED BY <2>1, <2>2
<1> QED BY <1>2, <1>7, <1>8, <1>9, <1>10

LEMMA CopyInView ==
  ASSUME Viewed, TypeOK', Placed', CopyIn
  PROVE  Content' /\ Flat!Next
<1> DEFINE k == Min2(call.lim - call.n, otop - iop)
<1>1. /\ Writing /\ InRoom /\ iop' = iop + k /\ result' = OK
      /\ mem' = [i \in Index |-> IF i \in iop .. iop + k - 1 THEN call.ch ELSE mem[i]]
      /\ call' = IF call.n + k = call.lim THEN NoCall ELSE [call EXCEPT !.n = @ + k]
      /\ UNCHANGED <<disk, open, hasbuf, boffset, itop, otop, filsize, failed>>
  BY DEF CopyIn
<1>2. /\ call.n \in Nat /\ call.lim \in Nat /\ call.max \in Nat
      /\ call.n < call.lim /\ call.lim = call.max /\ call.max =< MaxXfer /\ MaxXfer \in Nat
      /\ open /\ call.ch \in Char
  BY <1>1, BoundsAssumption DEF Viewed, TypeOK, Calls, Asked, Writing, NoCall
<1>3. /\ iop \in Int /\ otop \in Int /\ iop >= 0 /\ iop < otop /\ otop =< BufSize
      /\ boffset \in Int /\ ViewLen \in Nat /\ UItop \in Int /\ Len(disk) \in Nat
  BY <1>1, ViewCells, UpdatedTops, BufSizeAssumption DEF InRoom, Viewed, TypeOK
<1>4. k \in Nat /\ k >= 1 /\ k =< MaxXfer /\ iop + k =< otop
  BY <1>2, <1>3 DEF Min2
<1> HIDE DEF k
<1>5. /\ hasbuf /\ ~call.fresh /\ iop =< UItop
      /\ UItop' = Max2(UItop, iop + k) /\ Modified'
      /\ ViewLen = Max2(Len(disk), boffset - 1 + UItop)
      /\ ViewLen' = Max2(Len(disk), boffset - 1 + UItop')
  BY <1>1, <1>2, <1>4, RoomTops
<1> DEFINE t == UItop
           top == UItop'
           end == boffset + iop + k - 1
           len == IF end > ViewLen THEN end ELSE ViewLen
<1>6. t \in Int /\ top \in Int /\ t =< top /\ iop + k =< top /\ (top = t \/ top = iop + k)
      /\ iop =< t
  BY <1>3, <1>4, <1>5 DEF Max2
<1>7. ViewLen' = len
  BY <1>3, <1>4, <1>5, <1>6 DEF Max2
<1>8. LNote = boffset + iop /\ LNote \in Int /\ LNote >= 1 /\ LNote =< ViewLen + 1
  BY <1>2, <1>3, InView DEF LNote
<1>9. LNote' = LNote + k
  BY <1>1, <1>3, <1>4, <1>8 DEF LNote
<1>10. ViewLen =< len /\ len \in Int /\ end \in Int /\ end = LNote + k - 1
  BY <1>3, <1>4, <1>8
<1> DEFINE d(i) == IF i <= Len(disk) THEN disk[i] ELSE Zero
<1>11. ASSUME NEW i \in 1 .. len
       PROVE  (IF hasbuf' /\ i - boffset' \in 0 .. top - 1 THEN mem'[i - boffset'] ELSE d(i))
                = IF i \in LNote .. end THEN call.ch ELSE View[i]
  <2> HIDE DEF t, top, end, len, d
  <2>1. i \in Int /\ i >= 1 /\ i =< len
    BY <1>10
  <2> DEFINE c == i - boffset
  <2>2. c \in Int /\ (i \in LNote .. end <=> c \in iop .. iop + k - 1)
    BY <1>3, <1>4, <1>8, <1>10, <2>1
  <2>3. CASE i \in LNote .. end
    <3>1. c \in iop .. iop + k - 1
      BY <2>2, <2>3
    <3> HIDE DEF c
    <3>2. c \in 0 .. top - 1
      BY <1>3, <1>4, <1>6, <2>2, <3>1
    <3>3. c \in Index
      BY <1>3, <1>4, <2>2, <3>1, BufSizeAssumption DEF Index
    <3>4. mem'[c] = call.ch
      BY <1>1, <3>1, <3>3
    <3> QED BY <1>1, <1>5, <2>3, <3>2, <3>4 DEF c
  <2>4. CASE ~(i \in LNote .. end)
    <3>1. ~(c \in iop .. iop + k - 1)
      BY <2>2, <2>4
    <3>2. i =< ViewLen
      BY <1>3, <1>8, <1>10, <2>1, <2>4 DEF len
    <3>3. View[i] = IF c \in 0 .. t - 1 THEN mem[c] ELSE d(i)
      BY <1>5, <2>1, <3>2, <1>3, ViewCells DEF Viewed, d, t
    <3> HIDE DEF c
    <3>4. c \in 0 .. top - 1 <=> c \in 0 .. t - 1
      BY <1>3, <1>4, <1>6, <2>2, <3>1
    <3>5. c \in 0 .. t - 1 => c \in Index
      <4>1. t \in Int /\ t =< BufSize
        BY UpdatedTops, BufSizeAssumption DEF t, Viewed
      <4> QED BY <4>1, <2>2, BufSizeAssumption DEF Index
    <3>6. c \in Index => mem'[c] = mem[c]
      BY <1>1, <3>1
    <3> QED BY <1>1, <1>5, <2>4, <3>3, <3>4, <3>5, <3>6 DEF c
  <2> QED BY <2>3, <2>4
<1>12. View' = [i \in 1 .. len |-> IF i \in LNote .. end THEN call.ch ELSE View[i]]
  <2>1. View' = [i \in 1 .. len |->
                   IF hasbuf' /\ i - boffset' \in 0 .. top - 1 THEN mem'[i - boffset'] ELSE d(i)]
    BY <1>1, <1>7 DEF View
  <2> HIDE DEF len, top, end, d
  <2> QED BY <1>11, <2>1
<1>13. Content'
  <2>1. filsize' =< ViewLen'
    <3>1. filsize =< ViewLen /\ filsize \in Nat
      BY <1>2 DEF Viewed, Content, TypeOK
    <3> HIDE DEF len
    <3> QED BY <1>1, <1>3, <1>7, <1>10, <3>1
  <2>2. Covers'
    <3>1. ASSUME NEW i \in Index, boffset + i =< Len(disk) PROVE i < top
      <4>1. i \in Int /\ i < BufSize
        BY BufSizeAssumption DEF Index
      <4>2. CASE Covers
        <5>1. i < t
          BY <3>1, <4>2 DEF Covers
        <5> HIDE DEF t, top
        <5> QED BY <1>6, <4>1, <5>1
      <4>3. CASE Replacing
        <5>1. k = BufSize /\ iop = 0
          BY <1>2, <4>3, BufSizeAssumption DEF Replacing, k, Min2
        <5> HIDE DEF t, top
        <5> QED BY <1>6, <4>1, <5>1, BufSizeAssumption
      <4> QED BY <1>5, <4>2, <4>3 DEF Viewed, Content
    <3> QED BY <1>1, <3>1 DEF Covers
  <2> QED BY <1>5, <2>1, <2>2 DEF Content
<1>14. Flat!Store(call.ch, k)
  <2>1. /\ LNote + k - 1 = end /\ Len(View) = ViewLen /\ LNote =< Len(View) + 1
    BY <1>8, <1>10, ViewCells DEF Viewed
  <2> HIDE DEF end
  <2> QED BY <1>1, <1>4, <1>9, <1>12, <2>1 DEF Flat!Store, Flat!Outcome, OK, Outcome
<1> QED BY <1>2, <1>4, <1>13, <1>14 DEF Flat!Next
-----------------------------------------------------------------------------
(***************************************************************************)
(* Every step is one of FlatFile's or changes nothing it shows.            *)
(***************************************************************************)
LEMMA FailedStays == ASSUME failed = TRUE, [Next]_vars PROVE failed' = TRUE
BY DEF Next, vars, Open, GetC, Read, PutC, Write, Enter, NoPermission, FMkBfs, FilBuf,
   FlsBuf, FFault, MarkEmpty, WriteFailed, PickUp, Land, CopyOut, CopyIn, Seek, SeekEOF,
   SeekTo, Flush, Close, FlushOut, Cancel

LEMMA FlatStep ==
  ASSUME Steadfast, TypeOK, TypeOK', Placed, Placed', Asked, Faithful, [Next]_vars
  PROVE  Faithful' /\ [Flat!Next]_(Flat!vars)
<1>1. CASE failed'
  <2>1. failed' = TRUE
    BY <1>1 DEF TypeOK
  <2> QED BY <2>1, FlatFail DEF Faithful
<1>2. CASE ~failed'
  <2>1. Viewed
    <3>1. ~failed
      BY <1>2, FailedStays DEF TypeOK
    <3> QED BY <3>1 DEF Viewed, Faithful
  <2>2. Careful /\ CanRead
    BY DEF Steadfast
  <2>3. SUFFICES Content' /\ [Flat!Next]_(Flat!vars)
    BY DEF Faithful
  <2>4. CASE UNCHANGED vars
    <3>1. UNCHANGED <<disk, hasbuf, boffset, iop, itop, otop, mem>>
      BY <2>4 DEF vars
    <3>2. /\ View' = View /\ ViewLen' = ViewLen /\ LNote' = LNote /\ Modified' = Modified
          /\ Synced' = Synced /\ Covers' = Covers
      BY <3>1, SameView
    <3>3. Content'
      BY <2>1, <2>4, <3>2 DEF vars, Viewed, Content, Replacing
    <3> QED BY <2>4, <3>2, <3>3 DEF vars, Flat!vars
  <2>5. CASE GetC \/ (\E n \in 1 .. MaxXfer : Read(n)) \/ (\E ch \in Char : PutC(ch))
             \/ (\E n \in 1 .. MaxXfer, ch \in Char : Write(n, ch))
    BY <2>1, <2>5, EnterView DEF GetC, Read, PutC, Write
  <2>6. CASE NoPermission
    BY <2>1, <2>2, <2>6, RefusedView
  <2>7. CASE FMkBfs
    BY <2>1, <2>7, FMkBfsView
  <2>8. CASE FilBuf
    BY <1>2, <2>1, <2>8, FilBufView
  <2>9. CASE FlsBuf
    BY <1>2, <2>1, <2>9, FlsBufView
  <2>10. CASE CopyOut
    BY <2>1, <2>10, CopyOutView
  <2>11. CASE CopyIn
    BY <2>1, <2>11, CopyInView
  <2>12. ASSUME NEW off \in 0 .. MaxOff, Seek(off) PROVE Content' /\ Flat!Next
    <3>1. off \in 1 .. FFilSz + 1 /\ Idle /\ SeekTo(off) /\ filsize' = filsize
      BY <2>2, <2>12 DEF Seek, Careful
    <3>2. FFilSz = ViewLen
      BY <2>1, <3>1, InView DEF Idle
    <3> QED BY <2>1, <3>1, <3>2, SeekView
  <2>13. CASE SeekEOF
    <3>1. Idle /\ SeekTo(FFilSz + 1) /\ filsize' = FFilSz
      BY <2>13 DEF SeekEOF
    <3>2. FFilSz = ViewLen
      BY <2>1, <3>1, InView DEF Idle
    <3>3. FFilSz + 1 \in 1 .. ViewLen + 1
      BY <2>1, <3>2, ViewCells DEF Viewed
    <3> QED BY <2>1, <3>1, <3>3, SeekView
  <2>14. CASE Flush
    BY <1>2, <2>1, <2>14, FlushFlat
  <2>15. CASE Close
    BY <1>2, <2>1, <2>15, CloseFlat
  <2>16. ~Cancel
    BY <2>2 DEF Cancel, Careful
  <2>17. CASE \E atEnd \in BOOLEAN : Open(atEnd)
    BY <2>1, <2>17, OpenView
  <2> QED BY <2>4, <2>5, <2>6, <2>7, <2>8, <2>9, <2>10, <2>11, <2>12, <2>13, <2>14,
             <2>15, <2>16, <2>17 DEF Next
<1> QED BY <1>1, <1>2

LEMMA FlatInit == ASSUME Init PROVE Faithful /\ Flat!Init
<1>1. ~hasbuf /\ otop = 0 /\ boffset = 1 /\ iop = 0 /\ ~open /\ result = OK /\ failed = FALSE
  BY DEF Init
<1>2. TypeOK
  BY InitType
<1>3. ViewLen = Len(disk) /\ ~Modified /\ UItop = itop
  BY <1>1, BufSizeAssumption DEF ViewLen, Modified, UOtop, UItop, Full
<1>4. View = [i \in 1 .. Len(disk) |-> disk[i]]
  BY <1>1, <1>3 DEF View
<1>5. View = disk /\ Len(disk) \in Nat
  BY <1>2, <1>4, DiskCells
<1>6. disk \in Seq(Char)
  <2>1. PICK n \in 0 .. Min2(MaxOff, BufSize + 1) : disk \in [1 .. n -> Char]
    BY DEF Init, Content0
  <2>2. n \in Nat
    BY BoundsAssumption, BufSizeAssumption DEF Min2
  <2> QED BY <2>1, <2>2
<1>7. Faithful
  BY <1>1 DEF Faithful, Content, Synced
<1>8. LNote = 1
  BY <1>1 DEF LNote
<1> QED BY <1>1, <1>5, <1>6, <1>7, <1>8 DEF Flat!Init, Flat!Outcome, OK, Outcome

(***************************************************************************)
(* IsFlatFile: a binary file opened by a careful program that may read it, *)
(* on a device that writes all it is given, is a flat array of characters: *)
(* what is read is what was last written there, end of file is reported    *)
(* only at the end, and seeks, flushes and closes lose nothing, until an   *)
(* i/o error is reported (FFAULT, FILBUF, FLSBUF, SEEK, FLUSH, CLOSE).     *)
(***************************************************************************)
THEOREM ImplementsFlatFile == ASSUME Steadfast PROVE Spec => IsFlatFile
<1>1. Careful
  BY DEF Steadfast
<1>2. Init => Faithful /\ Flat!Init
  BY FlatInit
<1>3. TypeOK /\ TypeOK' /\ Placed /\ Placed' /\ Asked /\ Faithful /\ [Next]_vars
        => Faithful' /\ [Flat!Next]_(Flat!vars)
  BY FlatStep
<1> QED BY <1>1, <1>2, <1>3, TypeCorrect, PlacedInvariant, AskedSettled, PTL
        DEF Spec, IsFlatFile, Flat!Spec
=============================================================================
