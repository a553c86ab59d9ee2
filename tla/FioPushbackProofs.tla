------------------------- MODULE FioPushbackProofs -------------------------
(***************************************************************************)
(* Proofs about input that is pushed back, for every size of the two       *)
(* buffers and every sequence of calls: the data and the frames of the     *)
(* pushback buffer never meet.                                             *)
(***************************************************************************)
EXTENDS FioPushback, FioBufferProofs, FiniteSetTheorems

(***************************************************************************)
(* A stack of blocks that fits: each lies above all that were pushed       *)
(* before it, and the frames start above the last.                         *)
(***************************************************************************)
Frames == [iop : 0 .. PbSize, itop : 0 .. PbSize]
TopOf(s) == IF s = <<>> THEN 0 ELSE s[Len(s)].itop

Stacked(s) ==
    /\ s \in Seq(Frames)
    /\ \A d \in 1 .. Len(s) : s[d].iop <= s[d].itop
    /\ \A d, e \in 1 .. Len(s) : d < e => s[d].itop <= s[e].iop
    /\ TopOf(s) <= Sp(Len(s))

PbParts == /\ haspb \in BOOLEAN /\ below \in BOOLEAN
           /\ pbmem \in [PbIndex -> Cell]
           /\ stack # <<>> => haspb /\ hasbuf

PbIInv == TypeOK /\ PbParts /\ Stacked(stack)
-----------------------------------------------------------------------------
(***************************************************************************)
(* FPBSP, below the frames: each frame takes FrameSize chars.              *)
(***************************************************************************)
LEMMA SpNext ==
  ASSUME NEW n \in Nat
  PROVE  Sp(n) \in Int /\ Sp(n + 1) = Sp(n) - FrameSize /\ Sp(n) <= PbSize
<1>1. n * FrameSize \in Nat /\ (n + 1) * FrameSize = n * FrameSize + FrameSize
  BY PbAssumption
<1> QED BY <1>1, PbAssumption DEF Sp

LEMMA SpFewer ==
  ASSUME NEW n \in Nat, NEW m \in 0 .. n PROVE Sp(n) <= Sp(m)
<1>1. PICK k \in Nat : n = m + k
  <2>1. n - m \in Nat /\ n = m + (n - m)
    OBVIOUS
  <2> QED BY <2>1
<1>2. n * FrameSize = (m * FrameSize) + (k * FrameSize)
  BY <1>1, PbAssumption
<1>3. k * FrameSize \in Nat /\ m * FrameSize \in Nat
  BY <1>1, PbAssumption
<1> QED BY <1>2, <1>3, PbAssumption DEF Sp

(***************************************************************************)
(* The largest of some numbers up to n, which FILBUF finds by popping one  *)
(* frame after the other.                                                  *)
(***************************************************************************)
LEMMA Largest ==
  ASSUME NEW n \in Nat, NEW T \in SUBSET (1 .. n), T # {}
  PROVE  \E d \in T : \A e \in T : e <= d
<1> DEFINE N == 1 .. n
           R == StrictSubsetOrdering(N)
           Above(x) == {y \in T : y > x}
           U == {Above(x) : x \in T}
<1>1. FiniteSubsetsOf(N) = SUBSET N
  <2>1. IsFiniteSet(N)
    BY FS_Interval
  <2> HIDE DEF N
  <2> QED BY <2>1, FS_FiniteSubsetsOfFinite
<1>2. IsWellFoundedOn(R, SUBSET N)
  BY <1>1, FS_StrictSubsetOrderingWellFounded
<1>3. U \subseteq SUBSET N /\ U # {}
  OBVIOUS
<1>4. PICK u \in U : \A v \in U : ~(<<v, u>> \in R)
  <2> HIDE DEF R, U
  <2> QED BY <1>2, <1>3, WFMin
<1>5. PICK d \in T : u = Above(d)
  OBVIOUS
<1>6. ASSUME NEW e \in T PROVE e <= d
  <2>0. e \in Nat /\ d \in Nat /\ \A y \in T : y \in Nat /\ y \in N
    OBVIOUS
  <2>1. SUFFICES ASSUME e > d PROVE FALSE
    OBVIOUS
  <2>2. e \in Above(d) /\ e \notin Above(e)
    BY <2>0, <2>1
  <2>3. Above(e) \subseteq Above(d) /\ Above(e) # Above(d) /\ Above(d) \subseteq N
    <3>1. ASSUME NEW y \in T, y > e PROVE y > d
      <4> HIDE DEF N, R, U, Above
      <4> QED BY <2>0, <2>1, <3>1
    <3>2. Above(d) \subseteq N
      BY <2>0
    <3> HIDE DEF N, R, U
    <3> QED BY <2>2, <3>1, <3>2
  <2>4. <<Above(e), Above(d)>> \in R
    <3> HIDE DEF Above, N
    <3> QED BY <2>3 DEF StrictSubsetOrdering
  <2> QED BY <1>4, <1>5, <2>4
<1> QED BY <1>6

(***************************************************************************)
(* UNGETC, UNGETLINE and UNREAD push a block for which there is room.      *)
(***************************************************************************)
LEMMA StackedType ==
  ASSUME NEW s, Stacked(s)
  PROVE  /\ Len(s) \in Nat /\ TopOf(s) \in 0 .. PbSize
         /\ \A d \in 1 .. Len(s) : s[d] \in Frames /\ s[d].iop \in 0 .. PbSize
                                   /\ s[d].itop \in 0 .. PbSize
         /\ s # <<>> => Len(s) \in 1 .. Len(s)
<1>1. s \in Seq(Frames)
  BY DEF Stacked
<1>2. Len(s) \in Nat /\ (s # <<>> => Len(s) \in 1 .. Len(s)) /\ \A d \in 1 .. Len(s) : s[d] \in Frames
  BY <1>1
<1>3. \A d \in 1 .. Len(s) : s[d].iop \in 0 .. PbSize /\ s[d].itop \in 0 .. PbSize
  BY <1>2 DEF Frames
<1> QED BY <1>2, <1>3, PbAssumption DEF TopOf

LEMMA PushStacked ==
  ASSUME NEW s, Stacked(s), NEW k \in Nat, k <= Sp(Len(s) + 1) - TopOf(s)
  PROVE  Stacked(Append(s, [iop |-> TopOf(s), itop |-> TopOf(s) + k]))
<1> DEFINE n == Len(s)
           top == TopOf(s)
           f == [iop |-> top, itop |-> top + k]
           t == Append(s, f)
<1>1. /\ n \in Nat /\ top \in 0 .. PbSize /\ Sp(n + 1) \in Int /\ Sp(n + 1) <= PbSize
      /\ top + k <= Sp(n + 1) /\ PbSize \in Nat
  <2>1. n \in Nat /\ top \in 0 .. PbSize /\ n + 1 \in Nat
    BY StackedType
  <2>2. k <= Sp(n + 1) - top
    OBVIOUS
  <2> HIDE DEF n, top
  <2>3. Sp(n + 1) \in Int /\ Sp(n + 1) <= PbSize
    BY <2>1, SpNext
  <2> QED BY <2>1, <2>2, <2>3, PbAssumption
<1>2. f \in Frames /\ f.iop = top /\ f.itop = top + k
  BY <1>1 DEF Frames
<1>3. s \in Seq(Frames) /\ \A d \in 1 .. n : s[d].itop <= top
  <2>1. s \in Seq(Frames) /\ \A d \in 1 .. n : s[d].iop \in Nat /\ s[d].itop \in Nat
    <3>1. s \in Seq(Frames)
      BY DEF Stacked
    <3>2. \A d \in 1 .. n : s[d].iop \in 0 .. PbSize /\ s[d].itop \in 0 .. PbSize
      BY StackedType
    <3> QED BY <3>1, <3>2, PbAssumption
  <2>2. ASSUME NEW d \in 1 .. n PROVE s[d].itop <= top
    <3>1. n \in 1 .. n /\ s # <<>> /\ top = s[n].itop
      BY <1>1, <2>1 DEF TopOf
    <3>2. s[n].iop <= s[n].itop /\ (d < n => s[d].itop <= s[n].iop)
      BY <3>1 DEF Stacked
    <3> HIDE DEF n, top
    <3> QED BY <1>1, <2>1, <3>1, <3>2
  <2> QED BY <2>1, <2>2
<1> HIDE DEF f, top
<1>4. t \in Seq(Frames) /\ Len(t) = n + 1 /\ t[n + 1] = f /\ t # <<>>
      /\ \A d \in 1 .. n : t[d] = s[d]
  BY <1>2, <1>3
<1> HIDE DEF t, n
<1>5. ASSUME NEW d \in 1 .. Len(t) PROVE t[d].iop <= t[d].itop
  <2>1. CASE d = n + 1
    BY <1>1, <1>2, <1>4, <2>1
  <2>2. CASE d # n + 1
    <3>1. d \in 1 .. n
      BY <1>1, <1>4, <2>2
    <3> QED BY <1>4, <3>1 DEF Stacked, n
  <2> QED BY <2>1, <2>2
<1>6. ASSUME NEW d \in 1 .. Len(t), NEW e \in 1 .. Len(t), d < e PROVE t[d].itop <= t[e].iop
  <2>1. d \in 1 .. n
    BY <1>1, <1>4, <1>6
  <2>2. CASE e = n + 1
    BY <1>2, <1>3, <1>4, <2>1, <2>2
  <2>3. CASE e # n + 1
    <3>1. e \in 1 .. n
      BY <1>1, <1>4, <2>3
    <3> QED BY <1>4, <1>6, <2>1, <3>1 DEF Stacked, n
  <2> QED BY <2>2, <2>3
<1>7. TopOf(t) <= Sp(Len(t))
  BY <1>1, <1>2, <1>4 DEF TopOf
<1>8. Stacked(t)
  BY <1>4, <1>5, <1>6, <1>7 DEF Stacked
<1> QED BY <1>8 DEF t, f, top

(***************************************************************************)
(* GETC and READ take from the last block.                                 *)
(***************************************************************************)
LEMMA TakeStacked ==
  ASSUME NEW s, Stacked(s), s # <<>>, NEW k \in Nat, k <= s[Len(s)].itop - s[Len(s)].iop
  PROVE  Stacked([s EXCEPT ![Len(s)].iop = @ + k]) /\ [s EXCEPT ![Len(s)].iop = @ + k] # <<>>
<1> DEFINE n == Len(s)
           g == s[n]
           f == [g EXCEPT !.iop = @ + k]
           t == [s EXCEPT ![n] = f]
<1>1. n \in Nat /\ n \in 1 .. n /\ g \in Frames /\ g.iop \in 0 .. PbSize /\ g.itop \in 0 .. PbSize
      /\ g.iop <= g.itop /\ PbSize \in Nat /\ s \in Seq(Frames) /\ k <= g.itop - g.iop
  <2>1. n \in Nat /\ n \in 1 .. n
    BY StackedType
  <2>2. g \in Frames /\ g.iop \in 0 .. PbSize /\ g.itop \in 0 .. PbSize
    BY <2>1, StackedType
  <2>3. g.iop <= g.itop /\ s \in Seq(Frames)
    BY <2>1 DEF Stacked
  <2> QED BY <2>1, <2>2, <2>3, PbAssumption
<1> HIDE DEF g
<1>2. f \in Frames /\ f.iop = g.iop + k /\ f.itop = g.itop /\ f.iop <= f.itop
  <2>1. g.iop + k \in 0 .. PbSize /\ g.iop + k <= g.itop
    BY <1>1
  <2>2. f.iop = g.iop + k /\ f.itop = g.itop /\ f \in Frames
    BY <1>1, <2>1 DEF Frames
  <2> QED BY <2>1, <2>2
<1> HIDE DEF f
<1>3. t \in Seq(Frames) /\ Len(t) = n /\ t[n] = f /\ t # <<>> /\ \A d \in 1 .. n : d # n => t[d] = s[d]
  BY <1>1, <1>2
<1>4. [s EXCEPT ![Len(s)].iop = @ + k] = t
  BY DEF t, f, g, n
<1> HIDE DEF t, n
<1>5. ASSUME NEW d \in 1 .. Len(t) PROVE t[d].iop <= t[d].itop
  <2>1. CASE d = n
    BY <1>2, <1>3, <2>1
  <2>2. CASE d # n
    BY <1>3, <2>2 DEF Stacked, n
  <2> QED BY <2>1, <2>2
<1>6. ASSUME NEW d \in 1 .. Len(t), NEW e \in 1 .. Len(t), d < e PROVE t[d].itop <= t[e].iop
  <2>1. d \in 1 .. n /\ e \in 1 .. n /\ d # n /\ s[d].itop <= s[e].iop /\ t[d] = s[d]
    BY <1>1, <1>3, <1>6 DEF Stacked, n
  <2>2. s[d].itop \in Nat
    BY <2>1, StackedType, PbAssumption DEF n
  <2>3. CASE e = n
    BY <1>1, <1>2, <1>3, <2>1, <2>2, <2>3 DEF g
  <2>4. CASE e # n
    BY <1>3, <2>1, <2>4
  <2> QED BY <2>3, <2>4
<1>7. TopOf(t) <= Sp(Len(t))
  <2>1. TopOf(s) = g.itop /\ TopOf(s) <= Sp(n)
    BY DEF TopOf, Stacked, g, n
  <2> QED BY <1>2, <1>3, <2>1 DEF TopOf
<1>8. Stacked(t)
  BY <1>3, <1>5, <1>6, <1>7 DEF Stacked
<1> QED BY <1>3, <1>4, <1>8

(***************************************************************************)
(* FILBUF pops frames down to a block that has data left.                  *)
(***************************************************************************)
LEMMA PopStacked ==
  ASSUME NEW s, Stacked(s), NEW r \in 1 .. Len(s)
  PROVE  Stacked(SubSeq(s, 1, r))
<1> DEFINE n == Len(s)
           t == SubSeq(s, 1, r)
<1>1. n \in Nat /\ n \in 1 .. n /\ r \in Nat /\ r >= 1 /\ r <= n /\ s \in Seq(Frames) /\ s # <<>>
  BY StackedType DEF Stacked
<1>2. t \in Seq(Frames) /\ Len(t) = r /\ t # <<>> /\ \A d \in 1 .. r : t[d] = s[d] /\ d \in 1 .. n
  BY <1>1
<1> HIDE DEF t
<1>3. /\ \A d \in 1 .. Len(t) : t[d].iop <= t[d].itop
      /\ \A d, e \in 1 .. Len(t) : d < e => t[d].itop <= t[e].iop
  BY <1>2 DEF Stacked
<1>4. TopOf(t) <= Sp(Len(t))
  <2>1. TopOf(t) = s[r].itop /\ TopOf(s) = s[n].itop
    BY <1>1, <1>2 DEF TopOf
  <2>2. /\ s[r].itop \in Int /\ s[n].itop \in Int /\ s[n].iop \in Int
        /\ s[n].iop <= s[n].itop /\ (r < n => s[r].itop <= s[n].iop)
    BY <1>1, StackedType, PbAssumption DEF Stacked
  <2>3. s[r].itop <= s[n].itop
    <3> HIDE DEF n
    <3> QED BY <1>1, <2>2
  <2>4. s[n].itop <= Sp(n) /\ Sp(n) <= Sp(r) /\ Sp(n) \in Int /\ Sp(r) \in Int
    BY <1>1, <2>1, SpFewer, SpNext DEF Stacked
  <2> HIDE DEF n
  <2> QED BY <1>2, <2>1, <2>2, <2>3, <2>4
<1> QED BY <1>2, <1>3, <1>4 DEF Stacked, t

LEMMA NothingStacked == Stacked(<<>>)
<1>1. <<>> \in Seq(Frames) /\ Len(<<>>) = 0
  OBVIOUS
<1>2. Sp(0) = PbSize /\ PbSize \in Nat
  BY PbAssumption DEF Sp
<1> QED BY <1>1, <1>2 DEF Stacked, TopOf
-----------------------------------------------------------------------------
(***************************************************************************)
(* UNGETC, UNGETLINE and UNREAD, which make the buffers they need.         *)
(***************************************************************************)
LEMMA MkPbBufType ==
  ASSUME PbIInv, MkPbBuf
  PROVE  /\ haspb' = TRUE /\ below' \in BOOLEAN /\ hasbuf' = TRUE
         /\ boffset' \in Int /\ iop' \in Int
         /\ itop' \in 0 .. BufSize /\ otop' \in 0 .. BufSize
         /\ mem' \in [Index -> Cell]
<1>1. TypeOK /\ below \in BOOLEAN /\ Junk \in Cell /\ 0 \in 0 .. BufSize
  BY BufSizeAssumption DEF PbIInv, PbParts, Cell
<1>2. haspb' = TRUE /\ below' \in BOOLEAN
  BY <1>1 DEF MkPbBuf
<1>3. CASE hasbuf
  BY <1>1, <1>2, <1>3 DEF MkPbBuf, TypeOK
<1>4. CASE ~hasbuf
  BY <1>1, <1>2, <1>4 DEF MkPbBuf, TypeOK, LNote
<1> QED BY <1>3, <1>4

LEMMA PushKeeps ==
  ASSUME PbIInv, MkPbBuf, NEW data \in Seq(Cell), Len(data) <= Room, Pushed(data),
         UNCHANGED <<disk, open, filsize, call>>
  PROVE  PbIInv'
<1>1. TypeOK /\ Stacked(stack) /\ pbmem \in [PbIndex -> Cell]
  BY DEF PbIInv, PbParts
<1>2. PbIop = TopOf(stack) /\ Depth = Len(stack)
  BY DEF PbIop, TopOf, Live, Depth
<1>3. PbIop \in Nat /\ Len(data) \in Nat
  BY <1>1, <1>2, StackedType, PbAssumption
<1>4. pbmem' \in [PbIndex -> Cell]
  <2>1. ASSUME NEW i \in PbIndex, i - PbIop \in 0 .. Len(data) - 1
        PROVE  data[i - PbIop + 1] \in Cell
    <3>1. i - PbIop + 1 \in 1 .. Len(data)
      BY <1>3, <2>1, PbAssumption DEF PbIndex
    <3> QED BY <3>1
  <2> QED BY <1>1, <2>1 DEF Pushed
<1>5. Stacked(stack')
  <2>1. Len(data) <= Sp(Len(stack) + 1) - TopOf(stack)
    BY <1>2 DEF Room
  <2> QED BY <1>1, <1>2, <1>3, <2>1, PushStacked DEF Pushed
<1>6. TypeOK'
  <2>1. result' \in Results /\ failed' = failed
    BY OutcomeType DEF Pushed
  <2> QED BY <1>1, <2>1, MkPbBufType DEF TypeOK
<1>7. PbParts'
  BY <1>4, MkPbBufType DEF PbParts
<1> QED BY <1>5, <1>6, <1>7 DEF PbIInv

LEMMA DataType == Data \subseteq Seq(Cell) /\ \A ch \in Char : <<ch>> \in Seq(Cell) /\ Len(<<ch>>) = 1
<1>1. Char \subseteq Cell
  BY DEF Cell
<1>2. ASSUME NEW k \in 1 .. MaxXfer, NEW data \in [1 .. k -> Char] PROVE data \in Seq(Cell)
  <2>1. k \in Nat /\ data \in [1 .. k -> Cell]
    BY <1>1, <1>2, BoundsAssumption
  <2> QED BY <2>1
<1> QED BY <1>1, <1>2 DEF Data

LEMMA UnreadKeeps == ASSUME PbIInv, NEW data \in Data, Unread(data) PROVE PbIInv'
<1>1. MkPbBuf /\ data \in Seq(Cell) /\ UNCHANGED <<disk, open, filsize, call>>
  BY DataType DEF Unread
<1>2. CASE Fits(Len(data))
  BY <1>1, <1>2, PushKeeps DEF Unread, Fits
<1>3. CASE ~Fits(Len(data))
  <2>1. /\ pbmem' = [i \in PbIndex |-> IF i \in Clobbered THEN Junk ELSE pbmem[i]]
        /\ result' = FAILED /\ failed' = (failed \/ Clobbered # {})
        /\ stack' = stack
    BY <1>3 DEF Unread
  <2>2. TypeOK /\ Stacked(stack) /\ pbmem \in [PbIndex -> Cell] /\ Junk \in Cell
    BY DEF PbIInv, PbParts, Cell
  <2>3. pbmem' \in [PbIndex -> Cell]
    BY <2>1, <2>2
  <2>4. failed' \in BOOLEAN /\ result' \in Results
    BY <2>1, <2>2, OutcomeType DEF TypeOK
  <2>5. TypeOK'
    BY <1>1, <2>2, <2>4, MkPbBufType DEF TypeOK
  <2>6. PbParts'
    BY <1>1, <2>3, MkPbBufType DEF PbParts
  <2> QED BY <2>1, <2>2, <2>5, <2>6 DEF PbIInv
<1> QED BY <1>2, <1>3
-----------------------------------------------------------------------------
(***************************************************************************)
(* GETC and READ of what is pushed back, and FILBUF at the end of a block. *)
(***************************************************************************)
LEMMA CallInProgress ==
  ASSUME PbIInv, Reading
  PROVE  call # NoCall /\ call \in Calls /\ call.n < call.lim /\ call.lim <= call.max
<1>1. call # NoCall
  BY DEF Reading, NoCall
<1> QED BY <1>1 DEF PbIInv, TypeOK

LEMMA TakenType ==
  ASSUME call \in Calls, call.lim <= call.max, NEW lim \in Nat, lim <= call.max,
         NEW k \in Nat, call.n + k <= lim,
         call' = IF call.n + k = lim THEN NoCall ELSE [call EXCEPT !.n = @ + k, !.lim = lim]
  PROVE  CallTyped'
<1>1. CASE call.n + k = lim
  BY <1>1, NoCallType DEF CallTyped
<1>2. CASE call.n + k # lim
  <2> DEFINE n == call.n + k
             t == [call EXCEPT !.n = n, !.lim = lim]
  <2>1. n \in Nat /\ n < lim
    BY <1>2 DEF Calls
  <2>2. call' = t
    BY <1>2
  <2> HIDE DEF n
  <2>3. t \in Calls /\ t.n = n /\ t.lim = lim /\ t.max = call.max
    BY <2>1 DEF Calls
  <2> HIDE DEF t
  <2> QED BY <2>1, <2>2, <2>3 DEF CallTyped
<1> QED BY <1>1, <1>2

(***************************************************************************)
(* READ settles for no less than what it has, and one more.                *)
(***************************************************************************)
LEMMA SettledType ==
  ASSUME PbIInv, Reading, NEW nchars \in Nat \ {0}, NEW ends \in BOOLEAN
  PROVE  Settled(nchars, ends) \in Nat /\ call.n < Settled(nchars, ends)
         /\ Settled(nchars, ends) <= call.max
<1>1. call.n \in Nat /\ call.max \in Nat /\ call.lim \in Nat
  BY CallInProgress DEF Calls
<1> QED BY <1>1, CallInProgress DEF Settled, Min2

LEMMA CopyBlockKeeps == ASSUME PbIInv, CopyBlock PROVE PbIInv'
<1> DEFINE b == Live
           k == Min2(call.lim - call.n, b.itop - b.iop)
           out == [i \in 1 .. k |-> pbmem[b.iop + i - 1]]
<1>1. TypeOK /\ PbParts /\ Stacked(stack) /\ stack # <<>> /\ Reading
  BY DEF PbIInv, CopyBlock
<1>2. b.iop \in Nat /\ b.itop \in Nat /\ b.itop <= PbSize /\ b.iop < b.itop
  <2>1. b.iop \in 0 .. PbSize /\ b.itop \in 0 .. PbSize
    BY <1>1, StackedType DEF Live, Depth
  <2> QED BY <2>1, PbAssumption DEF CopyBlock
<1>3. call.n \in Nat /\ call.lim \in Nat /\ call.n < call.lim /\ call.lim <= call.max /\ call \in Calls
  BY <1>1, CallInProgress DEF Calls
<1>4. /\ result' = Outcome("ok", out) /\ stack' = [stack EXCEPT ![Len(stack)].iop = @ + k]
      /\ call' = IF call.n + k = call.lim THEN NoCall ELSE [call EXCEPT !.n = @ + k]
      /\ UNCHANGED <<disk, open, fdvars, failed, haspb, below, pbmem>>
  BY DEF CopyBlock, Taken, Depth
<1>5. k \in Nat /\ k >= 1 /\ k <= b.itop - b.iop /\ k <= call.lim - call.n
  <2> HIDE DEF b
  <2> QED BY <1>2, <1>3 DEF Min2
<1>6. b = stack[Len(stack)]
  BY DEF Live, Depth
<1> HIDE DEF k, b
<1>7. Stacked(stack') /\ stack' # <<>>
  BY <1>1, <1>4, <1>5, <1>6, TakeStacked
<1>8. result' \in Results
  <2>1. ASSUME NEW i \in 1 .. k PROVE pbmem[b.iop + i - 1] \in Cell
    <3>1. b.iop + i - 1 \in PbIndex
      BY <1>2, <1>5, PbAssumption DEF PbIndex
    <3> QED BY <1>1, <3>1 DEF PbParts
  <2>2. out \in Seq(Cell)
    BY <1>5, <2>1
  <2> HIDE DEF out
  <2> QED BY <1>4, <2>2 DEF Outcome, Results
<1>9. CallTyped'
  <2>1. call.n + k <= call.lim /\ call.lim \in Nat
    BY <1>3, <1>5
  <2>2. [call EXCEPT !.n = @ + k] = [call EXCEPT !.n = @ + k, !.lim = call.lim]
    BY <1>3 DEF Calls
  <2> QED BY <1>3, <1>4, <1>5, <2>1, <2>2, TakenType
<1>10. TypeOK'
  BY <1>1, <1>4, <1>8, <1>9 DEF TypeOK, CallTyped, fdvars
<1>11. PbParts'
  BY <1>1, <1>4 DEF PbParts, fdvars
<1> QED BY <1>7, <1>10, <1>11 DEF PbIInv

LEMMA ResumeIsUnused ==
  ASSUME PbIInv, Unused # {}
  PROVE  Resume \in 1 .. Len(stack) /\ stack[Resume].iop < stack[Resume].itop
<1>1. Unused \in SUBSET (1 .. Len(stack)) /\ Len(stack) \in Nat
  BY StackedType DEF PbIInv, Unused, Depth
<1>2. \E d \in Unused : \A e \in Unused : e <= d
  BY <1>1, Largest
<1>3. Resume \in Unused
  BY <1>2 DEF Resume
<1> QED BY <1>1, <1>3 DEF Unused

LEMMA PopToBlockKeeps == ASSUME PbIInv, PopToBlock PROVE PbIInv'
<1> DEFINE b == stack[Resume]
           lim == Settled(b.itop - b.iop, below)
<1>1. TypeOK /\ PbParts /\ Stacked(stack) /\ stack # <<>> /\ Reading /\ Unused # {}
  BY DEF PbIInv, PopToBlock, Used
<1>2. Resume \in 1 .. Len(stack) /\ b.iop < b.itop
  BY <1>1, ResumeIsUnused
<1>3. b.itop - b.iop \in Nat \ {0} /\ below \in BOOLEAN
  <2>1. b.iop \in 0 .. PbSize /\ b.itop \in 0 .. PbSize
    BY <1>1, <1>2, StackedType
  <2> HIDE DEF b
  <2> QED BY <1>1, <1>2, <2>1, PbAssumption DEF PbParts
<1>4. /\ stack' = SubSeq(stack, 1, Resume) /\ call' = [call EXCEPT !.lim = lim]
      /\ result' = OK /\ UNCHANGED <<disk, open, fdvars, failed, haspb, below, pbmem>>
  BY DEF PopToBlock
<1>5. lim \in Nat /\ call.n < lim /\ lim <= call.max
  <2> HIDE DEF b
  <2> QED BY <1>1, <1>3, SettledType
<1> HIDE DEF lim, b
<1>6. Stacked(stack')
  BY <1>1, <1>2, <1>4, PopStacked
<1>7. CallTyped'
  BY <1>1, <1>4, <1>5, CallInProgress DEF CallTyped, Calls
<1>8. TypeOK'
  BY <1>1, <1>4, <1>7, OutcomeType DEF TypeOK, CallTyped, fdvars
<1>9. PbParts'
  BY <1>1, <1>4 DEF PbParts, fdvars
<1> QED BY <1>6, <1>8, <1>9 DEF PbIInv

LEMMA PopToFileKeeps == ASSUME PbIInv, PopToFile PROVE PbIInv'
<1> DEFINE lim == Settled(itop - iop, itop < BufSize)
           k == Min2(lim - call.n, itop - iop)
           out == [i \in 1 .. k |-> MemAt(iop + i - 1)]
<1>1. TypeOK /\ PbParts /\ Reading /\ itop > iop
  BY DEF PbIInv, PopToFile, Used
<1>2. itop \in Int /\ iop \in Int /\ itop - iop \in Nat \ {0} /\ (itop < BufSize) \in BOOLEAN
  BY <1>1, BufSizeAssumption DEF TypeOK
<1>3. lim \in Nat /\ call.n < lim /\ lim <= call.max
  BY <1>1, <1>2, SettledType
<1>4. /\ stack' = <<>> /\ result' = Outcome("ok", out) /\ iop' = iop + k
      /\ call' = IF call.n + k = lim THEN NoCall ELSE [call EXCEPT !.n = @ + k, !.lim = lim]
      /\ UNCHANGED <<disk, open, hasbuf, boffset, itop, otop, mem, filsize, failed,
                     haspb, below, pbmem>>
  BY DEF PopToFile
<1> HIDE DEF lim
<1>5. k \in Nat /\ call.n + k <= lim /\ call \in Calls /\ call.lim <= call.max
  <2>1. call.n \in Nat /\ call \in Calls /\ call.lim <= call.max
    BY <1>1, CallInProgress DEF Calls
  <2> QED BY <1>2, <1>3, <2>1 DEF Min2
<1> HIDE DEF k
<1>6. result' \in Results
  <2>1. ASSUME NEW i PROVE MemAt(i) \in Cell
    BY <1>1 DEF MemAt, TypeOK, Cell
  <2>2. out \in Seq(Cell)
    BY <1>5, <2>1
  <2> HIDE DEF out
  <2> QED BY <1>4, <2>2 DEF Outcome, Results
<1>7. CallTyped'
  BY <1>3, <1>4, <1>5, TakenType
<1>8. iop' \in Int
  BY <1>2, <1>4, <1>5
<1>9. TypeOK'
  BY <1>1, <1>4, <1>6, <1>7, <1>8 DEF TypeOK, CallTyped
<1>10. PbParts'
  BY <1>1, <1>4 DEF PbParts
<1> QED BY <1>4, <1>9, <1>10, NothingStacked DEF PbIInv

LEMMA PopAllKeeps == ASSUME PbIInv, PopAll PROVE PbIInv'
<1>1. TypeOK /\ PbParts
  BY DEF PbIInv
<1>2. /\ stack' = <<>> /\ result' = OK
      /\ UNCHANGED <<disk, open, fdvars, call, failed, haspb, below, pbmem>>
  BY DEF PopAll
<1>3. TypeOK' /\ PbParts'
  BY <1>1, <1>2, OutcomeType DEF TypeOK, PbParts, fdvars
<1> QED BY <1>2, <1>3, NothingStacked DEF PbIInv
-----------------------------------------------------------------------------
(***************************************************************************)
(* The steps of FioBuffer: SEEK, FLUSH and CLOSE cancel what is pushed     *)
(* back, GETC and READ begin above it, the others need it gone.            *)
(***************************************************************************)
LEMMA CancellingKeeps == ASSUME PbIInv, Cancelling PROVE PbIInv'
<1>1. TypeOK /\ PbParts /\ [Next]_vars
  BY DEF PbIInv, Cancelling, Next
<1>2. TypeOK' /\ stack' = <<>> /\ haspb' = (haspb /\ open') /\ UNCHANGED <<below, pbmem>>
  BY <1>1, StepType DEF Cancelling, CanPb
<1>3. haspb' \in BOOLEAN
  BY <1>2
<1>4. PbParts'
  BY <1>1, <1>2, <1>3 DEF PbParts
<1> QED BY <1>2, <1>4, NothingStacked DEF PbIInv

LEMMA BufferStepKeeps == ASSUME PbIInv, Begins \/ Plain PROVE PbIInv'
<1>1. TypeOK /\ PbParts /\ Stacked(stack) /\ [Next]_vars
  BY DEF PbIInv, Begins, Plain, Next
<1>2. TypeOK' /\ UNCHANGED <<haspb, below, pbmem, stack>>
  BY <1>1, StepType DEF Begins, Plain, pbvars
<1>3. stack # <<>> => hasbuf' = hasbuf
  BY DEF Begins, Plain, GetC, Read, Enter, fdvars
<1>4. PbParts'
  BY <1>1, <1>2, <1>3 DEF PbParts
<1> QED BY <1>1, <1>2, <1>4 DEF PbIInv

LEMMA PbInductive == PbSpec => []PbIInv
<1>1. PbInit => PbIInv
  <2> SUFFICES ASSUME PbInit PROVE PbIInv
    OBVIOUS
  <2>1. TypeOK
    BY InitType DEF PbInit
  <2>2. PbParts
    BY DEF PbInit, PbParts, Cell
  <2> QED BY <2>1, <2>2, NothingStacked DEF PbIInv, PbInit
<1>2. PbIInv /\ [PbNext]_allvars => PbIInv'
  <2> SUFFICES ASSUME PbIInv, [PbNext]_allvars PROVE PbIInv'
    OBVIOUS
  <2>1. ASSUME NEW ch \in Char, UngetC(ch) PROVE PbIInv'
    <3>1. Room \in Int
      <4>1. Stacked(stack) /\ PbIop = TopOf(stack) /\ Depth = Len(stack)
        BY DEF PbIInv, PbIop, TopOf, Live, Depth
      <4>2. PbIop \in Int /\ Depth + 1 \in Nat
        BY <4>1, StackedType, PbAssumption
      <4> QED BY <4>2, SpNext DEF Room
    <3>2. <<ch>> \in Seq(Cell) /\ Len(<<ch>>) <= Room
      BY <2>1, <3>1, DataType DEF UngetC
    <3> QED BY <2>1, <3>2, PushKeeps DEF UngetC
  <2>2. ASSUME NEW str \in Data, UngetLine(str) PROVE PbIInv'
    <3>1. str \in Seq(Cell) /\ Len(str) <= Room
      BY <2>2, DataType DEF UngetLine
    <3> QED BY <2>2, <3>1, PushKeeps DEF UngetLine
  <2>3. ASSUME NEW data \in Data, Unread(data) PROVE PbIInv'
    BY <2>3, UnreadKeeps
  <2>4. CASE CopyBlock
    BY <2>4, CopyBlockKeeps
  <2>5. CASE PopToBlock
    BY <2>5, PopToBlockKeeps
  <2>6. CASE PopToFile
    BY <2>6, PopToFileKeeps
  <2>7. CASE PopAll
    BY <2>7, PopAllKeeps
  <2>8. CASE Cancelling
    BY <2>8, CancellingKeeps
  <2>9. CASE Begins \/ Plain
    BY <2>9, BufferStepKeeps
  <2>10. CASE UNCHANGED allvars
    BY <2>10 DEF allvars, vars, pbvars, PbIInv, TypeOK, PbParts
  <2> QED BY <2>1, <2>2, <2>3, <2>4, <2>5, <2>6, <2>7, <2>8, <2>9, <2>10 DEF PbNext
<1> QED BY <1>1, <1>2, PTL DEF PbSpec

(***************************************************************************)
(* The pushback buffer of a descriptor is sound and its file buffer keeps  *)
(* its types, through every sequence of UNGETC, UNGETLINE, UNREAD, reads,  *)
(* seeks and closes: the room is counted with the frames (unread.x).       *)
(***************************************************************************)
THEOREM PushbackTypeCorrect == PbSpec => [](TypeOK /\ PbTypeOK)
<1>1. PbIInv => TypeOK /\ PbTypeOK
  <2> SUFFICES ASSUME PbIInv PROVE TypeOK /\ PbTypeOK
    OBVIOUS
  <2>1. TypeOK /\ PbParts /\ Stacked(stack) /\ Depth = Len(stack) /\ PbIop = TopOf(stack)
    BY DEF PbIInv, Depth, PbIop, TopOf, Live
  <2>2. /\ stack \in Seq([iop : 0 .. PbSize, itop : 0 .. PbSize])
        /\ \A d \in 1 .. Depth : stack[d].iop <= stack[d].itop
        /\ PbIop <= Sp(Depth)
    BY <2>1 DEF Stacked, Frames
  <2>3. ASSUME NEW d \in 1 .. Depth - 1 PROVE stack[d].itop <= stack[d + 1].iop
    <3>1. Len(stack) \in Nat
      BY <2>1, StackedType
    <3>2. d \in 1 .. Len(stack) /\ d + 1 \in 1 .. Len(stack) /\ d < d + 1
      BY <2>1, <3>1
    <3> QED BY <2>1, <3>2 DEF Stacked
  <2> QED BY <2>1, <2>2, <2>3 DEF PbTypeOK, PbParts
<1> QED BY <1>1, PbInductive, PTL
=============================================================================
