----------------------------- MODULE FmioProofs -----------------------------
(***************************************************************************)
(* Proofs about FMIO for every number of lfiles, page size and length of   *)
(* the page table index.                                                   *)
(*                                                                         *)
(* The argument is the reserve of fmioextnd.x:32: an lfile is given a page *)
(* only if every page the index could still ask for would fit as well.     *)
(* Upon it rest what the disk holds (RInv, DInv, SInv) and, last, that     *)
(* Fmio implements LightFiles.                                             *)
(***************************************************************************)
EXTENDS MCFmio, FiniteSetTheorems, SequenceTheorems, TLAPS

MaxPages == PerPage * PtiLen

Reserved == /\ Len(ptable) - Len(ptindex) =< MaxPages - PtiLen
            /\ header.npte - Len(header.ptindex) =< MaxPages - PtiLen

HeaderOK == /\ header.ptindex \in Seq(Page) /\ Len(header.ptindex) =< PtiLen
            /\ header.npte \in 0 .. MaxPages
            /\ header.ftable \in [Lfile -> [fsize : Nat, deleted : BOOLEAN]]

ClosedIsIdle == pc = "closed" => active = {}

IInv == TypeOK /\ HeaderOK /\ Reserved /\ ClosedIsIdle /\ MapsAgree
-----------------------------------------------------------------------------
(***************************************************************************)
(* Arithmetic.                                                             *)
(***************************************************************************)
LEMMA Sizes == MaxPages \in Nat /\ PtiLen =< MaxPages
<1>1. PerPage \in Nat /\ PtiLen \in Nat /\ PerPage >= 1
  BY FmioAssumption
<1>2. \A p, n \in Nat : p >= 1 => p * n \in Nat /\ n =< p * n
  <2>1. ASSUME NEW p \in Nat, NEW n \in Nat, p >= 1 PROVE p * n \in Nat /\ n =< p * n
    <3>1. p * n = (p - 1) * n + n
      BY <2>1
    <3>2. (p - 1) * n \in Nat
      BY <2>1
    <3> QED BY <3>1, <3>2
  <2> QED BY <2>1
<1> QED BY <1>1, <1>2 DEF MaxPages

LEMMA PtiIsShort ==
  ASSUME NEW x \in Nat, x =< MaxPages
  PROVE  Npti(x) \in Nat /\ Npti(x) =< PtiLen
<1>1. PerPage \in Nat /\ PerPage >= 1 /\ PtiLen \in Nat
  BY FmioAssumption
<1> DEFINE y == x + PerPage - 1
           q == y \div PerPage
<1>2. y \in Nat
  BY <1>1
<1>3. q \in Int /\ PerPage * q =< y /\ y < PerPage * q + PerPage
  <2>1. \A u \in Nat, w \in Nat \ {0} : /\ u \div w \in Int
                                        /\ w * (u \div w) =< u
                                        /\ u < w * (u \div w) + w
    BY Z3
  <2> QED BY <2>1, <1>1, <1>2
<1> HIDE DEF q, y
<1>4. q >= 0
  <2>1. SUFFICES ASSUME q =< -1 PROVE FALSE
    BY <1>3
  <2>2. PerPage * q =< -PerPage
    <3>1. \A w \in Nat, z \in Int : z =< -1 => w * z =< -w
      <4>1. ASSUME NEW w \in Nat, NEW z \in Int, z =< -1 PROVE w * z =< -w
        <5>1. w * (-1 - z) >= 0
          BY <4>1
        <5> QED BY <5>1
      <4> QED BY <4>1
    <3> QED BY <3>1, <2>1, <1>1, <1>3
  <2> QED BY <2>2, <1>1, <1>2, <1>3
<1>5. q =< PtiLen
  <2>1. SUFFICES ASSUME q >= PtiLen + 1 PROVE FALSE
    BY <1>1, <1>3
  <2>2. PerPage * q >= PerPage * PtiLen + PerPage
    <3>1. \A w \in Nat, a, b \in Int : a >= b + 1 => w * a >= w * b + w
      <4>1. ASSUME NEW w \in Nat, NEW a \in Int, NEW b \in Int, a >= b + 1
            PROVE  w * a >= w * b + w
        <5>1. w * (a - (b + 1)) >= 0
          BY <4>1
        <5>2. w * (a - (b + 1)) = w * a - w * b - w
          BY <4>1
        <5> QED BY <5>1, <5>2, <4>1
      <4> QED BY <4>1
    <3> QED BY <3>1, <2>1, <1>1, <1>3
  <2>3. PerPage * q =< MaxPages + PerPage - 1
    BY <1>1, <1>3, Sizes DEF y
  <2> QED BY <2>2, <2>3, <1>1, <1>3, Sizes DEF MaxPages
<1> QED BY <1>3, <1>4, <1>5 DEF Npti, q, y
-----------------------------------------------------------------------------
(***************************************************************************)
(* FMIO_EXTEND grants no more than there is room for, and owns what it     *)
(* grants.                                                                 *)
(***************************************************************************)
LEMMA GrantedFits ==
  ASSUME NEW n \in Nat, Len(ptable) \in Nat
  PROVE  Granted(n) \in 0 .. n /\ (Granted(n) = 0 \/ Granted(n) =< Room)
<1>1. Room \in Int
  BY Sizes, FmioAssumption DEF Room, MaxPages
<1>2. \E k \in 0 .. n : (k = 0 \/ k =< Room) /\ (k = n \/ k + 1 > Room)
  <2>1. CASE Room =< 0
    BY <2>1, <1>1
  <2>2. CASE Room > 0 /\ Room < n
    BY <2>2, <1>1
  <2>3. CASE Room >= n
    BY <2>3, <1>1
  <2> QED BY <2>1, <2>2, <2>3, <1>1
<1> QED BY <1>2 DEF Granted

LEMMA Extended ==
  ASSUME TypeOK, MapsAgree, NEW f \in Owner, NEW n \in Nat, Extend(f, n),
         Len(ptable) + n =< MaxPages
  PROVE  /\ ptable' \in Seq(Owner) /\ Len(ptable') = Len(ptable) + n
         /\ pagemap' \in [Owner -> SUBSET Page]
         /\ \A g \in active : pagemap'[g] = PagesOf(g)'
<1> DEFINE new == [i \in 1 .. n |-> f]
<1>1. new \in Seq(Owner) /\ Len(new) = n
  OBVIOUS
<1>2. ptable \in Seq(Owner) /\ Len(ptable) \in Nat /\ ptable' = ptable \o new
  BY DEF TypeOK, Extend
<1>3. ptable' \in Seq(Owner) /\ Len(ptable') = Len(ptable) + n
  BY <1>1, <1>2
<1>4. \A i \in 1 .. Len(ptable') :
         ptable'[i] = IF i =< Len(ptable) THEN ptable[i] ELSE f
  BY <1>1, <1>2
<1>5. DOMAIN ptable = 1 .. Len(ptable) /\ DOMAIN ptable' = 1 .. Len(ptable')
  BY <1>2, <1>3
<1> HIDE DEF new
<1>6. NewPages(n) \subseteq Page
  BY <1>2, Sizes DEF NewPages, Page, MaxPages
<1>7. pagemap' \in [Owner -> SUBSET Page]
  BY <1>6 DEF TypeOK, Extend
<1>8. ASSUME NEW g \in active PROVE pagemap'[g] = PagesOf(g)'
  <2>1. g \in Owner /\ pagemap[g] = PagesOf(g) /\ pagemap \in [Owner -> SUBSET Page]
    BY <1>8 DEF TypeOK, MapsAgree
  <2>2. pagemap'[g] = IF g = f THEN PagesOf(g) \cup NewPages(n) ELSE PagesOf(g)
    BY <2>1, <1>8 DEF Extend
  <2>3. PagesOf(g)' = {p \in 1 .. Len(ptable) + n :
                          (IF p =< Len(ptable) THEN ptable[p] ELSE f) = g}
    BY <1>3, <1>4, <1>5 DEF PagesOf
  <2>4. PagesOf(g) = {p \in 1 .. Len(ptable) : ptable[p] = g}
    BY <1>5 DEF PagesOf
  <2> QED BY <2>2, <2>3, <2>4, <1>2 DEF NewPages
<1> QED BY <1>3, <1>7, <1>8
-----------------------------------------------------------------------------
LEMMA InitIInv == Init => IInv
<1> SUFFICES ASSUME Init PROVE IInv
  OBVIOUS
<1>1. TypeOK
  <2>1. ptable \in Seq(Owner) /\ ptindex \in Seq(Page)
    BY DEF Init, Blank
  <2>2. Len(ptable) = 0 /\ Len(ptindex) = 0
    BY DEF Init, Blank
  <2>3. ftable \in [Lfile -> [fsize : Nat, deleted : BOOLEAN]]
    BY DEF Init, Blank, Empty
  <2>4. active = {} /\ pagemap \in [Owner -> SUBSET Page]
    BY DEF Init, Blank
  <2>5. header.npte = 0 /\ header.ptindex = <<>>
    BY DEF Init
  <2>6. pc = "open" /\ closing = FALSE /\ dhmodified = FALSE /\ errcode = FALSE /\ lupte = 0
    BY DEF Init, Blank
  <2>7. header.ptindex \in Seq(Page)
    BY <2>5
  <2>8. /\ Len(ptable) =< PerPage * PtiLen /\ Len(ptindex) =< PtiLen
        /\ lupte \in 0 .. Len(ptable) /\ header.npte \in 0 .. PerPage * PtiLen
    BY <2>2, <2>5, <2>6, Sizes, FmioAssumption DEF MaxPages
  <2> QED BY <2>1, <2>3, <2>4, <2>6, <2>7, <2>8 DEF TypeOK
<1>2. HeaderOK
  BY Sizes, FmioAssumption DEF Init, Blank, Empty, HeaderOK, MaxPages
<1>3. Reserved
  BY Sizes, FmioAssumption DEF Init, Blank, Reserved
<1>4. ClosedIsIdle /\ MapsAgree
  BY DEF Init, Blank, ClosedIsIdle, MapsAgree
<1> QED BY <1>1, <1>2, <1>3, <1>4 DEF IInv

(***************************************************************************)
(* A call on an lfile: FM_LFOPEN, FM_LFBINWRITE, FM_LFDELETE.              *)
(***************************************************************************)
LEMMA OpenedIsEntry ==
  ASSUME TypeOK, NEW f \in Lfile, NEW new \in BOOLEAN
  PROVE  Opened(f, new) \in [fsize : Nat, deleted : BOOLEAN]
BY DEF TypeOK, Opened, Empty

LEMMA LfOpenKeeps == ASSUME IInv, NEW f \in Lfile, LfOpen(f) PROVE IInv'
<1>1. PICK new \in BOOLEAN : ftable' = [ftable EXCEPT ![f] = Opened(f, new)]
  BY DEF LfOpen
<1>2. /\ active' = active \cup {f}
      /\ pagemap' = IF f \in active THEN pagemap ELSE [pagemap EXCEPT ![f] = PagesOf(f)]
      /\ dhmodified' = TRUE
      /\ UNCHANGED <<pc, closing, ptable, ptindex, lupte, errcode, header>>
  BY DEF LfOpen, Activate, disk
<1>3. f \in Owner /\ PagesOf(f) \subseteq Page
  <2>1. ptable \in Seq(Owner) /\ Len(ptable) \in Nat /\ Len(ptable) =< MaxPages
    BY DEF IInv, TypeOK, MaxPages
  <2>2. DOMAIN ptable = 1 .. Len(ptable)
    BY <2>1
  <2> QED BY <2>1, <2>2, Sizes DEF Owner, PagesOf, Page, MaxPages
<1>4. ftable' \in [Lfile -> [fsize : Nat, deleted : BOOLEAN]]
  BY <1>1, OpenedIsEntry DEF IInv, TypeOK
<1>5. TypeOK'
  BY <1>2, <1>3, <1>4 DEF IInv, TypeOK
<1>6. HeaderOK' /\ Reserved'
  BY <1>2 DEF IInv, HeaderOK, Reserved
<1>7. ClosedIsIdle'
  BY <1>2 DEF LfOpen, Ready, ClosedIsIdle
<1>8. MapsAgree'
  <2>1. \A g \in Owner : PagesOf(g)' = PagesOf(g)
    BY <1>2 DEF PagesOf
  <2>2. active \subseteq Owner /\ pagemap \in [Owner -> SUBSET Page]
    BY DEF IInv, TypeOK
  <2>3. ASSUME NEW g \in active' PROVE pagemap'[g] = PagesOf(g)'
    BY <1>2, <1>3, <2>1, <2>2, <2>3 DEF IInv, MapsAgree
  <2> QED BY <2>3 DEF MapsAgree
<1> QED BY <1>5, <1>6, <1>7, <1>8 DEF IInv

LEMMA GrownIsTyped ==
  ASSUME TypeOK, NEW f \in Lfile, NEW size \in Nat, Grown(f, size)
  PROVE  ftable' \in [Lfile -> [fsize : Nat, deleted : BOOLEAN]] /\ dhmodified' \in BOOLEAN
<1>1. ftable' \in [Lfile -> [fsize : Nat, deleted : BOOLEAN]]
  BY DEF TypeOK, Grown
<1>2. dhmodified' \in BOOLEAN
  BY DEF TypeOK, Grown
<1> QED BY <1>1, <1>2

(***************************************************************************)
(* All that a write does to the page table is one Extend, within Room.     *)
(***************************************************************************)
LEMMA ExtendKeeps ==
  ASSUME IInv, NEW f \in Owner, NEW n \in Nat, Extend(f, n), n = 0 \/ n =< Room,
         Ready, UNCHANGED <<pc, closing, ptindex, lupte, active, header>>,
         ftable' \in [Lfile -> [fsize : Nat, deleted : BOOLEAN]],
         dhmodified' \in BOOLEAN, errcode' \in BOOLEAN
  PROVE  IInv'
<1>1. Len(ptable) \in Nat /\ Len(ptindex) \in Nat /\ Len(ptable) =< MaxPages
  BY DEF IInv, TypeOK, MaxPages
<1>2. Len(ptable) + n =< MaxPages
  BY <1>1, Sizes, FmioAssumption DEF Room, MaxPages
<1>3. /\ ptable' \in Seq(Owner) /\ Len(ptable') = Len(ptable) + n
      /\ pagemap' \in [Owner -> SUBSET Page]
      /\ \A g \in active : pagemap'[g] = PagesOf(g)'
  BY <1>2, Extended DEF IInv
<1>4. TypeOK'
  BY <1>1, <1>2, <1>3 DEF IInv, TypeOK, MaxPages
<1>5. HeaderOK' /\ ClosedIsIdle'
  BY DEF IInv, HeaderOK, ClosedIsIdle
<1>6. Reserved'
  BY <1>1, <1>3, Sizes, FmioAssumption DEF IInv, TypeOK, Reserved, Room, MaxPages
<1>7. MapsAgree'
  BY <1>3 DEF MapsAgree
<1> QED BY <1>4, <1>5, <1>6, <1>7 DEF IInv

LEMMA LfWriteKeeps == ASSUME IInv, NEW f \in Lfile, LfWrite(f) PROVE IInv'
<1>1. PICK l \in 1 .. ftable[f].fsize + 1, n \in 1 .. MaxXfer :
         NoRoom(f, l, n) \/ \E v \in Val : Write(f, l, n, v)
  BY DEF LfWrite
<1>2. /\ f \in Owner /\ ftable[f].fsize \in Nat /\ l \in Nat /\ n \in Nat /\ l >= 1 /\ n >= 1
      /\ Len(ptable) \in Nat
      /\ Ready /\ UNCHANGED <<pc, closing, ptindex, lupte, active, header>>
  <2>1. f \in Owner /\ ftable[f].fsize \in Nat /\ Len(ptable) \in Nat
    BY DEF IInv, TypeOK, Owner
  <2> QED BY <1>1, <2>1, FmioAssumption DEF LfWrite
<1>3. Cardinality(pagemap[f]) \in Nat
  <2>1. IsFiniteSet(Page)
    BY Sizes, FS_Interval DEF Page, MaxPages
  <2>2. pagemap[f] \subseteq Page
    BY <1>2 DEF IInv, TypeOK
  <2> QED BY <2>1, <2>2, FS_Subset, FS_CardinalityType
<1>4. CASE NoRoom(f, l, n)
  <2> DEFINE need == l + n - 1 - Cardinality(pagemap[f])
             k == Granted(need)
  <2>1. need \in Nat /\ Extend(f, k) /\ errcode' = TRUE /\ ftable' = ftable
        /\ dhmodified' \in BOOLEAN
    BY <1>2, <1>3, <1>4 DEF NoRoom
  <2>2. k \in 0 .. need /\ (k = 0 \/ k =< Room)
    BY <1>2, <2>1, GrantedFits
  <2> HIDE DEF need, k
  <2>3. k \in Nat /\ ftable' \in [Lfile -> [fsize : Nat, deleted : BOOLEAN]]
        /\ errcode' \in BOOLEAN
    BY <2>1, <2>2 DEF IInv, TypeOK
  <2> QED BY <1>2, <2>1, <2>2, <2>3, ExtendKeeps
<1>5. ASSUME NEW v \in Val, Write(f, l, n, v) PROVE IInv'
  <2> DEFINE wanted == l + n - 1 - Cardinality(pagemap[f])
             k == IF wanted > 0 THEN wanted ELSE 0
  <2>1. k \in Nat /\ Granted(k) = k /\ Extend(f, k) /\ UNCHANGED errcode
    BY <1>2, <1>3, <1>5 DEF Write
  <2>2. \E size \in Nat : Grown(f, size)
    <3>1. l + n - 1 \in Nat /\ 0 \in Nat
      BY <1>2
    <3> QED BY <1>5, <3>1 DEF Write
  <2> HIDE DEF k
  <2>3. k = 0 \/ k =< Room
    BY <1>2, <2>1, GrantedFits
  <2>4. /\ ftable' \in [Lfile -> [fsize : Nat, deleted : BOOLEAN]]
        /\ dhmodified' \in BOOLEAN
    BY <2>2, GrownIsTyped DEF IInv
  <2>5. errcode' \in BOOLEAN
    BY <2>1 DEF IInv, TypeOK
  <2> QED BY <1>2, <2>1, <2>3, <2>4, <2>5, ExtendKeeps
<1> QED BY <1>1, <1>4, <1>5

LEMMA LfMarkKeeps == ASSUME IInv, NEW f \in Lfile, NEW del \in BOOLEAN, LfMark(f, del) PROVE IInv'
<1>1. ftable' \in [Lfile -> [fsize : Nat, deleted : BOOLEAN]]
  BY DEF LfMark, IInv, TypeOK
<1>2. /\ dhmodified' = TRUE
      /\ UNCHANGED <<pc, closing, ptable, ptindex, lupte, active, pagemap, errcode, header>>
  BY DEF LfMark, disk
<1>3. TypeOK'
  BY <1>1, <1>2 DEF IInv, TypeOK
<1>4. HeaderOK' /\ Reserved' /\ ClosedIsIdle'
  BY <1>2 DEF IInv, HeaderOK, Reserved, ClosedIsIdle
<1>5. MapsAgree'
  BY <1>2 DEF IInv, MapsAgree, PagesOf
<1> QED BY <1>3, <1>4, <1>5 DEF IInv

(***************************************************************************)
(* FM_SYNC.  Each page it adds to the table takes one of the reserve.      *)
(***************************************************************************)
LEMMA SyncHeaderKeeps == ASSUME IInv, NEW close \in BOOLEAN, SyncHeader(close) PROVE IInv'
<1> DEFINE m == Missing
           new == [i \in 1 .. m |-> Len(ptable) + i]
<1>1. /\ Len(ptable) \in Nat /\ Len(ptable) =< MaxPages
      /\ Len(ptindex) \in Nat /\ Len(ptindex) =< PtiLen
      /\ ptindex \in Seq(Page) /\ PtiLen \in Nat
  BY FmioAssumption DEF IInv, TypeOK, MaxPages
<1>2. Npti(Len(ptable)) \in Nat /\ Npti(Len(ptable)) =< PtiLen
  BY <1>1, PtiIsShort
<1>3. m \in Nat /\ Len(ptindex) + m =< PtiLen
  BY <1>1, <1>2 DEF Missing
<1>4. Len(ptable) + m =< MaxPages
  BY <1>1, <1>3, Sizes DEF IInv, Reserved
<1>5. /\ ptable' \in Seq(Owner) /\ Len(ptable') = Len(ptable) + m
      /\ pagemap' \in [Owner -> SUBSET Page]
      /\ \A g \in active : pagemap'[g] = PagesOf(g)'
  <2>1. PT_LFILE \in Owner /\ Extend(PT_LFILE, m)
    BY DEF SyncHeader, Owner
  <2> HIDE DEF m
  <2> QED BY <1>3, <1>4, <2>1, Extended DEF IInv
<1>6. ptindex' \in Seq(Page) /\ Len(ptindex') = Len(ptindex) + m
  <2>1. ptindex' = ptindex \o new
    BY DEF SyncHeader
  <2> HIDE DEF m
  <2>2. \A i \in 1 .. m : Len(ptable) + i \in Page
    BY <1>1, <1>3, <1>4, Sizes DEF Page, MaxPages
  <2>3. new \in Seq(Page) /\ Len(new) = m
    BY <1>3, <2>2
  <2> HIDE DEF new
  <2>4. \A s, t \in Seq(Page) : s \o t \in Seq(Page) /\ Len(s \o t) = Len(s) + Len(t)
    OBVIOUS
  <2> QED BY <1>1, <2>1, <2>3, <2>4
<1> HIDE DEF m, new
<1>7. /\ header' = header \/ header' = [npte |-> Len(ptable'), ptindex |-> ptindex', ftable |-> ftable]
      /\ dhmodified' = FALSE /\ pc' = "table" /\ closing' = close
      /\ UNCHANGED <<lupte, ftable, active, errcode>>
  BY DEF SyncHeader
<1>8. HeaderOK'
  BY <1>1, <1>3, <1>4, <1>5, <1>6, <1>7, Sizes DEF IInv, TypeOK, HeaderOK
<1>9. Reserved'
  BY <1>1, <1>3, <1>5, <1>6, <1>7, Sizes DEF IInv, HeaderOK, Reserved
<1>10. TypeOK'
  <2>1. Len(ptable') =< PerPage * PtiLen /\ Len(ptindex') =< PtiLen /\ lupte' \in 0 .. Len(ptable')
    BY <1>1, <1>3, <1>4, <1>5, <1>6, <1>7 DEF IInv, TypeOK, MaxPages
  <2>2. header'.npte \in 0 .. PerPage * PtiLen /\ header'.ptindex \in Seq(Page)
    BY <1>8 DEF HeaderOK, MaxPages
  <2> QED BY <1>5, <1>6, <1>7, <2>1, <2>2 DEF IInv, TypeOK
<1>11. ClosedIsIdle' /\ MapsAgree'
  BY <1>5, <1>7 DEF ClosedIsIdle, MapsAgree
<1> QED BY <1>8, <1>9, <1>10, <1>11 DEF IInv

LEMMA SyncTableKeeps == ASSUME IInv, SyncTable PROVE IInv'
<1>1. /\ lupte' = Len(ptable) /\ pc' \in {"close", "open"}
      /\ UNCHANGED <<closing, ptable, ptindex, ftable, active, pagemap, dhmodified, errcode, header>>
  BY DEF SyncTable
<1>2. Len(ptable) \in Nat
  BY DEF IInv, TypeOK
<1>3. TypeOK'
  BY <1>1, <1>2 DEF IInv, TypeOK
<1>4. HeaderOK' /\ Reserved' /\ ClosedIsIdle'
  BY <1>1 DEF IInv, HeaderOK, Reserved, ClosedIsIdle
<1>5. MapsAgree'
  BY <1>1 DEF IInv, MapsAgree, PagesOf
<1> QED BY <1>3, <1>4, <1>5 DEF IInv
-----------------------------------------------------------------------------
(***************************************************************************)
(* The end of a session, and FM_OPEN.                                      *)
(***************************************************************************)
LEMMA ForgottenKeeps ==
  ASSUME IInv, Forgotten, pc' = "closed", closing' = FALSE, UNCHANGED header
  PROVE  IInv'
<1>1. ptable' \in Seq(Owner) /\ ptindex' \in Seq(Page) /\ Len(ptable') = 0 /\ Len(ptindex') = 0
  BY DEF Forgotten
<1>2. ftable' \in [Lfile -> [fsize : Nat, deleted : BOOLEAN]]
  BY DEF Forgotten, Empty
<1>3. /\ active' = {} /\ pagemap' \in [Owner -> SUBSET Page]
      /\ dhmodified' = FALSE /\ errcode' = FALSE /\ lupte' = 0
  BY DEF Forgotten
<1>4. HeaderOK' /\ header'.npte \in 0 .. PerPage * PtiLen
  BY DEF IInv, TypeOK, HeaderOK
<1>5. Len(ptable') =< PerPage * PtiLen /\ Len(ptindex') =< PtiLen /\ lupte' \in 0 .. Len(ptable')
  BY <1>1, <1>3, Sizes, FmioAssumption DEF MaxPages
<1>6. TypeOK'
  BY <1>1, <1>2, <1>3, <1>4, <1>5 DEF TypeOK, HeaderOK
<1>7. Reserved'
  BY <1>1, Sizes, FmioAssumption DEF IInv, Reserved
<1>8. ClosedIsIdle' /\ MapsAgree'
  BY <1>3 DEF ClosedIsIdle, MapsAgree
<1> QED BY <1>4, <1>6, <1>7, <1>8 DEF IInv

LEMMA CloseKeeps == ASSUME IInv, Close PROVE IInv'
<1>1. CASE errcode
  <2>1. /\ pc' = "open" /\ errcode' = FALSE /\ closing' = FALSE
        /\ UNCHANGED <<ptable, ptindex, lupte, ftable, active, pagemap, dhmodified, header>>
    BY <1>1 DEF Close, disk
  <2>2. TypeOK'
    BY <2>1 DEF IInv, TypeOK
  <2>3. HeaderOK' /\ Reserved' /\ ClosedIsIdle'
    BY <2>1 DEF IInv, HeaderOK, Reserved, ClosedIsIdle
  <2>4. MapsAgree'
    BY <2>1 DEF IInv, MapsAgree, PagesOf
  <2> QED BY <2>2, <2>3, <2>4 DEF IInv
<1>2. CASE ~errcode
  BY <1>2, ForgottenKeeps DEF Close, disk
<1> QED BY <1>1, <1>2

LEMMA OpenKeeps == ASSUME IInv, Open PROVE IInv'
<1>1. PICK rest \in [{i \in 1 .. header.npte : ~InTable(i)} -> Garbage] :
         ptable' = [i \in 1 .. header.npte |-> IF InTable(i) THEN Entry(header.ptindex, i)
                                                             ELSE rest[i]]
  BY DEF Open
<1>2. header.npte \in Nat /\ header.npte =< MaxPages
  BY Sizes DEF IInv, HeaderOK
<1>3. \A i \in 1 .. header.npte : InTable(i) => Entry(header.ptindex, i) \in Owner
  <2> SUFFICES ASSUME NEW i \in 1 .. header.npte PROVE Entry(header.ptindex, i) \in Owner
    OBVIOUS
  <2>1. ((i - 1) % PerPage) + 1 \in 1 .. PerPage
    <3>1. \A u \in Nat, w \in Nat \ {0} : u % w \in 0 .. w - 1
      OBVIOUS
    <3> QED BY <3>1, FmioAssumption, <1>2
  <2>2. PT_LFILE \in Owner
    BY DEF Owner
  <2> QED BY <2>1, <2>2 DEF Entry, Table
<1>4. \A i \in 1 .. header.npte : ~InTable(i) => rest[i] \in Owner
  <2>1. Garbage \subseteq Owner
    BY FmioAssumption DEF Owner, Lfile, PT_LFILE
  <2> QED BY <2>1
<1>5. ptable' \in Seq(Owner) /\ Len(ptable') = header.npte
  <2>1. \A i \in 1 .. header.npte :
           (IF InTable(i) THEN Entry(header.ptindex, i) ELSE rest[i]) \in Owner
    BY <1>3, <1>4
  <2> QED BY <1>1, <1>2, <2>1
<1>6. /\ pc = "closed" /\ pc' = "open" /\ dhmodified' = TRUE
      /\ ptindex' = header.ptindex /\ lupte' = header.npte /\ ftable' = header.ftable
      /\ UNCHANGED <<closing, active, pagemap, errcode, header>>
  BY DEF Open, disk
<1>7. TypeOK'
  <2>1. /\ Len(ptable') =< PerPage * PtiLen /\ lupte' \in 0 .. Len(ptable')
        /\ Len(ptindex') =< PtiLen /\ ptindex' \in Seq(Page)
    BY <1>2, <1>5, <1>6 DEF IInv, HeaderOK, MaxPages
  <2>2. ftable' \in [Lfile -> [fsize : Nat, deleted : BOOLEAN]]
    BY <1>6 DEF IInv, HeaderOK
  <2> QED BY <1>5, <1>6, <2>1, <2>2 DEF IInv, TypeOK
<1>8. HeaderOK' /\ Reserved'
  BY <1>5, <1>6 DEF IInv, HeaderOK, Reserved
<1>9. ClosedIsIdle' /\ MapsAgree'
  BY <1>6 DEF IInv, ClosedIsIdle, MapsAgree
<1> QED BY <1>7, <1>8, <1>9 DEF IInv
-----------------------------------------------------------------------------
LEMMA NextIInv == ASSUME IInv, [Next]_vars PROVE IInv'
<1>1. ASSUME NEW f \in Lfile, LfOpen(f) PROVE IInv'
  BY <1>1, LfOpenKeeps
<1>2. ASSUME NEW f \in Lfile, LfWrite(f) PROVE IInv'
  BY <1>2, LfWriteKeeps
<1>3. ASSUME NEW f \in Lfile, NEW del \in BOOLEAN, LfMark(f, del) PROVE IInv'
  BY <1>3, LfMarkKeeps
<1>4. ASSUME NEW close \in BOOLEAN, SyncHeader(close) PROVE IInv'
  BY <1>4, SyncHeaderKeeps
<1>5. ASSUME Crash PROVE IInv'
  BY <1>5, ForgottenKeeps DEF Crash, disk
<1>6. CASE RaiseError \/ UNCHANGED vars
  <2>1. /\ errcode' \in BOOLEAN
        /\ UNCHANGED <<pc, closing, ptable, ptindex, lupte, ftable, active, pagemap,
                       dhmodified, header>>
    BY <1>6 DEF RaiseError, vars, core, disk, IInv, TypeOK
  <2>2. TypeOK'
    BY <2>1 DEF IInv, TypeOK
  <2>3. HeaderOK' /\ Reserved' /\ ClosedIsIdle'
    BY <2>1 DEF IInv, HeaderOK, Reserved, ClosedIsIdle
  <2>4. MapsAgree'
    BY <2>1 DEF IInv, MapsAgree, PagesOf
  <2> QED BY <2>2, <2>3, <2>4 DEF IInv
<1> QED BY <1>1, <1>2, <1>3, <1>4, <1>5, <1>6, SyncTableKeeps, CloseKeeps, OpenKeeps DEF Next

THEOREM Invariance == Spec => []IInv
BY InitIInv, NextIInv, PTL DEF Spec

(***************************************************************************)
(* The types, for every constant: in particular no page is allocated       *)
(* beyond the last the index could describe.                               *)
(***************************************************************************)
THEOREM TypeCorrect == Spec => []TypeOK
<1>1. IInv => TypeOK
  BY DEF IInv
<1> QED BY <1>1, Invariance, PTL

(***************************************************************************)
(* The pages of the page table that a sync allocates always fit in the     *)
(* index (fmsync.x:44), although lfiles are extended without them: the     *)
(* page table is never cut.                                                *)
(***************************************************************************)
THEOREM NeverTruncated == Spec => []IndexHolds
<1>1. IInv => IndexHolds
  <2> SUFFICES ASSUME IInv PROVE IndexHolds
    OBVIOUS
  <2>1. Len(ptable) \in Nat /\ Len(ptable) =< MaxPages
    BY DEF IInv, TypeOK, MaxPages
  <2> QED BY <2>1, PtiIsShort DEF IndexHolds
<1> QED BY <1>1, Invariance, PTL

(***************************************************************************)
(* The pagemaps are those of the page table, with any number of lfiles,    *)
(* whatever memory held and wherever the process ended.                    *)
(***************************************************************************)
THEOREM MapsAreThePageTable == Spec => []MapsAgree
<1>1. IInv => MapsAgree
  BY DEF IInv
<1> QED BY <1>1, Invariance, PTL
-----------------------------------------------------------------------------
(***************************************************************************)
(* What a datafile that can be read again takes.  Once a sync is over, and *)
(* as no crash comes within it, each page of the index has been written:   *)
(* fmsync.x:133 begins no later than with the first page that the same     *)
(* sync has added.                                                         *)
(***************************************************************************)
Stale(q) == pc = "table" /\ lupte < Len(ptable) /\ FirstStale =< q

Indexed ==
    /\ pc # "closed" => header.ptindex = ptindex
    /\ header.npte \div PerPage =< Len(header.ptindex)
    /\ lupte \div PerPage =< Len(ptindex)
    /\ pc = "table" => Len(ptable) \div PerPage =< Len(ptindex)

Written == \A q \in DOMAIN header.ptindex : page[header.ptindex[q]] # Hole \/ Stale(q)

RInv == Indexed /\ Written

(***************************************************************************)
(* The page table on disk is that in core as far as it has been updated.   *)
(***************************************************************************)
Row(q, j) == (q - 1) * PerPage + j

Counted ==
    /\ pc # "closed" /\ ~dhmodified => header.npte = Len(ptable)
    /\ pc \in {"table", "close"} => ~dhmodified
    /\ pc \in {"open", "close"} => header.npte = lupte

Apart == /\ \A q \in DOMAIN header.ptindex : header.ptindex[q] =< header.npte
         /\ \A q, r \in DOMAIN header.ptindex :
               header.ptindex[q] = header.ptindex[r] => q = r

Copied ==
    pc # "closed" =>
       \A q \in DOMAIN header.ptindex :
          \/ /\ page[header.ptindex[q]] \in Table
             /\ \A j \in 1 .. PerPage :
                   Row(q, j) =< lupte => page[header.ptindex[q]][j] = ptable[Row(q, j)]
          \/ Stale(q)

Kept ==
    pc = "closed" =>
       \A q \in DOMAIN header.ptindex :
          /\ page[header.ptindex[q]] \in Table
          /\ InTable(header.ptindex[q]) => Entry(header.ptindex, header.ptindex[q]) = PT_LFILE

DInv == TableOwnsItsPages /\ Counted /\ Apart /\ Copied /\ Kept

Bounded == PtiLen =< PerPage + 1 /\ CrashInSync = FALSE
-----------------------------------------------------------------------------
(***************************************************************************)
(* Arithmetic of the rows of the page table.                               *)
(***************************************************************************)
LEMMA Division ==
  ASSUME NEW u \in Nat, NEW w \in Nat \ {0}
  PROVE  /\ u \div w \in Nat /\ u % w \in 0 .. w - 1
         /\ u = w * (u \div w) + (u % w)
<1>1. /\ u \div w \in Int /\ w * (u \div w) =< u /\ u < w * (u \div w) + w
      /\ u % w \in 0 .. w - 1 /\ u = w * (u \div w) + (u % w)
  BY Z3
<1>2. u \div w >= 0
  <2>1. SUFFICES ASSUME u \div w =< -1 PROVE FALSE
    BY <1>1
  <2>2. w * (-1 - (u \div w)) >= 0
    <3>1. \A a, b \in Nat : a * b >= 0
      OBVIOUS
    <3>2. -1 - (u \div w) \in Nat
      BY <1>1, <2>1
    <3> QED BY <3>1, <3>2
  <2>3. w * (-1 - (u \div w)) = -w - w * (u \div w)
    BY <1>1
  <2> QED BY <1>1, <2>2, <2>3
<1> QED BY <1>1, <1>2

LEMMA Quotient ==
  ASSUME NEW w \in Nat \ {0}, NEW k \in Int, NEW r \in Int, NEW l \in Int, NEW t \in Int,
         r \in 0 .. w - 1, w * k + r < w * l + w + t, t =< 0
  PROVE  k =< l
<1>1. SUFFICES ASSUME k >= l + 1 PROVE FALSE
  OBVIOUS
<1>2. w * (k - (l + 1)) >= 0
  <2>1. \A a, b \in Nat : a * b >= 0
    OBVIOUS
  <2> QED BY <1>1, <2>1
<1>3. w * (k - (l + 1)) = w * k - w * l - w
  OBVIOUS
<1> QED BY <1>2, <1>3

LEMMA DivLess ==
  ASSUME NEW x \in Nat, NEW w \in Nat \ {0}, NEW k \in Int, x < w * k + w
  PROVE  x \div w =< k
<1> DEFINE d == x \div w
           r == x % w
<1>1. d \in Nat /\ r \in 0 .. w - 1 /\ x = w * d + r
  BY Division
<1> HIDE DEF d, r
<1>2. w * d + r < w * k + w + 0
  BY <1>1
<1>3. d =< k
  BY <1>1, <1>2, Quotient
<1> QED BY <1>3 DEF d

LEMMA RowOf ==
  ASSUME NEW i \in Nat \ {0}, NEW w \in Nat \ {0}
  PROVE  LET q == (i - 1) \div w + 1
             j == ((i - 1) % w) + 1
         IN  /\ q \in Nat \ {0} /\ j \in 1 .. w
             /\ (q - 1) * w + j = i
             /\ \A k \in Nat : i =< w * k => q =< k
<1> DEFINE d == (i - 1) \div w
           r == (i - 1) % w
<1>1. d \in Nat /\ r \in 0 .. w - 1 /\ i - 1 = w * d + r
  <2> DEFINE x == i - 1
  <2>1. x \in Nat
    OBVIOUS
  <2> HIDE DEF x
  <2>2. /\ x \div w \in Nat /\ x % w \in 0 .. w - 1
        /\ x = w * (x \div w) + (x % w)
    BY <2>1, Division
  <2> QED BY <2>2 DEF x
<1>2. \A k \in Nat : i =< w * k => d =< k - 1
  <2> HIDE DEF d
  <2>1. SUFFICES ASSUME NEW k \in Nat, i =< w * k PROVE d =< k - 1
    OBVIOUS
  <2>2. i - 1 < w * (k - 1) + w
    <3>1. w * (k - 1) = w * k - w
      OBVIOUS
    <3> QED BY <2>1, <3>1
  <2> QED BY <2>2, DivLess DEF d
<1>3. (d + 1 - 1) * w + (r + 1) = i
  <2> HIDE DEF d, r
  <2>1. (d + 1 - 1) * w = w * d
    BY <1>1
  <2> QED BY <1>1, <2>1
<1> HIDE DEF d, r
<1>4. d + 1 \in Nat \ {0} /\ r + 1 \in 1 .. w /\ \A k \in Nat : i =< w * k => d + 1 =< k
  BY <1>1, <1>2
<1> QED BY <1>3, <1>4 DEF d, r

LEMMA RowIs ==
  ASSUME NEW q \in Nat \ {0}, NEW w \in Nat \ {0}, NEW j \in 1 .. w
  PROVE  LET i == (q - 1) * w + j
         IN  /\ i \in Nat \ {0} /\ (i - 1) \div w + 1 = q /\ ((i - 1) % w) + 1 = j
             /\ \A k \in Nat : q =< k => i =< w * k
<1> DEFINE i == (q - 1) * w + j
           d == (i - 1) \div w
           r == (i - 1) % w
<1>1. i \in Nat \ {0} /\ (q - 1) * w \in Nat
  OBVIOUS
<1>2. d \in Nat /\ r \in 0 .. w - 1 /\ i - 1 = w * d + r
  <2> DEFINE x == i - 1
  <2>1. x \in Nat
    BY <1>1
  <2> HIDE DEF x
  <2>2. /\ x \div w \in Nat /\ x % w \in 0 .. w - 1
        /\ x = w * (x \div w) + (x % w)
    BY <2>1, Division
  <2> QED BY <2>2 DEF x
<1>3. i - 1 = w * (q - 1) + (j - 1)
  OBVIOUS
<1>4. \A k \in Nat : q =< k => i =< w * k
  <2>1. SUFFICES ASSUME NEW k \in Nat, q =< k PROVE i =< w * k
    OBVIOUS
  <2>2. w * (k - q) >= 0
    <3>1. \A a, b \in Nat : a * b >= 0
      OBVIOUS
    <3> QED BY <2>1, <3>1
  <2>3. w * (k - q) = w * k - w * q /\ (q - 1) * w = w * q - w
    OBVIOUS
  <2> QED BY <2>2, <2>3
<1> HIDE DEF i, d, r
<1>5. d =< q - 1
  <2>1. w * d + r < w * (q - 1) + w + 0
    BY <1>2, <1>3
  <2> QED BY <1>2, <2>1, Quotient
<1>6. q - 1 =< d
  <2>1. w * (q - 1) + (j - 1) < w * d + w + 0
    BY <1>2, <1>3
  <2> QED BY <1>2, <2>1, Quotient
<1>7. d = q - 1
  BY <1>2, <1>5, <1>6
<1>8. r = j - 1
  BY <1>2, <1>3, <1>7
<1> QED BY <1>1, <1>4, <1>7, <1>8 DEF i, d, r
(***************************************************************************)
(* FM_SYNC writes the table from the page that holds the next entry on.    *)
(* The pages it has added are entries too, but of no more pages than the   *)
(* index has: the next sync skips none.                                    *)
(***************************************************************************)
LEMMA SyncFits ==
  ASSUME IInv, Bounded
  PROVE  (Len(ptable) + Missing) \div PerPage =< Len(ptindex) + Missing
<1> DEFINE L == Len(ptable)
           I == Len(ptindex)
           P == PerPage
           T == PtiLen
           N == Npti(L)
<1>1. /\ L \in Nat /\ I \in Nat /\ P \in Nat \ {0} /\ T \in Nat
      /\ L =< MaxPages /\ L - I =< P * T - T /\ T =< P + 1
  BY FmioAssumption DEF IInv, TypeOK, Reserved, MaxPages, Bounded
<1>2. N \in Nat /\ N =< T
  BY <1>1, PtiIsShort
<1>3. L =< P * N
  <2> DEFINE y == L + P - 1
  <2>1. y \in Nat
    BY <1>1
  <2> HIDE DEF y
  <2>2. y \div P \in Nat /\ y % P \in 0 .. P - 1 /\ y = P * (y \div P) + (y % P)
    BY <1>1, <2>1, Division
  <2>3. N = y \div P
    BY DEF Npti, y
  <2> HIDE DEF N
  <2> QED BY <1>1, <1>2, <2>2, <2>3 DEF y
<1>4. Missing = IF N > I THEN N - I ELSE 0
  BY DEF Missing
<1>5. Len(ptable) + Missing \in Nat /\ Len(ptindex) + Missing \in Nat
  BY <1>1, <1>2, <1>4
<1> HIDE DEF L, I, P, T, N
<1>6. CASE N =< I
  <2>1. P * N =< P * I
    <3>1. P * (I - N) >= 0
      BY <1>1, <1>2, <1>6
    <3>2. P * (I - N) = P * I - P * N
      BY <1>1, <1>2
    <3> QED BY <1>1, <1>2, <3>1, <3>2
  <2>2. L < P * I + P
    BY <1>1, <1>2, <1>3, <2>1
  <2>3. L \div P =< I
    BY <1>1, <2>2, DivLess
  <2>4. Missing = 0
    BY <1>1, <1>2, <1>4, <1>6
  <2>5. L + Missing = L /\ I + Missing = I
    BY <1>1, <2>4
  <2> QED BY <2>3, <2>5 DEF L, I, P
<1>7. CASE N > I
  <2>1. Missing = N - I
    BY <1>4, <1>7
  <2>2. L + (N - I) < P * N + P
    <3>1. CASE N - I < P
      BY <1>1, <1>2, <1>3, <3>1
    <3>2. CASE N - I >= P
      <4>1. (N = P /\ I = 0 /\ T \in {P, P + 1}) \/ (N = P + 1 /\ I \in {0, 1} /\ T = P + 1)
        BY <1>1, <1>2, <1>7, <3>2
      <4>2. P * (P + 1) = P * P + P
        BY <1>1
      <4> QED BY <1>1, <1>2, <4>1, <4>2
    <3> QED BY <1>1, <1>2, <3>1, <3>2
  <2>3. L + (N - I) \in Nat
    BY <1>1, <1>2, <1>7
  <2>4. (L + (N - I)) \div P =< N
    BY <1>1, <1>2, <2>2, <2>3, DivLess
  <2>5. I + (N - I) = N
    BY <1>1, <1>2
  <2> QED BY <2>1, <2>4, <2>5 DEF L, I, P
<1> QED BY <1>1, <1>2, <1>6, <1>7

(***************************************************************************)
(* What a write does: it extends the table, and only pages of the lfile    *)
(* are written, with data.                                                 *)
(***************************************************************************)
LEMMA WriteEffect ==
  ASSUME IInv, NEW f \in Lfile, LfWrite(f)
  PROVE  /\ \E n \in Nat : Extend(f, n)
         /\ dhmodified \/ ptable' # ptable => dhmodified'
         /\ \A p \in Page : \/ page'[p] = page[p]
                            \/ p \in pagemap'[f] /\ page'[p] \in Lfile \X Val
         /\ Ready /\ f \in active
         /\ UNCHANGED <<pc, closing, ptindex, lupte, active, header>>
<1>1. PICK l \in 1 .. ftable[f].fsize + 1, n \in 1 .. MaxXfer :
         NoRoom(f, l, n) \/ \E v \in Val : Write(f, l, n, v)
  BY DEF LfWrite
<1>2. /\ f \in Owner /\ l \in Nat /\ n \in Nat /\ Len(ptable) \in Nat
      /\ ptable \in Seq(Owner)
      /\ Ready /\ f \in active
      /\ UNCHANGED <<pc, closing, ptindex, lupte, active, header>>
  <2>1. f \in Owner /\ ftable[f].fsize \in Nat /\ Len(ptable) \in Nat
    BY DEF IInv, TypeOK, Owner
  <2> QED BY <1>1, <2>1, FmioAssumption DEF LfWrite, IInv, TypeOK
<1>3. Cardinality(pagemap[f]) \in Nat
  <2>1. IsFiniteSet(Page)
    BY Sizes, FS_Interval DEF Page, MaxPages
  <2>2. pagemap[f] \subseteq Page
    BY <1>2 DEF IInv, TypeOK
  <2> QED BY <2>1, <2>2, FS_Subset, FS_CardinalityType
<1>4. CASE NoRoom(f, l, n)
  <2> DEFINE need == l + n - 1 - Cardinality(pagemap[f])
             k == Granted(need)
  <2>1. /\ need \in Nat /\ Extend(f, k) /\ page' = page
        /\ dhmodified' = (dhmodified \/ k > 0)
    BY <1>2, <1>3, <1>4 DEF NoRoom
  <2>2. k \in 0 .. need
    BY <1>2, <2>1, GrantedFits
  <2> HIDE DEF need, k
  <2>3. k = 0 => ptable' = ptable
    BY <1>2, <2>1 DEF Extend
  <2>4. k \in Nat /\ (k > 0 \/ k = 0)
    BY <2>1, <2>2
  <2>5. dhmodified \/ ptable' # ptable => dhmodified'
    BY <2>1, <2>3, <2>4
  <2>6. \A p \in Page : page'[p] = page[p]
    BY <2>1
  <2> QED BY <1>2, <2>1, <2>4, <2>5, <2>6
<1>5. ASSUME NEW v \in Val, Write(f, l, n, v)
      PROVE  /\ \E k \in Nat : Extend(f, k)
             /\ dhmodified \/ ptable' # ptable => dhmodified'
             /\ \A p \in Page : \/ page'[p] = page[p]
                                \/ p \in pagemap'[f] /\ page'[p] \in Lfile \X Val
  <2> DEFINE wanted == l + n - 1 - Cardinality(pagemap[f])
             k == IF wanted > 0 THEN wanted ELSE 0
  <2>1. k \in Nat /\ Extend(f, k)
    BY <1>2, <1>3, <1>5 DEF Write
  <2>2. (\E size \in Nat : Grown(f, size)) /\ (\E i \in Nat : Stored(f, l, i, v))
    <3>1. l + n - 1 \in Nat /\ 0 \in Nat /\ \A i \in 0 .. n - 1 : i \in Nat
      BY <1>2
    <3> QED BY <1>2, <1>5, <3>1 DEF Write
  <2>3. dhmodified \/ ptable' # ptable => dhmodified'
    BY <2>2 DEF Grown
  <2>4. \A p \in Page : \/ page'[p] = page[p]
                        \/ p \in pagemap'[f] /\ page'[p] \in Lfile \X Val
    <3>1. PICK i \in Nat : Stored(f, l, i, v)
      BY <2>2
    <3>2. Data(f, v) \in Lfile \X Val
      BY DEF Data
    <3> QED BY <3>1, <3>2 DEF Stored, Segment
  <2> QED BY <2>1, <2>3, <2>4
<1> QED BY <1>1, <1>2, <1>4, <1>5
-----------------------------------------------------------------------------
(***************************************************************************)
(* RInv: the datafile can be read again after every session.               *)
(***************************************************************************)
LEMMA NotAHole == /\ \A t \in Table : t # Hole
                  /\ \A d \in Lfile \X Val : d # Hole
BY HoleAssumption

LEMMA InitRInv == Init => RInv
<1> SUFFICES ASSUME Init PROVE RInv
  OBVIOUS
<1>1. /\ header.npte = 0 /\ header.ptindex = <<>> /\ ptindex = <<>> /\ lupte = 0
      /\ pc = "open" /\ Len(ptindex) = 0
  BY DEF Init, Blank
<1>2. 0 \div PerPage =< 0
  <2>1. PerPage \in Nat \ {0} /\ 0 < PerPage * 0 + PerPage
    BY FmioAssumption
  <2> QED BY <2>1, DivLess
<1> QED BY <1>1, <1>2 DEF RInv, Indexed, Written

LEMMA QuietKeepsR ==
  ASSUME IInv, RInv, UNCHANGED <<pc, ptindex, lupte, header>>,
         pc = "table" => ptable' = ptable,
         \A p \in Page : page[p] # Hole => page'[p] # Hole
  PROVE  RInv'
<1>1. Indexed'
  BY DEF RInv, Indexed
<1>2. \A q \in DOMAIN header.ptindex : header.ptindex[q] \in Page
  BY DEF IInv, HeaderOK
<1>3. \A q : Stale(q) => Stale(q)'
  BY DEF Stale, FirstStale
<1>4. Written'
  BY <1>2, <1>3 DEF RInv, Written
<1> QED BY <1>1, <1>4 DEF RInv

(***************************************************************************)
(* The pages fm_sync adds to the index follow all that are in it, and are  *)
(* in the table.                                                           *)
(***************************************************************************)
LEMMA SyncAdds ==
  ASSUME IInv, NEW close \in BOOLEAN, SyncHeader(close)
  PROVE  /\ Missing \in Nat
         /\ ptindex \in Seq(Page) /\ ptable \in Seq(Owner)
         /\ ptindex' \in Seq(Page) /\ Len(ptindex') = Len(ptindex) + Missing
         /\ ptable' \in Seq(Owner) /\ Len(ptable') = Len(ptable) + Missing
         /\ \A q \in 1 .. Len(ptindex) : ptindex'[q] = ptindex[q]
         /\ \A q \in Len(ptindex) + 1 .. Len(ptindex') :
               ptindex'[q] = Len(ptable) + (q - Len(ptindex))
         /\ \A i \in 1 .. Len(ptable) : ptable'[i] = ptable[i]
         /\ \A i \in Len(ptable) + 1 .. Len(ptable') : ptable'[i] = PT_LFILE
<1> DEFINE m == Missing
           new == [i \in 1 .. m |-> Len(ptable) + i]
           own == [i \in 1 .. m |-> PT_LFILE]
<1>1. ptindex \in Seq(Page) /\ ptable \in Seq(Owner) /\ ptindex' \in Seq(Page)
  BY SyncHeaderKeeps DEF IInv, TypeOK
<1>2. m \in Nat
  BY <1>1, PtiIsShort DEF Missing, IInv, TypeOK, MaxPages
<1>3. ptindex' = ptindex \o new /\ ptable' = ptable \o own
  BY DEF SyncHeader, Extend
<1> HIDE DEF m
<1>4. new \in Seq(Nat) /\ Len(new) = m /\ \A i \in 1 .. m : new[i] = Len(ptable) + i
  BY <1>1, <1>2
<1>5. own \in Seq({PT_LFILE}) /\ Len(own) = m /\ \A i \in 1 .. m : own[i] = PT_LFILE
  BY <1>2
<1>6. Page \subseteq Nat
  BY DEF Page
<1> HIDE DEF new, own
<1>7. /\ Len(ptindex') = Len(ptindex) + m
      /\ \A q \in 1 .. Len(ptindex) : ptindex'[q] = ptindex[q]
      /\ \A q \in Len(ptindex) + 1 .. Len(ptindex') :
            ptindex'[q] = Len(ptable) + (q - Len(ptindex))
  <2>1. ptindex \in Seq(Nat)
    BY <1>1, <1>6, SeqMonotonic
  <2>2. \A s, t \in Seq(Nat) :
           /\ Len(s \o t) = Len(s) + Len(t)
           /\ \A q \in 1 .. Len(s) : (s \o t)[q] = s[q]
           /\ \A q \in Len(s) + 1 .. Len(s) + Len(t) : (s \o t)[q] = t[q - Len(s)]
    OBVIOUS
  <2>3. /\ Len(ptindex \o new) = Len(ptindex) + m
        /\ \A q \in 1 .. Len(ptindex) : (ptindex \o new)[q] = ptindex[q]
        /\ \A q \in Len(ptindex) + 1 .. Len(ptindex) + m :
              (ptindex \o new)[q] = new[q - Len(ptindex)]
    BY <1>4, <2>1, <2>2
  <2>4. ASSUME NEW q \in Len(ptindex) + 1 .. Len(ptindex) + m
        PROVE  new[q - Len(ptindex)] = Len(ptable) + (q - Len(ptindex))
    <3>1. q - Len(ptindex) \in 1 .. m
      BY <1>1, <1>2
    <3> QED BY <1>4, <3>1
  <2> QED BY <1>3, <2>3, <2>4
<1>8. /\ Len(ptable') = Len(ptable) + m
      /\ \A i \in 1 .. Len(ptable) : ptable'[i] = ptable[i]
      /\ \A i \in Len(ptable) + 1 .. Len(ptable') : ptable'[i] = PT_LFILE
  <2>1. own \in Seq(Owner) /\ PT_LFILE \in Owner
    BY <1>5 DEF Owner
  <2>2. \A s, t \in Seq(Owner) :
           /\ s \o t \in Seq(Owner) /\ Len(s \o t) = Len(s) + Len(t)
           /\ \A q \in 1 .. Len(s) : (s \o t)[q] = s[q]
           /\ \A q \in Len(s) + 1 .. Len(s) + Len(t) : (s \o t)[q] = t[q - Len(s)]
    OBVIOUS
  <2>3. ASSUME NEW i \in Len(ptable) + 1 .. Len(ptable) + m
        PROVE  own[i - Len(ptable)] = PT_LFILE
    <3>1. i - Len(ptable) \in 1 .. m
      BY <1>1, <1>2
    <3> QED BY <1>5, <3>1
  <2>4. /\ Len(ptable \o own) = Len(ptable) + m
        /\ \A i \in 1 .. Len(ptable) : (ptable \o own)[i] = ptable[i]
        /\ \A i \in Len(ptable) + 1 .. Len(ptable) + m :
              (ptable \o own)[i] = own[i - Len(ptable)]
    BY <1>1, <1>5, <2>1, <2>2
  <2> QED BY <1>3, <2>3, <2>4
<1>9. ptable' \in Seq(Owner)
  BY SyncHeaderKeeps DEF IInv, TypeOK
<1> QED BY <1>1, <1>2, <1>7, <1>8, <1>9 DEF m

LEMMA HeaderIs ==
  ASSUME IInv, Indexed, NEW close \in BOOLEAN, SyncHeader(close)
  PROVE  /\ header'.ptindex = ptindex'
         /\ header'.npte = IF dhmodified \/ Missing > 0 THEN Len(ptable') ELSE header.npte
<1>1. CASE dhmodified \/ Missing > 0
  BY <1>1 DEF SyncHeader
<1>2. CASE ~(dhmodified \/ Missing > 0)
  <2>1. header' = header /\ header.ptindex = ptindex
    BY <1>2 DEF SyncHeader, Ready, Indexed
  <2>2. Missing = 0
    BY <1>2, SyncAdds
  <2>3. ptindex' = ptindex
    BY <2>2 DEF SyncHeader, IInv, TypeOK
  <2> QED BY <1>2, <2>1, <2>3
<1> QED BY <1>1, <1>2

LEMMA SyncHeaderKeepsR ==
  ASSUME IInv, RInv, Bounded, NEW close \in BOOLEAN, SyncHeader(close)
  PROVE  RInv'
<1>1. /\ pc' = "table" /\ lupte' = lupte /\ page' = page /\ pc = "open"
      /\ header.ptindex = ptindex
  BY DEF SyncHeader, Ready, RInv, Indexed
<1>2. header'.ptindex = ptindex' /\ (header'.npte = Len(ptable') \/ header'.npte = header.npte)
  BY HeaderIs DEF RInv
<1>3. (Len(ptable) + Missing) \div PerPage =< Len(ptindex) + Missing
  BY SyncFits
<1>4. /\ Len(ptindex) \in Nat /\ Missing \in Nat /\ lupte \in Nat /\ header.npte \in Nat
      /\ PerPage \in Nat \ {0} /\ lupte =< Len(ptable) /\ Len(ptable) \in Nat
  BY SyncAdds, FmioAssumption DEF IInv, TypeOK
<1>5. lupte \div PerPage \in Nat /\ header.npte \div PerPage \in Nat
  BY <1>4, Division
<1>6. Len(ptindex') = Len(ptindex) + Missing /\ Len(ptable') = Len(ptable) + Missing
  BY SyncAdds
<1>7. lupte \div PerPage =< Len(ptindex) /\ header.npte \div PerPage =< Len(ptindex)
  BY <1>1 DEF RInv, Indexed
<1>8. Indexed'
  <2>1. Len(ptable') \div PerPage =< Len(ptindex')
    BY <1>3, <1>6
  <2>2. lupte' \div PerPage =< Len(ptindex')
    <3> DEFINE d == lupte \div PerPage
    <3>1. d \in Nat /\ d =< Len(ptindex)
      BY <1>5, <1>7
    <3> HIDE DEF d
    <3>2. d =< Len(ptindex')
      BY <1>4, <1>6, <3>1
    <3> QED BY <1>1, <3>2 DEF d
  <2>3. header.npte \div PerPage =< Len(ptindex')
    <3> DEFINE d == header.npte \div PerPage
    <3>1. d \in Nat /\ d =< Len(ptindex)
      BY <1>5, <1>7
    <3> HIDE DEF d
    <3>2. d =< Len(ptindex')
      BY <1>4, <1>6, <3>1
    <3> QED BY <3>2 DEF d
  <2>4. header'.npte \div PerPage =< Len(header'.ptindex)
    BY <1>2, <2>1, <2>3
  <2> QED BY <1>1, <1>2, <2>1, <2>2, <2>4 DEF Indexed
<1>9. ASSUME NEW q \in DOMAIN header'.ptindex
      PROVE  page'[header'.ptindex[q]] # Hole \/ Stale(q)'
  <2>1. q \in 1 .. Len(ptindex')
    BY <1>2, SyncAdds
  <2>2. CASE q =< Len(ptindex)
    <3>1. q \in DOMAIN header.ptindex /\ header'.ptindex[q] = header.ptindex[q]
      BY <1>1, <1>2, <2>1, <2>2, SyncAdds
    <3>2. ~Stale(q)
      BY <1>1 DEF Stale
    <3> QED BY <1>1, <3>1, <3>2 DEF RInv, Written
  <2>3. CASE q > Len(ptindex)
    <3>1. lupte' < Len(ptable') /\ FirstStale' =< q
      <4> DEFINE d == lupte \div PerPage
      <4>1. d \in Nat /\ d =< Len(ptindex) /\ FirstStale' = d + 1
        BY <1>1, <1>5, <1>7 DEF FirstStale
      <4> HIDE DEF d
      <4> QED BY <1>1, <1>4, <1>6, <2>1, <2>3, <4>1
    <3> QED BY <1>1, <3>1 DEF Stale
  <2> QED BY <1>4, <2>1, <2>2, <2>3
<1> QED BY <1>8, <1>9 DEF RInv, Written

LEMMA EntriesAreTable ==
  ASSUME IInv, NEW q \in Nat \ {0}
  PROVE  /\ Entries(q) \in Table
         /\ \A j \in 1 .. PerPage :
               Row(q, j) =< Len(ptable) => Entries(q)[j] = ptable[Row(q, j)]
<1>1. ptable \in Seq(Owner) /\ PT_LFILE \in Owner /\ PerPage \in Nat \ {0}
  BY FmioAssumption DEF IInv, TypeOK, Owner
<1>2. \A j \in 1 .. PerPage : Row(q, j) \in Nat \ {0}
  BY <1>1, RowIs DEF Row
<1>3. Entries(q) = [j \in 1 .. PerPage |-> IF Row(q, j) =< Len(ptable) THEN ptable[Row(q, j)]
                                                                       ELSE PT_LFILE]
  BY DEF Entries, Row
<1>4. \A i \in Nat \ {0} : i =< Len(ptable) => ptable[i] \in Owner
  BY <1>1
<1> QED BY <1>1, <1>2, <1>3, <1>4 DEF Table

(***************************************************************************)
(* What fm_sync writes to page p of the datafile.                          *)
(***************************************************************************)
LEMMA TableWritten ==
  ASSUME IInv, SyncTable, NEW p \in Page
  PROVE  /\ lupte < Len(ptable) =>
               \A q \in FirstStale .. Len(ptindex) : ptindex[q] = p =>
                  \E r \in FirstStale .. Len(ptindex) : ptindex[r] = p /\ page'[p] = Entries(r)
         /\ \/ ~(lupte < Len(ptable))
            \/ \A q \in FirstStale .. Len(ptindex) : ptindex[q] # p
            => page'[p] = page[p]
<1>1. Len(ptable) \in Nat /\ lupte \in Nat
  BY DEF IInv, TypeOK
<1> DEFINE T == FirstStale .. Len(ptindex)
           hit == \E q \in T : ptindex[q] = p
           r == CHOOSE q \in T : ptindex[q] = p
<1>2. page'[p] = IF Len(ptable) > lupte /\ hit THEN Entries(r) ELSE page[p]
  BY DEF SyncTable
<1>3. hit => r \in T /\ ptindex[r] = p
  OBVIOUS
<1>4. Len(ptable) > lupte <=> lupte < Len(ptable)
  BY <1>1
<1> HIDE DEF r, T
<1> QED BY <1>2, <1>3, <1>4 DEF T

LEMMA FirstIsIndex == ASSUME IInv PROVE FirstStale \in Nat \ {0}
<1>1. lupte \in Nat /\ PerPage \in Nat \ {0}
  BY FmioAssumption DEF IInv, TypeOK
<1>2. lupte \div PerPage \in Nat
  BY <1>1, Division
<1> QED BY <1>2 DEF FirstStale

LEMMA SyncTableKeepsR == ASSUME IInv, RInv, SyncTable PROVE RInv'
<1>1. /\ lupte' = Len(ptable) /\ pc = "table" /\ pc' \in {"close", "open"}
      /\ UNCHANGED <<ptable, ptindex, header>>
      /\ header.ptindex = ptindex
  BY DEF SyncTable, RInv, Indexed
<1>2. Indexed'
  BY <1>1 DEF RInv, Indexed
<1>3. ASSUME NEW q \in DOMAIN header.ptindex PROVE page'[header.ptindex[q]] # Hole
  <2> DEFINE p == header.ptindex[q]
  <2>1. p \in Page /\ q \in 1 .. Len(ptindex) /\ ptindex[q] = p /\ Len(ptindex) \in Nat
    BY <1>1, <1>3 DEF IInv, TypeOK
  <2>2. FirstStale \in Nat \ {0}
    BY FirstIsIndex
  <2> HIDE DEF p
  <2>3. CASE lupte < Len(ptable) /\ \E r \in FirstStale .. Len(ptindex) : ptindex[r] = p
    <3>1. PICK r \in FirstStale .. Len(ptindex) : page'[p] = Entries(r)
      BY <2>1, <2>3, TableWritten
    <3>2. r \in Nat \ {0}
      BY <2>1, <2>2
    <3> QED BY <3>1, <3>2, EntriesAreTable, NotAHole DEF p
  <2>4. CASE ~(lupte < Len(ptable)) \/ \A r \in FirstStale .. Len(ptindex) : ptindex[r] # p
    <3>1. page'[p] = page[p]
      BY <2>1, <2>4, TableWritten
    <3>2. ~Stale(q)
      BY <2>1, <2>2, <2>4 DEF Stale
    <3> QED BY <3>1, <3>2 DEF p, RInv, Written
  <2> QED BY <2>3, <2>4
<1>4. Written'
  BY <1>1, <1>3 DEF Written
<1> QED BY <1>2, <1>4 DEF RInv

LEMMA EndKeepsR ==
  ASSUME IInv, RInv, pc # "table", Forgotten, pc' = "closed", UNCHANGED disk
  PROVE  RInv'
<1>1. 0 \div PerPage =< 0
  <2>1. PerPage \in Nat \ {0} /\ 0 < PerPage * 0 + PerPage
    BY FmioAssumption
  <2> QED BY <2>1, DivLess
<1>2. Indexed'
  BY <1>1 DEF RInv, Indexed, Forgotten, disk
<1>3. Written'
  BY DEF RInv, Written, Stale, disk
<1> QED BY <1>2, <1>3 DEF RInv

LEMMA NextRInv == ASSUME IInv, RInv, Bounded, [Next]_vars PROVE RInv'
<1>1. ASSUME NEW f \in Lfile, LfWrite(f) PROVE RInv'
  <2>1. \A p \in Page : page[p] # Hole => page'[p] # Hole
    BY <1>1, WriteEffect, NotAHole
  <2>2. pc # "table" /\ UNCHANGED <<pc, ptindex, lupte, header>>
    BY <1>1, WriteEffect DEF Ready
  <2> QED BY <2>1, <2>2, QuietKeepsR
<1>2. ASSUME NEW f \in Lfile, LfOpen(f) \/ \E del \in BOOLEAN : LfMark(f, del) PROVE RInv'
  <2>1. pc # "table" /\ page' = page /\ UNCHANGED <<pc, ptindex, lupte, header>>
    BY <1>2 DEF LfOpen, Activate, LfMark, Ready, disk
  <2> QED BY <2>1, QuietKeepsR
<1>3. CASE RaiseError \/ UNCHANGED vars
  <2>1. ptable' = ptable /\ page' = page /\ UNCHANGED <<pc, ptindex, lupte, header>>
    BY <1>3 DEF RaiseError, vars, core, disk
  <2> QED BY <2>1, QuietKeepsR
<1>4. ASSUME NEW close \in BOOLEAN, SyncHeader(close) PROVE RInv'
  BY <1>4, SyncHeaderKeepsR
<1>5. CASE SyncTable
  BY <1>5, SyncTableKeepsR
<1>6. CASE Close
  <2>1. CASE errcode
    <3>1. /\ pc = "close" /\ pc' = "open"
          /\ UNCHANGED <<ptable, ptindex, lupte, header, page>>
      BY <1>6, <2>1 DEF Close, disk
    <3> QED BY <3>1 DEF RInv, Indexed, Written, Stale
  <2>2. CASE ~errcode
    BY <1>6, <2>2, EndKeepsR DEF Close
  <2> QED BY <2>1, <2>2
<1>7. CASE Crash
  <2>1. pc # "table"
    BY <1>7 DEF Crash, Bounded
  <2> QED BY <1>7, <2>1, EndKeepsR DEF Crash
<1>8. CASE Open
  <2>1. /\ pc = "closed" /\ pc' = "open" /\ ptindex' = header.ptindex
        /\ lupte' = header.npte /\ UNCHANGED <<header, page>>
    BY <1>8 DEF Open, disk
  <2> QED BY <2>1 DEF RInv, Indexed, Written, Stale
<1> QED BY <1>1, <1>2, <1>3, <1>4, <1>5, <1>6, <1>7, <1>8 DEF Next

(***************************************************************************)
(* "A datafile should always be recoverable after a crash": whatever ended *)
(* the session, FM_OPEN finds the pages of the index.  This takes that no  *)
(* crash comes between the two writes of a sync (which Fmio can make it    *)
(* do), and an index of at most one page more than the entries of a page:  *)
(* with a longer one fm_sync leaves out pages that the last sync added.    *)
(***************************************************************************)
THEOREM RecoverableAfterCrash ==
  ASSUME PtiLen =< PerPage + 1, CrashInSync = FALSE
  PROVE  Spec => []Recoverable
<1>1. Bounded
  BY DEF Bounded
<1>2. IInv /\ RInv => Recoverable
  <2> SUFFICES ASSUME IInv, RInv, pc = "closed",
                      NEW q \in DOMAIN header.ptindex
               PROVE  \E p \in Page : p >= header.ptindex[q] /\ page[p] # Hole
    BY DEF Recoverable, Readable
  <2>1. header.ptindex[q] \in Page
    BY DEF IInv, HeaderOK
  <2>2. page[header.ptindex[q]] # Hole
    BY DEF RInv, Written, Stale
  <2>3. \A p \in Page : p >= p
    BY DEF Page
  <2> QED BY <2>1, <2>2, <2>3
<1>3. IInv /\ RInv /\ [Next]_vars => RInv'
  BY <1>1, NextRInv
<1> QED BY <1>2, <1>3, InitRInv, Invariance, PTL DEF Spec
-----------------------------------------------------------------------------
(***************************************************************************)
(* DInv: the page table that FM_OPEN reads back is the one that was synced.*)
(***************************************************************************)
LEMMA IndexIsSeq ==
  ASSUME IInv
  PROVE  /\ PerPage \in Nat \ {0} /\ lupte \in Nat /\ lupte =< Len(ptable)
         /\ ptable \in Seq(Owner) /\ Len(ptable) \in Nat /\ DOMAIN ptable = 1 .. Len(ptable)
         /\ ptindex \in Seq(Page) /\ Len(ptindex) \in Nat /\ DOMAIN ptindex = 1 .. Len(ptindex)
         /\ header.ptindex \in Seq(Page) /\ Len(header.ptindex) \in Nat
         /\ DOMAIN header.ptindex = 1 .. Len(header.ptindex)
         /\ \A q \in DOMAIN header.ptindex : header.ptindex[q] \in Nat \ {0}
<1>1. Page \subseteq Nat \ {0}
  BY DEF Page
<1>2. ptable \in Seq(Owner) /\ ptindex \in Seq(Page) /\ header.ptindex \in Seq(Page)
  BY DEF IInv, TypeOK
<1>3. \A q \in DOMAIN header.ptindex : header.ptindex[q] \in Page
  BY <1>2
<1>4. lupte \in 0 .. Len(ptable) /\ PerPage \in Nat \ {0}
  BY FmioAssumption DEF IInv, TypeOK
<1>5. Len(ptable) \in Nat /\ Len(ptindex) \in Nat /\ Len(header.ptindex) \in Nat
  BY <1>2
<1>6. lupte \in Nat /\ lupte =< Len(ptable)
  BY <1>4, <1>5
<1>7. \A q \in DOMAIN header.ptindex : header.ptindex[q] \in Nat \ {0}
  BY <1>1, <1>3
<1> QED BY <1>2, <1>4, <1>5, <1>6, <1>7

LEMMA InitDInv == Init => DInv
BY DEF Init, Blank, DInv, TableOwnsItsPages, Counted, Apart, Copied, Kept

LEMMA CallKeepsD ==
  ASSUME IInv, IInv', RInv, DInv, Ready,
         UNCHANGED <<pc, ptindex, lupte, header>>,
         Len(ptable) =< Len(ptable'),
         \A i \in 1 .. Len(ptable) : ptable'[i] = ptable[i],
         dhmodified \/ ptable' # ptable => dhmodified',
         \A p \in Page : page'[p] = page[p] \/ (p \in DOMAIN ptable' => ptable'[p] # PT_LFILE)
  PROVE  DInv'
<1>1. pc = "open" /\ header.ptindex = ptindex
  BY DEF Ready, RInv, Indexed
<1>2. /\ Len(ptable) \in Nat /\ Len(ptable') \in Nat
      /\ DOMAIN ptable = 1 .. Len(ptable) /\ DOMAIN ptable' = 1 .. Len(ptable')
  BY IndexIsSeq DEF IInv, TypeOK
<1>3. ASSUME NEW q \in DOMAIN ptindex
      PROVE  /\ ptindex[q] \in DOMAIN ptable' /\ ptable'[ptindex[q]] = PT_LFILE
             /\ page'[ptindex[q]] = page[ptindex[q]]
  <2>1. ptindex[q] \in DOMAIN ptable /\ ptable[ptindex[q]] = PT_LFILE
    BY DEF DInv, TableOwnsItsPages
  <2>2. ptindex[q] \in DOMAIN ptable' /\ ptable'[ptindex[q]] = PT_LFILE
    BY <1>2, <2>1
  <2>3. ptindex[q] \in Page
    BY DEF IInv, TypeOK
  <2> QED BY <2>2, <2>3
<1>4. TableOwnsItsPages'
  BY <1>3 DEF TableOwnsItsPages
<1>5. Counted'
  BY <1>1 DEF DInv, Counted
<1>6. Apart' /\ Kept'
  BY <1>1 DEF DInv, Apart, Kept
<1>7. Copied'
  <2> SUFFICES ASSUME NEW q \in DOMAIN ptindex
               PROVE  /\ page'[ptindex[q]] \in Table
                      /\ \A j \in 1 .. PerPage :
                            Row(q, j) =< lupte => page'[ptindex[q]][j] = ptable'[Row(q, j)]
    BY <1>1 DEF Copied, Row
  <2>1. /\ page[ptindex[q]] \in Table
        /\ \A j \in 1 .. PerPage :
              Row(q, j) =< lupte => page[ptindex[q]][j] = ptable[Row(q, j)]
    BY <1>1 DEF DInv, Copied, Stale
  <2>2. \A j \in 1 .. PerPage : Row(q, j) \in Nat \ {0}
    <3>1. q \in Nat \ {0}
      BY IndexIsSeq
    <3> QED BY <3>1, IndexIsSeq, RowIs DEF Row
  <2>3. ASSUME NEW j \in 1 .. PerPage, Row(q, j) =< lupte
        PROVE  ptable'[Row(q, j)] = ptable[Row(q, j)]
    <3>1. Row(q, j) \in 1 .. Len(ptable)
      BY <2>2, <2>3, IndexIsSeq
    <3> QED BY <3>1
  <2> QED BY <1>3, <2>1, <2>3
<1> QED BY <1>4, <1>5, <1>6, <1>7 DEF DInv

LEMMA NewIsStale ==
  ASSUME IInv, RInv, NEW close \in BOOLEAN, SyncHeader(close),
         NEW q \in Len(ptindex) + 1 .. Len(ptindex')
  PROVE  Stale(q)'
<1> DEFINE d == lupte \div PerPage
<1>1. d \in Nat /\ d =< Len(ptindex)
  BY IndexIsSeq, Division DEF RInv, Indexed
<1>2. FirstStale' = d + 1 /\ lupte' = lupte /\ pc' = "table"
  BY DEF SyncHeader, FirstStale
<1>3. /\ Missing \in Nat /\ Len(ptindex') = Len(ptindex) + Missing
      /\ Len(ptable') = Len(ptable) + Missing
  BY SyncAdds
<1>4. Len(ptindex) \in Nat /\ Len(ptable) \in Nat /\ lupte \in Nat /\ lupte =< Len(ptable)
  BY IndexIsSeq
<1> HIDE DEF d
<1>5. lupte < Len(ptable') /\ d + 1 =< q
  BY <1>1, <1>3, <1>4
<1> QED BY <1>2, <1>5 DEF Stale

LEMMA SyncHeaderKeepsD ==
  ASSUME IInv, RInv, DInv, NEW close \in BOOLEAN, SyncHeader(close)
  PROVE  DInv'
<1>1. /\ pc = "open" /\ pc' = "table" /\ dhmodified' = FALSE /\ page' = page
      /\ lupte' = lupte /\ header.ptindex = ptindex /\ header'.ptindex = ptindex'
  BY HeaderIs DEF SyncHeader, Ready, RInv, Indexed
<1> DEFINE I == Len(ptindex)
           L == Len(ptable)
           m == Missing
<1>2. /\ I \in Nat /\ L \in Nat /\ m \in Nat /\ lupte \in Nat /\ lupte =< L
      /\ DOMAIN ptindex = 1 .. I /\ DOMAIN ptable = 1 .. L
      /\ DOMAIN ptindex' = 1 .. I + m /\ DOMAIN ptable' = 1 .. L + m
      /\ Len(ptindex') = I + m /\ Len(ptable') = L + m
  BY IndexIsSeq, SyncAdds
<1>3. /\ \A q \in 1 .. I : ptindex'[q] = ptindex[q]
      /\ \A q \in I + 1 .. I + m : ptindex'[q] = L + (q - I)
      /\ \A i \in 1 .. L : ptable'[i] = ptable[i]
      /\ \A i \in L + 1 .. L + m : ptable'[i] = PT_LFILE
  BY <1>2, SyncAdds
<1>4. \A q \in 1 .. I : ptindex[q] \in 1 .. L /\ ptable[ptindex[q]] = PT_LFILE
  BY <1>2 DEF DInv, TableOwnsItsPages
<1>5. header'.npte = L + m
  <2>1. CASE dhmodified \/ m > 0
    BY <1>2, <2>1, HeaderIs DEF RInv
  <2>2. CASE ~(dhmodified \/ m > 0)
    <3>1. header'.npte = header.npte /\ header.npte = L
      BY <1>1, <2>2, HeaderIs DEF RInv, DInv, Counted
    <3>2. m = 0
      BY <1>2, <2>2
    <3> HIDE DEF I, L, m
    <3>3. L + m = L
      BY <1>2, <3>2
    <3> QED BY <3>1, <3>3
  <2> QED BY <2>1, <2>2
<1> HIDE DEF I, L, m
<1>6. \A q \in I + 1 .. I + m : ptindex'[q] \in L + 1 .. L + m
  BY <1>2, <1>3
<1>7. \A q \in 1 .. I + m : q \in 1 .. I \/ q \in I + 1 .. I + m
  BY <1>2
<1>8. TableOwnsItsPages'
  <2>1. ASSUME NEW q \in 1 .. I + m
        PROVE  ptindex'[q] \in 1 .. L + m /\ ptable'[ptindex'[q]] = PT_LFILE
    <3>1. CASE q \in 1 .. I
      BY <1>2, <1>3, <1>4, <3>1
    <3>2. CASE q \in I + 1 .. I + m
      BY <1>2, <1>3, <1>6, <3>2
    <3> QED BY <1>7, <3>1, <3>2
  <2> QED BY <1>2, <2>1 DEF TableOwnsItsPages
<1>9. Counted' /\ Kept'
  BY <1>1, <1>2, <1>5 DEF Counted, Kept
<1>10. Apart'
  <2>1. \A q \in 1 .. I + m : ptindex'[q] =< L + m
    BY <1>2, <1>8 DEF TableOwnsItsPages
  <2>2. ASSUME NEW q \in 1 .. I + m, NEW r \in 1 .. I + m, ptindex'[q] = ptindex'[r]
        PROVE  q = r
    <3>1. CASE q \in 1 .. I /\ r \in 1 .. I
      BY <1>1, <1>2, <1>3, <2>2, <3>1 DEF DInv, Apart
    <3>2. CASE q \in 1 .. I /\ r \in I + 1 .. I + m
      BY <1>2, <1>3, <1>4, <1>6, <2>2, <3>2
    <3>3. CASE q \in I + 1 .. I + m /\ r \in 1 .. I
      BY <1>2, <1>3, <1>4, <1>6, <2>2, <3>3
    <3>4. CASE q \in I + 1 .. I + m /\ r \in I + 1 .. I + m
      BY <1>2, <1>3, <2>2, <3>4
    <3> QED BY <1>7, <3>1, <3>2, <3>3, <3>4
  <2> QED BY <1>1, <1>2, <1>5, <2>1, <2>2 DEF Apart
<1>11. Copied'
  <2> SUFFICES ASSUME NEW q \in 1 .. I + m
               PROVE  \/ /\ page[ptindex'[q]] \in Table
                         /\ \A j \in 1 .. PerPage :
                               Row(q, j) =< lupte => page[ptindex'[q]][j] = ptable'[Row(q, j)]
                      \/ Stale(q)'
    BY <1>1, <1>2 DEF Copied, Row
  <2>1. CASE q \in 1 .. I
    <3>1. /\ page[ptindex[q]] \in Table
          /\ \A j \in 1 .. PerPage :
                Row(q, j) =< lupte => page[ptindex[q]][j] = ptable[Row(q, j)]
      BY <1>1, <1>2, <2>1 DEF DInv, Copied, Stale
    <3>2. ASSUME NEW j \in 1 .. PerPage, Row(q, j) =< lupte
          PROVE  ptable'[Row(q, j)] = ptable[Row(q, j)]
      <4>1. q \in Nat \ {0} /\ PerPage \in Nat \ {0}
        BY <2>1, IndexIsSeq
      <4>2. Row(q, j) \in Nat \ {0}
        BY <4>1, RowIs DEF Row
      <4>3. Row(q, j) \in 1 .. L
        BY <1>2, <3>2, <4>2
      <4> QED BY <1>3, <4>3
    <3> QED BY <1>3, <2>1, <3>1, <3>2
  <2>2. CASE q \in I + 1 .. I + m
    <3>1. q \in Len(ptindex) + 1 .. Len(ptindex')
      BY <1>2, <2>2 DEF I
    <3> QED BY <3>1, NewIsStale
  <2> QED BY <1>7, <2>1, <2>2
<1> QED BY <1>8, <1>9, <1>10, <1>11 DEF DInv

LEMMA SyncTableKeepsD == ASSUME IInv, RInv, DInv, SyncTable PROVE DInv'
<1>1. /\ lupte' = Len(ptable) /\ pc = "table" /\ pc' \in {"close", "open"}
      /\ UNCHANGED <<ptable, ptindex, header, dhmodified>>
      /\ header.ptindex = ptindex
  BY DEF SyncTable, RInv, Indexed
<1>2. TableOwnsItsPages' /\ Counted' /\ Apart' /\ Kept'
  BY <1>1 DEF DInv, TableOwnsItsPages, Counted, Apart, Kept
<1>3. ASSUME NEW q \in DOMAIN ptindex
      PROVE  /\ page'[ptindex[q]] \in Table
             /\ \A j \in 1 .. PerPage :
                   Row(q, j) =< Len(ptable) => page'[ptindex[q]][j] = ptable[Row(q, j)]
  <2> DEFINE p == ptindex[q]
  <2>1. p \in Page /\ q \in 1 .. Len(ptindex) /\ Len(ptindex) \in Nat /\ q \in Nat \ {0}
        /\ FirstStale \in Nat \ {0}
    BY IndexIsSeq, FirstIsIndex DEF IInv, TypeOK
  <2>2. \A r \in DOMAIN ptindex : ptindex[r] = p => r = q
    BY <1>1 DEF DInv, Apart
  <2>3. \A r \in FirstStale .. Len(ptindex) : r \in DOMAIN ptindex
    BY <2>1, IndexIsSeq
  <2> HIDE DEF p
  <2>4. CASE lupte < Len(ptable) /\ FirstStale =< q
    <3>1. q \in FirstStale .. Len(ptindex) /\ ptindex[q] = p
      BY <2>1, <2>4 DEF p
    <3>2. PICK r \in FirstStale .. Len(ptindex) : ptindex[r] = p /\ page'[p] = Entries(r)
      BY <2>1, <2>4, <3>1, TableWritten
    <3>3. r = q
      BY <2>2, <2>3, <3>2
    <3> QED BY <2>1, <3>2, <3>3, EntriesAreTable DEF p
  <2>5. CASE ~(lupte < Len(ptable) /\ FirstStale =< q)
    <3>1. ~(lupte < Len(ptable)) \/ \A r \in FirstStale .. Len(ptindex) : ptindex[r] # p
      BY <2>1, <2>2, <2>3, <2>5
    <3>2. page'[p] = page[p]
      BY <2>1, <3>1, TableWritten
    <3>3. /\ page[p] \in Table
          /\ \A j \in 1 .. PerPage : Row(q, j) =< lupte => page[p][j] = ptable[Row(q, j)]
      BY <1>1, <2>5 DEF p, DInv, Copied, Stale
    <3>4. ASSUME NEW j \in 1 .. PerPage, Row(q, j) =< Len(ptable) PROVE Row(q, j) =< lupte
      <4>1. CASE ~(lupte < Len(ptable))
        BY <3>4, <4>1, IndexIsSeq
      <4>2. CASE ~(FirstStale =< q)
        <5> DEFINE d == lupte \div PerPage
        <5>1. d \in Nat /\ lupte = PerPage * d + (lupte % PerPage)
              /\ lupte % PerPage \in 0 .. PerPage - 1
          BY IndexIsSeq, Division
        <5>2. FirstStale = d + 1
          BY DEF FirstStale
        <5> HIDE DEF d
        <5>3. q =< d
          BY <2>1, <4>2, <5>1, <5>2
        <5>4. Row(q, j) \in Nat /\ Row(q, j) =< PerPage * d
          BY <2>1, <5>1, <5>3, IndexIsSeq, RowIs DEF Row
        <5>5. PerPage * d \in Nat
          <6>1. \A a, b \in Nat : a * b \in Nat
            OBVIOUS
          <6>2. PerPage \in Nat
            BY IndexIsSeq
          <6> QED BY <5>1, <6>1, <6>2
        <5> QED BY <5>1, <5>4, <5>5
      <4> QED BY <2>5, <4>1, <4>2
    <3> QED BY <3>2, <3>3, <3>4 DEF p
  <2> QED BY <2>4, <2>5
<1>4. Copied'
  BY <1>1, <1>3 DEF Copied, Row
<1> QED BY <1>2, <1>4 DEF DInv

LEMMA EndKeepsD ==
  ASSUME IInv, RInv, DInv, pc \in {"open", "close"}, Forgotten, pc' = "closed",
         UNCHANGED disk
  PROVE  DInv'
<1>1. /\ header' = header /\ page' = page /\ ptindex' = <<>>
      /\ header.ptindex = ptindex /\ header.npte = lupte
  BY DEF Forgotten, disk, RInv, Indexed, DInv, Counted
<1>2. TableOwnsItsPages' /\ Counted' /\ Apart' /\ Copied'
  BY <1>1 DEF DInv, TableOwnsItsPages, Counted, Apart, Copied
<1>3. ASSUME NEW q \in DOMAIN ptindex
      PROVE  /\ page[ptindex[q]] \in Table
             /\ InTable(ptindex[q]) => Entry(ptindex, ptindex[q]) = PT_LFILE
  <2>1. \A r \in DOMAIN ptindex :
           /\ page[ptindex[r]] \in Table
           /\ \A j \in 1 .. PerPage :
                 Row(r, j) =< lupte => page[ptindex[r]][j] = ptable[Row(r, j)]
    BY <1>1 DEF DInv, Copied, Stale
  <2> DEFINE i == ptindex[q]
             r == (i - 1) \div PerPage + 1
             j == ((i - 1) % PerPage) + 1
  <2>2. i \in Nat \ {0} /\ PerPage \in Nat \ {0} /\ Len(ptindex) \in Nat
    BY <1>1, IndexIsSeq
  <2>3. i =< lupte /\ ptable[i] = PT_LFILE
    BY <1>1 DEF DInv, Apart, TableOwnsItsPages
  <2> HIDE DEF i
  <2>4. /\ r \in Nat \ {0} /\ j \in 1 .. PerPage /\ Row(r, j) = i
        /\ \A k \in Nat : i =< PerPage * k => r =< k
    BY <2>2, RowOf DEF Row
  <2>5. ASSUME InTable(i) PROVE Entry(ptindex, i) = PT_LFILE
    <3>1. r =< Len(ptindex)
      <4>1. i =< PerPage * Len(ptindex)
        BY <1>1, <2>5 DEF InTable
      <4> QED BY <2>2, <2>4, <4>1
    <3>2. r \in DOMAIN ptindex
      <4> HIDE DEF r
      <4> QED BY <2>2, <2>4, <3>1, IndexIsSeq
    <3>3. Entry(ptindex, i) = page[ptindex[r]][j]
      <4>1. page[ptindex[r]] \in Table
        BY <2>1, <3>2
      <4>2. Entry(ptindex, i) = IF page[ptindex[r]] \in Table THEN page[ptindex[r]][j]
                                                               ELSE PT_LFILE
        BY DEF Entry
      <4> QED BY <4>1, <4>2
    <3> HIDE DEF r, j
    <3>4. page[ptindex[r]][j] = ptable[Row(r, j)]
      BY <2>1, <2>3, <2>4, <3>2
    <3> QED BY <2>3, <2>4, <3>3, <3>4
  <2> QED BY <2>1, <2>5 DEF i
<1>4. Kept'
  BY <1>1, <1>3 DEF Kept, InTable, Entry
<1> QED BY <1>2, <1>4 DEF DInv

LEMMA OpenKeepsD ==
  ASSUME IInv, RInv, DInv, Garbage = {PT_LFILE}, Open
  PROVE  DInv'
<1>1. PICK rest \in [{i \in 1 .. header.npte : ~InTable(i)} -> Garbage] :
         ptable' = [i \in 1 .. header.npte |-> IF InTable(i) THEN Entry(header.ptindex, i)
                                                             ELSE rest[i]]
  BY DEF Open
<1>2. /\ pc = "closed" /\ pc' = "open" /\ dhmodified' = TRUE
      /\ ptindex' = header.ptindex /\ lupte' = header.npte
      /\ header' = header /\ page' = page /\ header.npte \in Nat
  BY DEF Open, disk, IInv, TypeOK
<1> DEFINE idx == header.ptindex
<1>3. \A q \in DOMAIN idx : page[idx[q]] \in Table
  BY <1>2 DEF DInv, Kept
<1>4. ASSUME NEW q \in DOMAIN idx
      PROVE  idx[q] \in DOMAIN ptable' /\ ptable'[idx[q]] = PT_LFILE
  <2>1. idx[q] \in 1 .. header.npte
    BY <1>2, IndexIsSeq DEF DInv, Apart
  <2>2. InTable(idx[q]) => Entry(idx, idx[q]) = PT_LFILE
    BY <1>2 DEF DInv, Kept
  <2>3. ~InTable(idx[q]) => rest[idx[q]] = PT_LFILE
    BY <2>1
  <2> QED BY <1>1, <2>1, <2>2, <2>3
<1>5. TableOwnsItsPages'
  BY <1>2, <1>4 DEF TableOwnsItsPages
<1>6. Counted' /\ Apart' /\ Kept'
  BY <1>2 DEF DInv, Counted, Apart, Kept
<1>7. ASSUME NEW q \in DOMAIN idx, NEW j \in 1 .. PerPage, Row(q, j) =< header.npte
      PROVE  page[idx[q]][j] = ptable'[Row(q, j)]
  <2> DEFINE i == Row(q, j)
  <2>1. /\ q \in Nat \ {0} /\ PerPage \in Nat \ {0} /\ q =< Len(idx) /\ Len(idx) \in Nat
    BY IndexIsSeq
  <2>2. /\ i \in Nat \ {0} /\ (i - 1) \div PerPage + 1 = q /\ ((i - 1) % PerPage) + 1 = j
        /\ \A k \in Nat : q =< k => i =< PerPage * k
    BY <2>1, RowIs DEF Row
  <2>3. InTable(i)
    BY <2>1, <2>2 DEF InTable
  <2>4. i \in 1 .. header.npte
    BY <1>2, <1>7, <2>2
  <2>5. Entry(idx, i) = page[idx[q]][j]
    BY <1>3, <2>2 DEF Entry
  <2> QED BY <1>1, <2>3, <2>4, <2>5
<1>8. Copied'
  BY <1>2, <1>3, <1>7 DEF Copied, Row
<1> QED BY <1>5, <1>6, <1>8 DEF DInv

LEMMA NextDInv ==
  ASSUME IInv, RInv, DInv, Bounded, Garbage = {PT_LFILE}, [Next]_vars
  PROVE  DInv'
<1>1. ASSUME NEW f \in Lfile, LfWrite(f) PROVE DInv'
  <2>1. /\ Ready /\ f \in active /\ UNCHANGED <<pc, ptindex, lupte, active, header>>
        /\ dhmodified \/ ptable' # ptable => dhmodified'
        /\ \A p \in Page : page'[p] = page[p] \/ p \in pagemap'[f]
    BY <1>1, WriteEffect
  <2>2. IInv'
    BY <1>1, LfWriteKeeps
  <2>3. PICK n \in Nat : Extend(f, n)
    BY <1>1, WriteEffect
  <2>4. /\ Len(ptable) =< Len(ptable')
        /\ \A i \in 1 .. Len(ptable) : ptable'[i] = ptable[i]
    <3> DEFINE own == [i \in 1 .. n |-> f]
    <3>1. ptable \in Seq(Owner) /\ f \in Owner /\ ptable' = ptable \o own
      BY <2>3 DEF IInv, TypeOK, Owner, Extend
    <3>2. own \in Seq(Owner) /\ Len(own) = n
      BY <3>1
    <3> HIDE DEF own
    <3>3. /\ Len(ptable \o own) = Len(ptable) + n
          /\ \A i \in 1 .. Len(ptable) + n :
                (ptable \o own)[i] = IF i =< Len(ptable) THEN ptable[i] ELSE own[i - Len(ptable)]
      BY <3>1, <3>2, ConcatProperties
    <3> QED BY <3>1, <3>3
  <2>5. \A p \in Page : page'[p] = page[p] \/ (p \in DOMAIN ptable' => ptable'[p] # PT_LFILE)
    <3>1. pagemap'[f] = PagesOf(f)' /\ f # PT_LFILE
      BY <2>1, <2>2 DEF IInv, MapsAgree, Lfile, PT_LFILE
    <3> QED BY <2>1, <3>1 DEF PagesOf
  <2> QED BY <2>1, <2>2, <2>4, <2>5, CallKeepsD
<1>2. ASSUME NEW f \in Lfile, LfOpen(f) \/ \E del \in BOOLEAN : LfMark(f, del) PROVE DInv'
  <2>1. /\ Ready /\ page' = page /\ UNCHANGED <<pc, ptindex, ptable, lupte, header>>
        /\ dhmodified' = TRUE
    BY <1>2 DEF LfOpen, Activate, LfMark, disk
  <2>2. IInv'
    BY <1>2, LfOpenKeeps, LfMarkKeeps
  <2>3. Len(ptable) =< Len(ptable')
    BY <2>1, IndexIsSeq
  <2> QED BY <2>1, <2>2, <2>3, CallKeepsD
<1>3. CASE RaiseError \/ UNCHANGED vars
  <2>1. UNCHANGED <<pc, ptable, ptindex, lupte, dhmodified, header, page>>
    BY <1>3 DEF RaiseError, vars, core, disk
  <2> QED BY <2>1 DEF DInv, TableOwnsItsPages, Counted, Apart, Copied, Kept, Stale,
                      FirstStale, InTable, Entry
<1>4. ASSUME NEW close \in BOOLEAN, SyncHeader(close) PROVE DInv'
  BY <1>4, SyncHeaderKeepsD
<1>5. CASE SyncTable
  BY <1>5, SyncTableKeepsD
<1>6. CASE Close
  <2>1. CASE errcode
    <3>1. /\ pc = "close" /\ pc' = "open"
          /\ UNCHANGED <<ptable, ptindex, lupte, dhmodified, header, page>>
      BY <1>6, <2>1 DEF Close, disk
    <3> QED BY <3>1 DEF DInv, TableOwnsItsPages, Counted, Apart, Copied, Kept, Stale
  <2>2. CASE ~errcode
    BY <1>6, <2>2, EndKeepsD DEF Close
  <2> QED BY <2>1, <2>2
<1>7. CASE Crash
  <2>1. pc = "open"
    BY <1>7 DEF Crash, Bounded
  <2> QED BY <1>7, <2>1, EndKeepsD DEF Crash
<1>8. CASE Open
  BY <1>8, OpenKeepsD
<1> QED BY <1>1, <1>2, <1>3, <1>4, <1>5, <1>6, <1>7, <1>8 DEF Next

(***************************************************************************)
(* "The PT is stored as lfile zero": no session, however the last one      *)
(* ended, gives a page of the page table to an lfile, so that no write     *)
(* destroys the table.  This takes besides that the memory FM_OPEN reads   *)
(* the table into was zero: the entries of the pages that the sync added   *)
(* last may be on no page of the table (fmio_tail).                        *)
(***************************************************************************)
THEOREM TableIsOwned ==
  ASSUME PtiLen =< PerPage + 1, CrashInSync = FALSE, Garbage = {PT_LFILE}
  PROVE  Spec => []TableOwnsItsPages
<1>1. Bounded
  BY DEF Bounded
<1>2. DInv => TableOwnsItsPages
  BY DEF DInv
<1>3. IInv /\ RInv /\ DInv /\ [Next]_vars => RInv' /\ DInv'
  BY <1>1, NextRInv, NextDInv
<1> QED BY <1>2, <1>3, InitRInv, InitDInv, Invariance, PTL DEF Spec
-----------------------------------------------------------------------------
(***************************************************************************)
(* The l-th page of an lfile.                                              *)
(***************************************************************************)
Rank(s, p) == Cardinality({q \in s : q =< p})

LEMMA RankOrders ==
  ASSUME NEW s \in SUBSET Nat, IsFiniteSet(s)
  PROVE  /\ Cardinality(s) \in Nat
         /\ \A p \in s : Rank(s, p) \in 1 .. Cardinality(s)
         /\ \A p, q \in s : Rank(s, p) = Rank(s, q) => p = q
         /\ \A l \in 1 .. Cardinality(s) : \E p \in s : Rank(s, p) = l
<1> DEFINE below(p) == {q \in s : q =< p}
           n == Cardinality(s)
           rank == [p \in s |-> Rank(s, p)]
<1>1. n \in Nat
  BY FS_CardinalityType
<1>2. ASSUME NEW p \in s PROVE IsFiniteSet(below(p)) /\ Rank(s, p) \in 1 .. n
  <2>1. below(p) \in SUBSET s /\ below(p) # {}
    OBVIOUS
  <2>2. IsFiniteSet(below(p)) /\ Cardinality(below(p)) =< n
    BY <2>1, FS_Subset
  <2>3. Cardinality(below(p)) \in Nat /\ Cardinality(below(p)) # 0
    BY <2>1, <2>2, FS_CardinalityType, FS_EmptySet
  <2> QED BY <1>1, <2>2, <2>3 DEF Rank
<1>3. ASSUME NEW p \in s, NEW q \in s, p < q PROVE Rank(s, p) # Rank(s, q)
  <2>1. p \in Nat /\ q \in Nat /\ \A x \in s : x \in Nat
    OBVIOUS
  <2>2. q \in below(q) /\ q \notin below(p)
    BY <1>3, <2>1
  <2>3. below(p) \in SUBSET below(q)
    <3>1. \A x \in s : x =< p => x =< q
      BY <1>3, <2>1
    <3> QED BY <3>1
  <2> QED BY <1>2, <2>2, <2>3, FS_Subset DEF Rank
<1>4. ASSUME NEW p \in s, NEW q \in s, Rank(s, p) = Rank(s, q) PROVE p = q
  <2>1. p < q \/ q < p \/ p = q
    OBVIOUS
  <2> QED BY <1>3, <1>4, <2>1
<1>5. rank \in Injection(s, 1 .. n)
  BY <1>2, <1>4 DEF Injection, IsInjective
<1>6. rank \in Surjection(s, 1 .. n)
  <2>1. IsFiniteSet(1 .. n) /\ Cardinality(1 .. n) = n
    BY <1>1, FS_Interval
  <2> HIDE DEF rank
  <2> QED BY <1>5, <2>1, FS_Injection
<1>7. \A l \in 1 .. n : \E p \in s : Rank(s, p) = l
  BY <1>6 DEF Surjection
<1> QED BY <1>1, <1>2, <1>4, <1>7

LEMMA NthIs ==
  ASSUME NEW s \in SUBSET Page, NEW l \in Nat
  PROVE  /\ IsFiniteSet(s) /\ Cardinality(s) \in Nat
         /\ l \in 1 .. Cardinality(s) => Nth(s, l) \in s /\ Rank(s, Nth(s, l)) = l
         /\ \A p \in s : Rank(s, p) = l => Nth(s, l) = p
<1>1. IsFiniteSet(s) /\ s \in SUBSET Nat
  <2>1. IsFiniteSet(Page) /\ Page \subseteq Nat
    BY Sizes, FS_Interval DEF Page, MaxPages
  <2> QED BY <2>1, FS_Subset
<1> DEFINE seg == Segment(s, l, l)
<1>2. \A p \in s : p \in seg <=> Rank(s, p) = l
  BY DEF Segment, Rank
<1>3. seg \subseteq s
  BY DEF Segment
<1>4. Nth(s, l) = IF seg = {} THEN 0 ELSE CHOOSE q \in seg : TRUE
  BY DEF Nth
<1> HIDE DEF seg
<1>5. ASSUME NEW p \in s, Rank(s, p) = l PROVE Nth(s, l) = p
  <2>1. p \in seg /\ Nth(s, l) \in seg
    BY <1>2, <1>4, <1>5
  <2>2. Rank(s, Nth(s, l)) = l /\ Nth(s, l) \in s
    BY <1>2, <1>3, <2>1
  <2>3. \A x, y \in s : Rank(s, x) = Rank(s, y) => x = y
    BY <1>1, RankOrders
  <2> QED BY <1>5, <2>2, <2>3
<1>6. ASSUME l \in 1 .. Cardinality(s) PROVE Nth(s, l) \in s /\ Rank(s, Nth(s, l)) = l
  <2>1. PICK p \in s : Rank(s, p) = l
    BY <1>1, <1>6, RankOrders
  <2> QED BY <1>5, <2>1
<1> QED BY <1>1, <1>5, <1>6, RankOrders

LEMMA NthOfPrefix ==
  ASSUME NEW s \in SUBSET Page, NEW n \in Nat, NEW t, t = {p \in s : p =< n},
         NEW l \in 1 .. Cardinality(t)
  PROVE  l =< Cardinality(s) /\ Nth(t, l) = Nth(s, l)
<1>1. t \in SUBSET s /\ t \in SUBSET Page /\ Page \subseteq Nat
  <2>1. \A q : q \in t <=> q \in s /\ q =< n
    OBVIOUS
  <2>2. Page \subseteq Nat
    BY DEF Page
  <2> QED BY <2>1, <2>2
<1>2. IsFiniteSet(s) /\ Cardinality(s) \in Nat /\ IsFiniteSet(t) /\ Cardinality(t) \in Nat
  BY <1>1, NthIs
<1>3. l \in Nat /\ l =< Cardinality(s)
  BY <1>1, <1>2, FS_Subset
<1> DEFINE p == Nth(t, l)
<1>4. p \in t /\ Rank(t, p) = l
  BY <1>1, <1>3, NthIs
<1> HIDE DEF p
<1>5. {q \in t : q =< p} = {q \in s : q =< p}
  <2>1. p \in Nat /\ p =< n /\ \A q \in s : q \in Nat
    BY <1>1, <1>4
  <2>2. \A q \in s : q =< p => q =< n
    BY <2>1
  <2>3. \A q : q \in t <=> q \in s /\ q =< n
    OBVIOUS
  <2> QED BY <2>2, <2>3
<1>6. Rank(s, p) = l
  BY <1>4, <1>5 DEF Rank
<1> QED BY <1>1, <1>3, <1>4, <1>6, NthIs DEF p

LEMMA NthInSegment ==
  ASSUME NEW s \in SUBSET Page, NEW i \in 1 .. Cardinality(s), NEW l \in Int, NEW h \in Int
  PROVE  Nth(s, i) \in s /\ (Nth(s, i) \in Segment(s, l, h) <=> i \in l .. h)
<1>1. i \in Nat
  OBVIOUS
<1>2. Nth(s, i) \in s /\ Rank(s, Nth(s, i)) = i
  BY <1>1, NthIs
<1> QED BY <1>2 DEF Segment, Rank

(***************************************************************************)
(* The contents of an lfile none of whose pages is missing.                *)
(***************************************************************************)
Read(pg, s, n) == [l \in 1 .. n |-> pg[Nth(s, l)]]

LEMMA ReadIs ==
  ASSUME NEW pg, NEW s \in SUBSET Page, NEW n \in Nat, n =< Cardinality(s)
  PROVE  [l \in 1 .. n |-> LET p == Nth(s, l) IN IF p = 0 THEN Hole ELSE pg[p]]
            = Read(pg, s, n)
<1>1. ASSUME NEW l \in 1 .. n PROVE Nth(s, l) # 0
  <2>1. l \in Nat /\ l \in 1 .. Cardinality(s)
    BY NthIs
  <2>2. Nth(s, l) \in Page
    BY <2>1, NthIs
  <2> QED BY <2>2 DEF Page
<1> QED BY <1>1 DEF Read

LEMMA ReadOfPrefix ==
  ASSUME NEW pg, NEW s \in SUBSET Page, NEW m \in Nat, NEW t, t = {p \in s : p =< m},
         NEW n \in Nat, n =< Cardinality(t)
  PROVE  n =< Cardinality(s) /\ Read(pg, t, n) = Read(pg, s, n)
<1>1. t \in SUBSET s /\ t \in SUBSET Page
  OBVIOUS
<1>2. Cardinality(t) =< Cardinality(s) /\ Cardinality(t) \in Nat /\ Cardinality(s) \in Nat
  BY <1>1, NthIs, FS_Subset
<1>3. \A l \in 1 .. n : Nth(t, l) = Nth(s, l)
  <2>1. \A l \in 1 .. n : l \in 1 .. Cardinality(t)
    BY <1>2
  <2> QED BY <2>1, NthOfPrefix
<1> QED BY <1>2, <1>3 DEF Read

(***************************************************************************)
(* What is read after pages l to h have been written over.                 *)
(***************************************************************************)
LEMMA ReadOver ==
  ASSUME NEW pg, NEW new, NEW s \in SUBSET Page, NEW l \in Int, NEW h \in Int,
         \A p \in s \ Segment(s, l, h) : new[p] = pg[p],
         NEW n \in Nat, n =< Cardinality(s), NEW i \in 1 .. n
  PROVE  /\ i \notin l .. h => Read(new, s, n)[i] = pg[Nth(s, i)]
         /\ i \in l .. h => Nth(s, i) \in Segment(s, l, h) /\ Read(new, s, n)[i] = new[Nth(s, i)]
<1>1. i \in 1 .. Cardinality(s)
  BY NthIs
<1>2. Nth(s, i) \in s /\ (Nth(s, i) \in Segment(s, l, h) <=> i \in l .. h)
  BY <1>1, NthInSegment
<1> QED BY <1>2 DEF Read
-----------------------------------------------------------------------------
(***************************************************************************)
(* SInv: the header describes the files of the last sync, none of whose    *)
(* pages is missing.  Only entries of the page table itself may be on no   *)
(* page of the table.                                                      *)
(***************************************************************************)
SavedOwner(i) == IF InTable(i) THEN Entry(header.ptindex, i) ELSE PT_LFILE
SavedPages(f) == {i \in 1 .. header.npte : SavedOwner(i) = f}
Listed(f)     == {i \in 1 .. header.npte : ptable[i] = f}

Filed == pc # "closed" /\ ~dhmodified => header.ftable = ftable

Beyond == pc # "closed" =>
             \A i \in 1 .. header.npte : ~InTable(i) => ptable[i] = PT_LFILE

Sized == \A f \in Lfile :
            IF pc = "closed"
            THEN header.ftable[f].fsize =< Cardinality(SavedPages(f))
            ELSE /\ ftable[f].fsize =< Cardinality(PagesOf(f))
                 /\ header.ftable[f].fsize =< Cardinality(Listed(f))

SInv == Filed /\ Beyond /\ Sized

AllInv == IInv /\ RInv /\ DInv /\ SInv

(***************************************************************************)
(* An lfile with entry e, of the pages s of a datafile.                    *)
(***************************************************************************)
Seen(pg, s, e) == [data |-> Read(pg, s, e.fsize), deleted |-> e.deleted]
-----------------------------------------------------------------------------
LEMMA TableIsSeq ==
  ASSUME IInv
  PROVE  /\ ptable \in Seq(Owner) /\ Len(ptable) \in Nat /\ DOMAIN ptable = 1 .. Len(ptable)
         /\ MaxPages \in Nat /\ Page = 1 .. MaxPages /\ Len(ptable) =< MaxPages
         /\ header.npte \in Nat /\ header.npte =< MaxPages
         /\ \A f \in Lfile : f \in Owner /\ f # PT_LFILE
         /\ \A f \in Lfile : /\ ftable[f] \in [fsize : Nat, deleted : BOOLEAN]
                             /\ header.ftable[f] \in [fsize : Nat, deleted : BOOLEAN]
<1>1. header.npte \in Nat /\ header.npte =< MaxPages
  BY Sizes DEF IInv, HeaderOK
<1>2. \A f \in Lfile : f \in Owner /\ f # PT_LFILE
  BY FmioAssumption DEF Lfile, Owner, PT_LFILE
<1>3. Page = 1 .. MaxPages
  BY DEF Page, MaxPages
<1> QED BY <1>1, <1>2, <1>3, IndexIsSeq, Sizes DEF IInv, TypeOK, HeaderOK, MaxPages

LEMMA PagesArePages ==
  ASSUME IInv, NEW f
  PROVE  /\ PagesOf(f) \in SUBSET Page /\ Listed(f) \in SUBSET Page
         /\ SavedPages(f) \in SUBSET Page
         /\ PagesOf(f) = {i \in 1 .. Len(ptable) : ptable[i] = f}
<1>1. \A i \in 1 .. Len(ptable) : i \in Page
  BY TableIsSeq
<1>2. \A i \in 1 .. header.npte : i \in Page
  BY TableIsSeq
<1> QED BY <1>1, <1>2, TableIsSeq DEF PagesOf, Listed, SavedPages

(***************************************************************************)
(* The table on disk is a part of the table in core, and it is this part   *)
(* that is read when the datafile is opened.                               *)
(***************************************************************************)
LEMMA HeaderInTable ==
  ASSUME IInv, DInv, pc # "closed"
  PROVE  header.npte \in Nat /\ header.npte =< Len(ptable)
<1>1. CASE pc \in {"open", "close"}
  BY <1>1, IndexIsSeq DEF DInv, Counted
<1>2. CASE pc = "table"
  BY <1>2, IndexIsSeq DEF DInv, Counted
<1> QED BY <1>1, <1>2 DEF IInv, TypeOK

LEMMA SavedIsListed ==
  ASSUME AllInv, pc \in {"open", "close"}, NEW f
  PROVE  SavedPages(f) = Listed(f)
<1>1. ASSUME NEW i \in 1 .. header.npte PROVE SavedOwner(i) = ptable[i]
  <2>1. CASE ~InTable(i)
    BY <2>1 DEF SavedOwner, AllInv, SInv, Beyond
  <2>2. CASE InTable(i)
    <3> DEFINE idx == header.ptindex
               r == (i - 1) \div PerPage + 1
               j == ((i - 1) % PerPage) + 1
    <3>1. i \in Nat \ {0} /\ PerPage \in Nat \ {0} /\ Len(idx) \in Nat /\ header.npte = lupte
          /\ lupte \in Nat /\ i =< lupte
      BY IndexIsSeq, TableIsSeq DEF AllInv, DInv, Counted
    <3>2. /\ r \in Nat \ {0} /\ j \in 1 .. PerPage /\ Row(r, j) = i
          /\ \A k \in Nat : i =< PerPage * k => r =< k
      BY <3>1, RowOf DEF Row
    <3>3. r =< Len(idx)
      BY <2>2, <3>1, <3>2 DEF InTable
    <3>4. r \in DOMAIN idx
      <4>1. DOMAIN idx = 1 .. Len(idx)
        BY IndexIsSeq DEF AllInv
      <4> HIDE DEF r, idx
      <4> QED BY <3>1, <3>2, <3>3, <4>1
    <3>5. Entry(idx, i) = IF page[idx[r]] \in Table THEN page[idx[r]][j] ELSE PT_LFILE
      BY DEF Entry
    <3> HIDE DEF r, j
    <3>6. page[idx[r]] \in Table /\ (Row(r, j) =< lupte => page[idx[r]][j] = ptable[Row(r, j)])
      BY <3>2, <3>4 DEF AllInv, DInv, Copied, Stale
    <3> QED BY <2>2, <3>1, <3>2, <3>5, <3>6 DEF SavedOwner
  <2> QED BY <2>1, <2>2
<1> QED BY <1>1 DEF SavedPages, Listed

LEMMA ListedIsPrefix ==
  ASSUME IInv, DInv, pc # "closed", NEW f
  PROVE  Listed(f) = {p \in PagesOf(f) : p =< header.npte}
<1>1. header.npte \in Nat /\ header.npte =< Len(ptable) /\ Len(ptable) \in Nat
  BY HeaderInTable, TableIsSeq
<1>2. \A i \in Nat : i =< header.npte => i =< Len(ptable)
  BY <1>1
<1>3. \A i : i \in 1 .. header.npte <=> i \in 1 .. Len(ptable) /\ i =< header.npte
  BY <1>1, <1>2
<1> QED BY <1>3, PagesArePages DEF Listed
-----------------------------------------------------------------------------
(***************************************************************************)
(* What the program sees, and what a crash would leave (MCFmio).           *)
(***************************************************************************)
Views ==
    /\ pc # "closed" => Now = [f \in Lfile |-> Seen(page, PagesOf(f), ftable[f])]
    /\ pc = "closed" => Now = Safe
    /\ pc = "table"  => Safe = Now
    /\ pc \in {"open", "close"} =>
          Safe = [f \in Lfile |-> Seen(page, Listed(f), header.ftable[f])]
    /\ pc = "closed" =>
          Safe = [f \in Lfile |-> Seen(page, SavedPages(f), header.ftable[f])]

LEMMA ContentsAreRead ==
  ASSUME NEW s \in SUBSET Page, NEW n \in Nat, n =< Cardinality(s)
  PROVE  Contents(s, n) = Read(page, s, n)
BY ReadIs DEF Contents

LEMMA InCoreIs ==
  ASSUME AllInv, pc # "closed"
  PROVE  InCore = [f \in Lfile |-> Seen(page, PagesOf(f), ftable[f])]
<1> DEFINE map == [f \in Owner |-> IF f \in active THEN pagemap[f] ELSE PagesOf(f)]
<1>1. ASSUME NEW f \in Lfile
      PROVE  map[f] = PagesOf(f) /\ Contents(map[f], ftable[f].fsize)
                                      = Read(page, PagesOf(f), ftable[f].fsize)
  <2>1. f \in Owner /\ ftable[f].fsize \in Nat
    BY TableIsSeq DEF AllInv
  <2>2. map[f] = PagesOf(f)
    BY <2>1 DEF AllInv, IInv, MapsAgree
  <2>3. ftable[f].fsize =< Cardinality(PagesOf(f)) /\ PagesOf(f) \in SUBSET Page
    BY PagesArePages DEF AllInv, SInv, Sized
  <2> HIDE DEF map
  <2> QED BY <2>1, <2>2, <2>3, ContentsAreRead
<1>2. InCore = [f \in Lfile |-> [data |-> Contents(map[f], ftable[f].fsize),
                                  deleted |-> ftable[f].deleted]]
  BY DEF InCore, Files
<1> HIDE DEF map
<1> QED BY <1>1, <1>2 DEF Seen

LEMMA OnDiskIs ==
  ASSUME AllInv, pc # "table"
  PROVE  OnDisk = [f \in Lfile |-> Seen(page, SavedPages(f), header.ftable[f])]
<1> DEFINE map == [f \in Owner |->
                     {i \in 1 .. header.npte : (IF InTable(i) THEN Entry(header.ptindex, i)
                                                              ELSE PT_LFILE) = f}]
<1>1. ASSUME NEW f \in Lfile
      PROVE  map[f] = SavedPages(f) /\ Contents(map[f], header.ftable[f].fsize)
                                        = Read(page, SavedPages(f), header.ftable[f].fsize)
  <2>1. f \in Owner /\ header.ftable[f].fsize \in Nat
    BY TableIsSeq DEF AllInv
  <2>2. map[f] = SavedPages(f)
    BY <2>1 DEF SavedPages, SavedOwner
  <2>3. SavedPages(f) \in SUBSET Page /\ (pc # "closed" => SavedPages(f) = Listed(f))
    BY PagesArePages, SavedIsListed DEF AllInv, IInv, TypeOK
  <2>4. header.ftable[f].fsize =< Cardinality(SavedPages(f))
    BY <2>3 DEF AllInv, SInv, Sized
  <2> HIDE DEF map
  <2> QED BY <2>1, <2>2, <2>3, <2>4, ContentsAreRead
<1>2. OnDisk = [f \in Lfile |-> [data |-> Contents(map[f], header.ftable[f].fsize),
                                  deleted |-> header.ftable[f].deleted]]
  BY DEF OnDisk, Files
<1> HIDE DEF map
<1> QED BY <1>1, <1>2 DEF Seen

LEMMA ViewsAre == AllInv => Views
<1> SUFFICES ASSUME AllInv PROVE Views
  OBVIOUS
<1>1. pc \in {"open", "table", "close", "closed"}
  BY DEF AllInv, IInv, TypeOK
<1>2. CASE pc = "closed"
  BY <1>2, OnDiskIs DEF Views, Now, Safe
<1>3. CASE pc = "table"
  BY <1>3, InCoreIs DEF Views, Now, Safe
<1>4. CASE pc \in {"open", "close"}
  <2>1. \A f \in Lfile : SavedPages(f) = Listed(f)
    BY <1>4, SavedIsListed
  <2>2. Now = InCore /\ Safe = OnDisk
    BY <1>4 DEF Now, Safe
  <2>3. OnDisk = [f \in Lfile |-> Seen(page, Listed(f), header.ftable[f])]
    BY <1>4, <2>1, OnDiskIs
  <2> QED BY <1>4, <2>2, <2>3, InCoreIs DEF Views
<1> QED BY <1>1, <1>2, <1>3, <1>4
-----------------------------------------------------------------------------
(***************************************************************************)
(* A write: what it does to the table, the data and the file table.        *)
(***************************************************************************)
LEMMA Grows ==
  ASSUME IInv, NEW f \in Owner, NEW n \in Nat, Extend(f, n)
  PROVE  /\ Len(ptable') = Len(ptable) + n /\ DOMAIN ptable' = 1 .. Len(ptable) + n
         /\ \A i \in 1 .. Len(ptable) : ptable'[i] = ptable[i]
         /\ \A i \in Len(ptable) + 1 .. Len(ptable) + n : ptable'[i] = f
<1> DEFINE own == [i \in 1 .. n |-> f]
<1>1. ptable \in Seq(Owner) /\ Len(ptable) \in Nat /\ ptable' = ptable \o own
  BY TableIsSeq DEF Extend
<1>2. own \in Seq(Owner) /\ Len(own) = n
  OBVIOUS
<1>3. ASSUME NEW i \in Len(ptable) + 1 .. Len(ptable) + n PROVE own[i - Len(ptable)] = f
  <2>1. i - Len(ptable) \in 1 .. n
    BY <1>1
  <2> QED BY <2>1
<1> HIDE DEF own
<1>4. /\ ptable \o own \in Seq(Owner) /\ Len(ptable \o own) = Len(ptable) + n
      /\ \A i \in 1 .. Len(ptable) + n :
            (ptable \o own)[i] = IF i =< Len(ptable) THEN ptable[i] ELSE own[i - Len(ptable)]
  BY <1>1, <1>2, ConcatProperties
<1>5. DOMAIN (ptable \o own) = 1 .. Len(ptable) + n
  BY <1>4
<1>6. \A i \in 1 .. Len(ptable) : i \in 1 .. Len(ptable) + n /\ i =< Len(ptable)
  BY <1>1
<1>7. \A i \in Len(ptable) + 1 .. Len(ptable) + n : i \in 1 .. Len(ptable) + n /\ ~(i =< Len(ptable))
  BY <1>1
<1> QED BY <1>1, <1>3, <1>4, <1>5, <1>6, <1>7

LEMMA PagesGrow ==
  ASSUME IInv, NEW f \in Owner, NEW n \in Nat, Extend(f, n)
  PROVE  /\ \A g \in Owner \ {f} : PagesOf(g)' = PagesOf(g)
         /\ PagesOf(f)' = PagesOf(f) \cup (Len(ptable) + 1 .. Len(ptable) + n)
         /\ Cardinality(PagesOf(f)') = Cardinality(PagesOf(f)) + n
         /\ \A g : PagesOf(g) = {p \in PagesOf(g)' : p =< Len(ptable)}
<1> DEFINE L == Len(ptable)
<1>1. L \in Nat /\ \A i : i \in 1 .. L + n <=> i \in 1 .. L \/ i \in L + 1 .. L + n
  BY TableIsSeq
<1>2. \A g : PagesOf(g) = {i \in 1 .. L : ptable[i] = g}
  BY PagesArePages
<1>3. \A g : PagesOf(g)' = {i \in 1 .. L + n : ptable'[i] = g}
  BY Grows DEF PagesOf
<1>4. \A i \in L + 1 .. L + n : i \notin 1 .. L /\ ~(i =< L)
  BY <1>1
<1>5. \A i \in 1 .. L : i =< L
  BY <1>1
<1>6. /\ \A i \in 1 .. L : ptable'[i] = ptable[i]
      /\ \A i \in L + 1 .. L + n : ptable'[i] = f
  BY Grows
<1> HIDE DEF L
<1>7. \A g \in Owner \ {f} : PagesOf(g)' = PagesOf(g)
  BY <1>1, <1>2, <1>3, <1>6
<1>8. PagesOf(f)' = PagesOf(f) \cup (L + 1 .. L + n)
  BY <1>1, <1>2, <1>3, <1>6
<1>9. \A g : PagesOf(g) = {p \in PagesOf(g)' : p =< L}
  <2>1. ASSUME NEW g, NEW p
        PROVE  p \in PagesOf(g) <=> p \in PagesOf(g)' /\ p =< L
    <3>1. CASE p \in 1 .. L
      BY <1>1, <1>2, <1>3, <1>5, <1>6, <3>1
    <3>2. CASE p \in L + 1 .. L + n
      BY <1>2, <1>4, <3>2
    <3>3. CASE p \notin 1 .. L + n
      BY <1>1, <1>2, <1>3, <3>3
    <3> QED BY <1>1, <3>1, <3>2, <3>3
  <2> QED BY <2>1
<1>10. Cardinality(PagesOf(f)') = Cardinality(PagesOf(f)) + n
  <2> DEFINE old == PagesOf(f)
             new == L + 1 .. L + n
  <2>1. IsFiniteSet(old) /\ Cardinality(old) \in Nat
    <3>1. 1 \in Nat /\ old \in SUBSET Page
      BY PagesArePages
    <3> QED BY <3>1, NthIs
  <2>2. IsFiniteSet(new) /\ Cardinality(new) = n
    BY <1>1, FS_Interval
  <2>3. old \cap new = {}
    BY <1>2, <1>4
  <2> HIDE DEF old, new
  <2>4. Cardinality(old \cup new) = Cardinality(old) + Cardinality(new) - Cardinality(old \cap new)
    BY <2>1, <2>2, FS_Union
  <2>5. Cardinality(old \cap new) = 0
    BY <2>3, FS_EmptySet
  <2>6. Cardinality(old \cup new) = Cardinality(old) + n
    BY <2>1, <2>2, <2>4, <2>5
  <2> QED BY <1>8, <2>6 DEF old, new
<1> QED BY <1>7, <1>8, <1>9, <1>10 DEF L

(***************************************************************************)
(* Pages l to w of lfile f are written, of a transfer that ends with h.    *)
(***************************************************************************)
Sets(f, l, w, h, v) ==
    /\ h =< Cardinality(PagesOf(f)')
    /\ \A p \in Page : page'[p] = IF p \in Segment(PagesOf(f)', l, w) THEN <<f, v>> ELSE page[p]
    /\ \/ w = h /\ ftable' = IF h > ftable[f].fsize THEN [ftable EXCEPT ![f].fsize = h]
                                                    ELSE ftable
       \/ /\ "write" \in Faults /\ w < h
          /\ \/ ftable' = ftable
             \/ h > ftable[f].fsize /\ ftable' = [ftable EXCEPT ![f].fsize = h]

LEMMA WriteSets ==
  ASSUME IInv, NEW f \in Lfile, LfWrite(f)
  PROVE  /\ \E k \in Nat : Extend(f, k)
         /\ ~dhmodified' => ~dhmodified /\ ftable' = ftable
         /\ \/ page' = page /\ ftable' = ftable
            \/ \E l \in 1 .. ftable[f].fsize + 1, n \in 1 .. MaxXfer, v \in Val :
               \E w \in l - 1 .. l + n - 1 : Sets(f, l, w, l + n - 1, v)
<1>1. PICK l \in 1 .. ftable[f].fsize + 1, n \in 1 .. MaxXfer :
         NoRoom(f, l, n) \/ \E v \in Val : Write(f, l, n, v)
  BY DEF LfWrite
<1>2. /\ f \in Owner /\ f \in active /\ l \in Nat /\ n \in Nat /\ n >= 1 /\ l >= 1
      /\ ftable[f].fsize \in Nat
  <2>1. f \in Owner /\ ftable[f].fsize \in Nat
    BY TableIsSeq
  <2> QED BY <1>1, <2>1, FmioAssumption DEF LfWrite
<1>3. /\ pagemap[f] = PagesOf(f) /\ pagemap'[f] = PagesOf(f)'
      /\ Cardinality(PagesOf(f)) \in Nat
  <2>1. MapsAgree' /\ active' = active
    BY LfWriteKeeps DEF IInv, LfWrite
  <2>2. 1 \in Nat /\ PagesOf(f) \in SUBSET Page
    BY PagesArePages
  <2> QED BY <1>2, <2>1, <2>2, NthIs DEF IInv, MapsAgree
<1>4. \E k \in Nat : Extend(f, k)
  BY WriteEffect
<1>5. CASE NoRoom(f, l, n)
  BY <1>4, <1>5 DEF NoRoom
<1>6. ASSUME NEW v \in Val, Write(f, l, n, v)
      PROVE  /\ ~dhmodified' => ~dhmodified /\ ftable' = ftable
             /\ \E w \in l - 1 .. l + n - 1 : Sets(f, l, w, l + n - 1, v)
  <2> DEFINE c == Cardinality(PagesOf(f))
             h == l + n - 1
             need == IF h - c > 0 THEN h - c ELSE 0
  <2>1. h \in Nat /\ need \in Nat /\ h =< c + need /\ l + n - 1 - c = h - c
    BY <1>2, <1>3
  <2>2. Extend(f, need)
    BY <1>3, <1>6, <2>1 DEF Write
  <2> HIDE DEF need
  <2>3. h =< Cardinality(PagesOf(f)')
    BY <1>2, <2>1, <2>2, PagesGrow
  <2>4. CASE Stored(f, l, n, v) /\ Grown(f, h)
    <3>1. \A p \in Page : page'[p] = IF p \in Segment(PagesOf(f)', l, h) THEN <<f, v>> ELSE page[p]
      BY <1>3, <2>4 DEF Stored, Data
    <3>2. Sets(f, l, h, h, v) /\ h \in l - 1 .. l + n - 1
      BY <1>2, <2>1, <2>3, <2>4, <3>1 DEF Sets, Grown
    <3>3. ~dhmodified' => ~dhmodified /\ ftable' = ftable
      BY <2>4 DEF Grown
    <3> QED BY <3>2, <3>3
  <2>5. ASSUME "write" \in Faults, NEW k \in 0 .. n - 1, Stored(f, l, k, v),
               Grown(f, h) \/ Grown(f, 0)
        PROVE  /\ ~dhmodified' => ~dhmodified /\ ftable' = ftable
               /\ \E w \in l - 1 .. l + n - 1 : Sets(f, l, w, l + n - 1, v)
    <3> DEFINE w == l + k - 1
    <3>1. w \in l - 1 .. l + n - 1 /\ w < h /\ ~(0 > ftable[f].fsize)
      BY <1>2
    <3>2. \A p \in Page : page'[p] = IF p \in Segment(PagesOf(f)', l, w) THEN <<f, v>> ELSE page[p]
      BY <1>3, <2>5 DEF Stored, Data
    <3> HIDE DEF w, h
    <3>3. ftable' = ftable \/ (h > ftable[f].fsize /\ ftable' = [ftable EXCEPT ![f].fsize = h])
      BY <2>5, <3>1 DEF Grown
    <3>4. Sets(f, l, w, h, v)
      BY <2>3, <2>5, <3>1, <3>2, <3>3 DEF Sets
    <3>5. ~dhmodified' => ~dhmodified /\ ftable' = ftable
      BY <2>5, <3>1 DEF Grown
    <3> QED BY <3>1, <3>4, <3>5 DEF h
  <2> QED BY <1>6, <2>4, <2>5 DEF Write
<1> QED BY <1>1, <1>4, <1>5, <1>6 DEF NoRoom
-----------------------------------------------------------------------------
(***************************************************************************)
(* SInv is kept.                                                           *)
(***************************************************************************)
LEMMA NptiCovers ==
  ASSUME NEW x \in Nat, x =< MaxPages
  PROVE  x =< PerPage * Npti(x)
<1> DEFINE y == x + PerPage - 1
<1>1. PerPage \in Nat \ {0} /\ y \in Nat
  BY FmioAssumption
<1> HIDE DEF y
<1>2. y \div PerPage \in Nat /\ y % PerPage \in 0 .. PerPage - 1
      /\ y = PerPage * (y \div PerPage) + (y % PerPage)
  BY <1>1, Division
<1>3. Npti(x) = y \div PerPage
  BY DEF Npti, y
<1>4. PerPage * (y \div PerPage) \in Nat
  <2>1. \A a, b \in Nat : a * b \in Nat
    OBVIOUS
  <2> QED BY <1>1, <1>2, <2>1
<1> HIDE DEF Npti
<1>5. x =< PerPage * (y \div PerPage)
  BY <1>1, <1>2, <1>4 DEF y
<1> QED BY <1>3, <1>5

LEMMA InitSInv == Init => SInv
<1> SUFFICES ASSUME Init PROVE SInv
  OBVIOUS
<1>1. /\ pc = "open" /\ ptable = <<>> /\ header.npte = 0 /\ header.ftable = ftable
      /\ \A f \in Lfile : ftable[f].fsize = 0
  BY DEF Init, Blank, Empty
<1>2. \A f : PagesOf(f) = {} /\ Listed(f) = {}
  BY <1>1 DEF PagesOf, Listed
<1> QED BY <1>1, <1>2, FS_EmptySet DEF SInv, Filed, Beyond, Sized

LEMMA LfWriteKeepsS ==
  ASSUME AllInv, NEW f \in Lfile, LfWrite(f)
  PROVE  SInv'
<1>1. PICK k \in Nat : Extend(f, k)
  BY WriteSets DEF AllInv
<1>2. pc = "open" /\ UNCHANGED <<pc, header>> /\ f \in Owner
  BY TableIsSeq DEF LfWrite, Ready, AllInv
<1>3. header.npte \in Nat /\ header.npte =< Len(ptable) /\ Len(ptable) \in Nat
  BY <1>2, HeaderInTable, TableIsSeq DEF AllInv
<1>4. \A i \in 1 .. header.npte : ptable'[i] = ptable[i]
  <2>1. \A i \in 1 .. header.npte : i \in 1 .. Len(ptable)
    BY <1>3
  <2> QED BY <1>1, <1>2, <2>1, Grows DEF AllInv
<1>5. Filed' /\ Beyond'
  BY <1>2, <1>4, WriteSets DEF AllInv, SInv, Filed, Beyond, InTable
<1>6. ASSUME NEW g \in Lfile
      PROVE  /\ ftable'[g].fsize =< Cardinality(PagesOf(g)')
             /\ header.ftable[g].fsize =< Cardinality(Listed(g)')
  <2>1. Listed(g)' = Listed(g)
    BY <1>2, <1>4 DEF Listed
  <2>2. /\ ftable[g].fsize =< Cardinality(PagesOf(g)) /\ ftable[g].fsize \in Nat
        /\ header.ftable[g].fsize =< Cardinality(Listed(g)) /\ g \in Owner
        /\ ftable[g] \in [fsize : Nat, deleted : BOOLEAN] /\ ftable \in [Lfile -> [fsize : Nat, deleted : BOOLEAN]]
    BY <1>2, TableIsSeq DEF AllInv, SInv, Sized, IInv, TypeOK
  <2>3. Cardinality(PagesOf(g)) =< Cardinality(PagesOf(g)') /\ Cardinality(PagesOf(g)) \in Nat
    <3>1. 1 \in Nat /\ PagesOf(g) \in SUBSET Page
      BY PagesArePages DEF AllInv
    <3>2. Cardinality(PagesOf(g)) \in Nat
      BY <3>1, NthIs
    <3>3. CASE g = f
      BY <1>1, <1>2, <3>2, <3>3, PagesGrow DEF AllInv
    <3>4. CASE g # f
      BY <1>1, <1>2, <2>2, <3>2, <3>4, PagesGrow DEF AllInv
    <3> QED BY <3>2, <3>3, <3>4
  <2>4. Cardinality(PagesOf(g)') \in Nat
    <3>1. Cardinality(PagesOf(g)') = Cardinality(PagesOf(g)) + (IF g = f THEN k ELSE 0)
      BY <1>1, <1>2, <2>2, <2>3, PagesGrow DEF AllInv
    <3> QED BY <2>3, <3>1
  <2>5. ftable'[g].fsize = ftable[g].fsize \/ ftable'[g].fsize =< Cardinality(PagesOf(g)')
    <3>1. CASE ftable' = ftable
      BY <3>1
    <3>2. CASE ftable' # ftable
      <4>1. \E h \in Int : /\ ftable' = [ftable EXCEPT ![f].fsize = h]
                           /\ h =< Cardinality(PagesOf(f)')
        <5>1. PICK l \in 1 .. ftable[f].fsize + 1, n \in 1 .. MaxXfer, v \in Val :
                 \E w \in l - 1 .. l + n - 1 : Sets(f, l, w, l + n - 1, v)
          BY <3>2, WriteSets DEF AllInv
        <5>2. l + n - 1 \in Int
          OBVIOUS
        <5> QED BY <3>2, <5>1, <5>2 DEF Sets
      <4>2. PICK h \in Int : /\ ftable' = [ftable EXCEPT ![f].fsize = h]
                             /\ h =< Cardinality(PagesOf(f)')
        BY <4>1
      <4> QED BY <2>2, <4>2
    <3> QED BY <3>1, <3>2
  <2> QED BY <2>1, <2>2, <2>3, <2>4, <2>5
<1> QED BY <1>2, <1>5, <1>6 DEF SInv, Sized
-----------------------------------------------------------------------------
(***************************************************************************)
(* A sync, whose first step is the header.                                 *)
(***************************************************************************)
LEMMA SyncHeaderFiles ==
  ASSUME AllInv, NEW close \in BOOLEAN, SyncHeader(close)
  PROVE  /\ pc = "open" /\ pc' = "table" /\ UNCHANGED <<ftable, page>>
         /\ header'.npte = Len(ptable') /\ header'.ftable = ftable
         /\ \A f \in Lfile : PagesOf(f)' = PagesOf(f) /\ Listed(f)' = PagesOf(f)'
<1>1. /\ pc = "open" /\ pc' = "table" /\ UNCHANGED <<ftable, page>> /\ ~dhmodified'
      /\ Extend(PT_LFILE, Missing)
  BY DEF SyncHeader, Ready
<1>2. header'.npte = Len(ptable')
  <2>1. DInv'
    BY SyncHeaderKeepsD DEF AllInv
  <2> QED BY <1>1, <2>1 DEF DInv, Counted
<1>3. header'.ftable = ftable
  <2>1. CASE dhmodified \/ Missing > 0
    BY <2>1 DEF SyncHeader
  <2>2. CASE ~(dhmodified \/ Missing > 0)
    BY <1>1, <2>2 DEF SyncHeader, AllInv, SInv, Filed
  <2> QED BY <2>1, <2>2
<1>4. Missing \in Nat /\ PT_LFILE \in Owner
  BY SyncAdds DEF AllInv, Owner
<1>5. ASSUME NEW f \in Lfile PROVE PagesOf(f)' = PagesOf(f) /\ Listed(f)' = PagesOf(f)'
  <2>1. f \in Owner \ {PT_LFILE}
    BY TableIsSeq DEF AllInv
  <2>2. PagesOf(f)' = PagesOf(f)
    BY <1>1, <1>4, <2>1, PagesGrow DEF AllInv
  <2>3. DOMAIN ptable' = 1 .. Len(ptable')
    BY <1>1, <1>4, Grows DEF AllInv
  <2>4. Listed(f)' = PagesOf(f)'
    BY <1>2, <2>3 DEF Listed, PagesOf
  <2> QED BY <2>2, <2>4
<1> QED BY <1>1, <1>2, <1>3, <1>5

LEMMA SyncHeaderKeepsS ==
  ASSUME AllInv, NEW close \in BOOLEAN, SyncHeader(close)
  PROVE  SInv'
<1>1. /\ pc = "open" /\ pc' = "table" /\ ftable' = ftable
      /\ header'.npte = Len(ptable') /\ header'.ftable = ftable
      /\ \A f \in Lfile : PagesOf(f)' = PagesOf(f) /\ Listed(f)' = PagesOf(f)'
  BY SyncHeaderFiles
<1>2. Filed' /\ Sized'
  BY <1>1 DEF AllInv, SInv, Filed, Sized
<1>3. Beyond'
  <2> DEFINE L == Len(ptable)
             I == Len(ptindex)
             N == Npti(L)
  <2>1. /\ L \in Nat /\ L =< MaxPages /\ I \in Nat /\ Missing \in Nat /\ PerPage \in Nat
        /\ Len(ptindex') = I + Missing /\ Len(ptable') = L + Missing
        /\ \A i \in L + 1 .. L + Missing : ptable'[i] = PT_LFILE
    BY TableIsSeq, IndexIsSeq, SyncAdds DEF AllInv
  <2>2. N \in Nat /\ L =< PerPage * N
    BY <2>1, NptiCovers, PtiIsShort
  <2>3. Missing = IF N > I THEN N - I ELSE 0
    BY DEF Missing
  <2>4. header'.ptindex = ptindex'
    BY HeaderIs DEF AllInv, RInv
  <2> HIDE DEF L, I, N
  <2>5. L =< PerPage * (I + Missing)
    <3> DEFINE d == I + Missing - N
    <3>1. d \in Nat /\ I + Missing = N + d
      BY <2>1, <2>2, <2>3
    <3> HIDE DEF d
    <3>2. PerPage * (N + d) = PerPage * N + PerPage * d /\ PerPage * d >= 0 /\ PerPage * N \in Nat
      <4>1. \A a, b, c \in Nat : a * (b + c) = a * b + a * c /\ a * c >= 0 /\ a * b \in Nat
        OBVIOUS
      <4> QED BY <2>1, <2>2, <3>1, <4>1
    <3>3. PerPage * d \in Int
      BY <2>1, <3>1
    <3> QED BY <2>1, <2>2, <3>1, <3>2, <3>3
  <2>6. ASSUME NEW i \in 1 .. L + Missing, ~(i =< PerPage * (I + Missing))
        PROVE  ptable'[i] = PT_LFILE
    <3>1. PerPage * (I + Missing) \in Nat
      <4>1. \A a, b \in Nat : a * b \in Nat
        OBVIOUS
      <4>2. I + Missing \in Nat
        BY <2>1
      <4> QED BY <2>1, <4>1, <4>2
    <3>2. i \in L + 1 .. L + Missing
      BY <2>1, <2>5, <2>6, <3>1
    <3> QED BY <2>1, <3>2
  <2> QED BY <1>1, <2>1, <2>4, <2>6 DEF Beyond, InTable
<1> QED BY <1>2, <1>3 DEF SInv

LEMMA EndSaved ==
  ASSUME AllInv, pc \in {"open", "close"}, pc' = "closed", UNCHANGED disk, NEW f \in Lfile
  PROVE  SavedPages(f)' = Listed(f)
<1>1. SavedPages(f)' = SavedPages(f)
  BY DEF disk, SavedPages, SavedOwner, InTable, Entry
<1> QED BY <1>1, SavedIsListed

LEMMA EndKeepsS ==
  ASSUME AllInv, pc \in {"open", "close"}, pc' = "closed", UNCHANGED disk
  PROVE  SInv'
<1>1. \A f \in Lfile : SavedPages(f)' = Listed(f)
  BY EndSaved
<1> QED BY <1>1 DEF disk, AllInv, SInv, Filed, Beyond, Sized

LEMMA OpenIs ==
  ASSUME AllInv, Garbage = {PT_LFILE}, Open
  PROVE  /\ pc = "closed" /\ pc' = "open" /\ dhmodified' = TRUE
         /\ ftable' = header.ftable /\ UNCHANGED <<header, page>>
         /\ \A i \in 1 .. header.npte : ~InTable(i) => ptable'[i] = PT_LFILE
         /\ \A f \in Lfile : PagesOf(f)' = SavedPages(f) /\ Listed(f)' = SavedPages(f)
<1>1. PICK rest \in [{i \in 1 .. header.npte : ~InTable(i)} -> Garbage] :
         ptable' = [i \in 1 .. header.npte |-> IF InTable(i) THEN Entry(header.ptindex, i)
                                                             ELSE rest[i]]
  BY DEF Open
<1>2. /\ pc = "closed" /\ pc' = "open" /\ dhmodified' = TRUE
      /\ ftable' = header.ftable /\ header' = header /\ page' = page
  BY DEF Open, disk
<1>3. \A i \in 1 .. header.npte : ptable'[i] = SavedOwner(i)
  BY <1>1 DEF SavedOwner
<1>4. \A i \in 1 .. header.npte : ~InTable(i) => ptable'[i] = PT_LFILE
  BY <1>3 DEF SavedOwner
<1>5. DOMAIN ptable' = 1 .. header.npte
  BY <1>1
<1>6. \A f \in Lfile : PagesOf(f)' = SavedPages(f) /\ Listed(f)' = SavedPages(f)
  BY <1>2, <1>3, <1>5 DEF PagesOf, Listed, SavedPages
<1> QED BY <1>2, <1>4, <1>6

LEMMA OpenKeepsS ==
  ASSUME AllInv, Garbage = {PT_LFILE}, Open
  PROVE  SInv'
BY OpenIs DEF AllInv, SInv, Filed, Beyond, Sized, InTable

LEMMA LfOpenSees ==
  ASSUME AllInv, NEW f \in Lfile, LfOpen(f)
  PROVE  /\ pc = "open" /\ UNCHANGED <<pc, ptable, header, page>> /\ dhmodified' = TRUE
         /\ ftable' = [ftable EXCEPT ![f] = Empty] \/ ftable' = ftable
<1>1. PICK new \in BOOLEAN : ftable' = [ftable EXCEPT ![f] = Opened(f, new)]
  BY DEF LfOpen
<1>2. ftable \in [Lfile -> [fsize : Nat, deleted : BOOLEAN]]
  BY DEF AllInv, IInv, TypeOK
<1>3. Opened(f, new) = Empty \/ Opened(f, new) = ftable[f]
  BY DEF Opened
<1>4. ftable' = [ftable EXCEPT ![f] = Empty] \/ ftable' = ftable
  BY <1>1, <1>2, <1>3
<1> QED BY <1>4 DEF LfOpen, Activate, Ready, disk

LEMMA NextSInv ==
  ASSUME AllInv, Bounded, Garbage = {PT_LFILE}, [Next]_vars
  PROVE  SInv'
<1>1. ASSUME NEW f \in Lfile, LfWrite(f) PROVE SInv'
  BY <1>1, LfWriteKeepsS
<1>2. ASSUME NEW f \in Lfile, LfOpen(f) \/ \E del \in BOOLEAN : LfMark(f, del) PROVE SInv'
  <2>1. pc # "closed" /\ UNCHANGED <<pc, ptable, header>> /\ dhmodified' = TRUE
    BY <1>2, LfOpenSees DEF LfMark, Ready, disk
  <2>2. \A g \in Lfile : ftable'[g].fsize = ftable[g].fsize \/ ftable'[g].fsize = 0
    <3>1. ftable \in [Lfile -> [fsize : Nat, deleted : BOOLEAN]]
      BY DEF AllInv, IInv, TypeOK
    <3>2. CASE LfOpen(f)
      <4>1. CASE ftable' = ftable
        BY <4>1
      <4>2. CASE ftable' = [ftable EXCEPT ![f] = Empty]
        BY <3>1, <4>2 DEF Empty
      <4> QED BY <3>2, <4>1, <4>2, LfOpenSees
    <3>3. CASE \E del \in BOOLEAN : LfMark(f, del)
      BY <3>1, <3>3 DEF LfMark
    <3> QED BY <1>2, <3>2, <3>3
  <2>3. \A g \in Lfile : Cardinality(PagesOf(g)) >= 0
    <3> SUFFICES ASSUME NEW g \in Lfile PROVE Cardinality(PagesOf(g)) >= 0
      OBVIOUS
    <3>1. 1 \in Nat /\ PagesOf(g) \in SUBSET Page
      BY PagesArePages DEF AllInv
    <3>2. Cardinality(PagesOf(g)) \in Nat
      BY <3>1, NthIs
    <3> QED BY <3>2
  <2>4. Filed' /\ Beyond'
    BY <2>1 DEF AllInv, SInv, Filed, Beyond, InTable
  <2>5. Sized'
    <3>1. \A g \in Lfile : PagesOf(g)' = PagesOf(g) /\ Listed(g)' = Listed(g)
      BY <2>1 DEF PagesOf, Listed
    <3> QED BY <2>1, <2>2, <2>3, <3>1 DEF AllInv, SInv, Sized
  <2> QED BY <2>4, <2>5 DEF SInv
<1>3. CASE \/ RaiseError \/ SyncTable \/ UNCHANGED vars
           \/ Close /\ errcode
  <2>1. /\ pc # "closed" => pc' # "closed"
        /\ pc = "closed" => pc' = "closed" /\ page' = page
        /\ UNCHANGED <<ptable, ftable, dhmodified, header>>
    BY <1>3 DEF RaiseError, SyncTable, Close, Ready, vars, core, disk
  <2>2. \A g \in Lfile : PagesOf(g)' = PagesOf(g) /\ Listed(g)' = Listed(g)
    BY <2>1 DEF PagesOf, Listed
  <2>3. pc = "closed" => \A g \in Lfile : SavedPages(g)' = SavedPages(g)
    BY <2>1 DEF SavedPages, SavedOwner, InTable, Entry
  <2> QED BY <2>1, <2>2, <2>3 DEF AllInv, SInv, Filed, Beyond, Sized, InTable
<1>4. ASSUME NEW close \in BOOLEAN, SyncHeader(close) PROVE SInv'
  BY <1>4, SyncHeaderKeepsS
<1>5. CASE Close /\ ~errcode
  BY <1>5, EndKeepsS DEF Close
<1>6. CASE Crash
  BY <1>6, EndKeepsS DEF Crash, Bounded
<1>7. CASE Open
  BY <1>7, OpenKeepsS
<1> QED BY <1>1, <1>2, <1>3, <1>4, <1>5, <1>6, <1>7 DEF Next
-----------------------------------------------------------------------------
(***************************************************************************)
(* The steps of LightFiles.                                                *)
(***************************************************************************)
LEMMA ViewsNext == ASSUME AllInv' PROVE Views'
<1>1. (AllInv => Views)'
  BY ViewsAre, PTL
<1> QED BY <1>1

LEMMA StoreChange ==
  ASSUME NEW f \in Lfile,
         \A g \in Lfile \ {f} : Now'[g] = Now[g] /\ Safe'[g] = Safe[g],
         Store!Becomes(f, Now[f], Now'[f], Safe[f], Safe'[f])
  PROVE  Store!Next
BY DEF Store!Next, Store!Change

LEMMA LfOpenMaps ==
  ASSUME AllInv, AllInv', NEW f \in Lfile, LfOpen(f)
  PROVE  Store!Next
<1>1. /\ pc = "open" /\ UNCHANGED <<pc, ptable, header, page>>
      /\ ftable' = [ftable EXCEPT ![f] = Empty] \/ ftable' = ftable
  BY LfOpenSees
<1>2. Views /\ Views'
  BY ViewsAre, ViewsNext
<1>3. \A g : PagesOf(g)' = PagesOf(g) /\ Listed(g)' = Listed(g)
  BY <1>1 DEF PagesOf, Listed
<1>4. /\ Now = [g \in Lfile |-> Seen(page, PagesOf(g), ftable[g])]
      /\ Now' = [g \in Lfile |-> Seen(page, PagesOf(g), ftable'[g])]
      /\ Safe' = Safe
  BY <1>1, <1>2, <1>3 DEF Views
<1>5. ftable \in [Lfile -> [fsize : Nat, deleted : BOOLEAN]]
  BY DEF AllInv, IInv, TypeOK
<1>6. \A g \in Lfile \ {f} : Now'[g] = Now[g] /\ Safe'[g] = Safe[g]
  BY <1>1, <1>4, <1>5
<1>7. CASE ftable' = ftable
  <2>1. Now'[f] = [Now[f] EXCEPT !.deleted = ftable[f].deleted] /\ ftable[f].deleted \in BOOLEAN
    BY <1>4, <1>5, <1>7 DEF Seen
  <2>2. Store!Becomes(f, Now[f], Now'[f], Safe[f], Safe'[f])
    BY <1>4, <2>1 DEF Store!Becomes, Store!Marked
  <2> QED BY <1>6, <2>2, StoreChange
<1>8. CASE ftable' = [ftable EXCEPT ![f] = Empty]
  <2>1. Now'[f] = Seen(page, PagesOf(f), Empty)
    BY <1>4, <1>5, <1>8
  <2>2. Read(page, PagesOf(f), 0) = <<>>
    BY DEF Read
  <2>3. Now'[f] = Store!Fresh
    BY <2>1, <2>2 DEF Seen, Empty, Store!Fresh
  <2>4. Store!Becomes(f, Now[f], Now'[f], Safe[f], Safe'[f])
    BY <1>4, <2>3 DEF Store!Becomes, Store!Reused
  <2> QED BY <1>6, <2>4, StoreChange
<1> QED BY <1>1, <1>7, <1>8

LEMMA LfMarkMaps ==
  ASSUME AllInv, AllInv', NEW f \in Lfile, NEW del \in BOOLEAN, LfMark(f, del)
  PROVE  Store!Next
<1>1. /\ pc = "open" /\ UNCHANGED <<pc, ptable, header, page>>
      /\ ftable' = [ftable EXCEPT ![f].deleted = del]
  BY DEF LfMark, Ready, disk
<1>2. Views /\ Views'
  BY ViewsAre, ViewsNext
<1>3. \A g : PagesOf(g)' = PagesOf(g) /\ Listed(g)' = Listed(g)
  BY <1>1 DEF PagesOf, Listed
<1>4. /\ Now = [g \in Lfile |-> Seen(page, PagesOf(g), ftable[g])]
      /\ Now' = [g \in Lfile |-> Seen(page, PagesOf(g), ftable'[g])]
      /\ Safe' = Safe
  BY <1>1, <1>2, <1>3 DEF Views
<1>5. ftable \in [Lfile -> [fsize : Nat, deleted : BOOLEAN]]
  BY DEF AllInv, IInv, TypeOK
<1>6. \A g \in Lfile \ {f} : Now'[g] = Now[g] /\ Safe'[g] = Safe[g]
  BY <1>1, <1>4, <1>5
<1>7. Now'[f] = [Now[f] EXCEPT !.deleted = del]
  <2>1. ftable'[f].fsize = ftable[f].fsize /\ ftable'[f].deleted = del
    BY <1>1, <1>5
  <2> QED BY <1>4, <2>1 DEF Seen
<1>8. Store!Becomes(f, Now[f], Now'[f], Safe[f], Safe'[f])
  BY <1>4, <1>7 DEF Store!Becomes, Store!Marked
<1> QED BY <1>6, <1>8, StoreChange

LEMMA SyncHeaderMaps ==
  ASSUME AllInv, AllInv', NEW close \in BOOLEAN, SyncHeader(close)
  PROVE  Store!Next
<1>1. /\ pc = "open" /\ pc' = "table" /\ UNCHANGED <<ftable, page>>
      /\ \A f \in Lfile : PagesOf(f)' = PagesOf(f)
  BY SyncHeaderFiles
<1>2. Views /\ Views'
  BY ViewsAre, ViewsNext
<1>3. Now' = Now /\ Safe' = Now
  BY <1>1, <1>2 DEF Views
<1> QED BY <1>3 DEF Store!Next, Store!Save

(***************************************************************************)
(* The page table is written over pages of the table only.                 *)
(***************************************************************************)
LEMMA SyncTableSpares ==
  ASSUME AllInv, SyncTable, NEW f \in Lfile, NEW p \in PagesOf(f)
  PROVE  page'[p] = page[p]
<1>1. p \in Page /\ ptable[p] = f /\ f # PT_LFILE
  BY PagesArePages, TableIsSeq DEF AllInv
<1>2. \A q \in DOMAIN ptindex : ptindex[q] # p
  BY <1>1 DEF AllInv, DInv, TableOwnsItsPages
<1>3. \A q \in FirstStale .. Len(ptindex) : q \in DOMAIN ptindex
  BY FirstIsIndex, IndexIsSeq DEF AllInv
<1> QED BY <1>1, <1>2, <1>3, TableWritten DEF AllInv

LEMMA ReadSame ==
  ASSUME NEW pg, NEW new, NEW s \in SUBSET Page, NEW n \in Nat, n =< Cardinality(s),
         \A p \in s : new[p] = pg[p]
  PROVE  Read(new, s, n) = Read(pg, s, n)
<1>1. \A i \in 1 .. n : Nth(s, i) \in s
  <2> SUFFICES ASSUME NEW i \in 1 .. n PROVE Nth(s, i) \in s
    OBVIOUS
  <2>1. i \in Nat /\ i \in 1 .. Cardinality(s)
    BY NthIs
  <2> QED BY <2>1, NthIs
<1> QED BY <1>1 DEF Read

LEMMA SyncTableMaps ==
  ASSUME AllInv, AllInv', SyncTable
  PROVE  UNCHANGED <<Now, Safe>>
<1>1. /\ pc = "table" /\ pc' \in {"open", "close"} /\ UNCHANGED <<ptable, ftable, header>>
      /\ header.npte = Len(ptable) /\ header.ftable = ftable
  BY DEF SyncTable, AllInv, DInv, Counted, SInv, Filed
<1>2. Views /\ Views'
  BY ViewsAre, ViewsNext
<1>3. \A f : PagesOf(f)' = PagesOf(f) /\ Listed(f)' = PagesOf(f)
  BY <1>1, PagesArePages DEF AllInv, PagesOf, Listed
<1>4. ASSUME NEW f \in Lfile
      PROVE  Seen(page', PagesOf(f), ftable[f]) = Seen(page, PagesOf(f), ftable[f])
  <2>1. /\ ftable[f].fsize \in Nat /\ ftable[f].fsize =< Cardinality(PagesOf(f))
        /\ PagesOf(f) \in SUBSET Page
    BY <1>1, TableIsSeq, PagesArePages DEF AllInv, SInv, Sized
  <2>2. \A p \in PagesOf(f) : page'[p] = page[p]
    BY SyncTableSpares
  <2> DEFINE s == PagesOf(f)
             n == ftable[f].fsize
  <2> HIDE DEF s, n
  <2>3. Read(page', s, n) = Read(page, s, n)
    BY <2>1, <2>2, ReadSame DEF s, n
  <2> QED BY <2>3 DEF Seen, s, n
<1>5. /\ Now = [f \in Lfile |-> Seen(page, PagesOf(f), ftable[f])]
      /\ Safe = Now
      /\ Now' = [f \in Lfile |-> Seen(page', PagesOf(f), ftable[f])]
      /\ Safe' = [f \in Lfile |-> Seen(page', PagesOf(f), ftable[f])]
  BY <1>1, <1>2, <1>3 DEF Views
<1> QED BY <1>4, <1>5

LEMMA EndMaps ==
  ASSUME AllInv, AllInv', pc \in {"open", "close"}, pc' = "closed", UNCHANGED disk
  PROVE  Store!Next
<1>1. Views /\ Views'
  BY ViewsAre, ViewsNext
<1>2. \A f \in Lfile : SavedPages(f)' = Listed(f)
  BY EndSaved
<1>3. Now' = Safe /\ Safe' = Safe
  BY <1>1, <1>2 DEF Views, disk
<1> QED BY <1>3 DEF Store!Next, Store!Crash

LEMMA OpenMaps ==
  ASSUME AllInv, AllInv', Garbage = {PT_LFILE}, Open
  PROVE  UNCHANGED <<Now, Safe>>
<1>1. Views /\ Views'
  BY ViewsAre, ViewsNext
<1> QED BY <1>1, OpenIs DEF Views

LEMMA IdleMaps ==
  ASSUME AllInv, AllInv', RaiseError \/ (Close /\ errcode) \/ UNCHANGED vars
  PROVE  UNCHANGED <<Now, Safe>>
<1>1. /\ UNCHANGED <<ptable, ftable, header, page>>
      /\ pc' = pc \/ (pc \in {"open", "close"} /\ pc' \in {"open", "close"})
  BY DEF RaiseError, Close, vars, core, disk
<1>2. Views /\ Views'
  BY ViewsAre, ViewsNext
<1>3. \A f : /\ PagesOf(f)' = PagesOf(f) /\ Listed(f)' = Listed(f)
             /\ SavedPages(f)' = SavedPages(f)
  BY <1>1 DEF PagesOf, Listed, SavedPages, SavedOwner, InTable, Entry
<1>4. pc \in {"open", "table", "close", "closed"}
  BY DEF AllInv, IInv, TypeOK
<1> QED BY <1>1, <1>2, <1>3, <1>4 DEF Views
-----------------------------------------------------------------------------
(***************************************************************************)
(* A write.  The pages of the lfile before it, and those that are saved,   *)
(* are the first of those it has after it.                                 *)
(***************************************************************************)
LEMMA WriteSees ==
  ASSUME AllInv, AllInv', NEW f \in Lfile, LfWrite(f)
  PROVE  \E s \in SUBSET Page :
            /\ s = PagesOf(f)'
            /\ Now[f] = Seen(page, s, ftable[f]) /\ Now'[f] = Seen(page', s, ftable'[f])
            /\ Safe[f] = Seen(page, s, header.ftable[f])
            /\ Safe'[f] = Seen(page', s, header.ftable[f])
            /\ \A e \in {ftable[f], ftable'[f], header.ftable[f]} :
                  e \in [fsize : Nat, deleted : BOOLEAN] /\ e.fsize =< Cardinality(s)
<1> DEFINE s == PagesOf(f)'
<1>1. PICK k \in Nat : Extend(f, k)
  BY WriteSets DEF AllInv
<1>2. pc = "open" /\ UNCHANGED <<pc, header>> /\ f \in Owner
  BY TableIsSeq DEF LfWrite, Ready, AllInv
<1>3. header.npte \in Nat /\ header.npte =< Len(ptable) /\ Len(ptable) \in Nat
  BY <1>2, HeaderInTable, TableIsSeq DEF AllInv
<1>4. s \in SUBSET Page
  <2>1. pagemap'[f] = s /\ pagemap' \in [Owner -> SUBSET Page]
    BY <1>2 DEF AllInv, IInv, MapsAgree, TypeOK, LfWrite
  <2> QED BY <1>2, <2>1
<1>5. PagesOf(f) = {p \in s : p =< Len(ptable)}
  BY <1>1, <1>2, PagesGrow DEF AllInv
<1>6. /\ Listed(f) = {p \in s : p =< header.npte}
      /\ Listed(f)' = Listed(f)
  <2>1. Listed(f) = {p \in PagesOf(f) : p =< header.npte}
    BY <1>2, ListedIsPrefix DEF AllInv
  <2>2. \A p \in s : p =< header.npte => p =< Len(ptable)
    <3>1. \A p \in s : p \in Nat
      BY <1>4 DEF Page
    <3> QED BY <1>3, <3>1
  <2>3. Listed(f) = {p \in s : p =< header.npte}
    <3> HIDE DEF s
    <3> QED BY <1>5, <2>1, <2>2
  <2>4. Listed(f)' = Listed(f)
    <3>1. \A i \in 1 .. header.npte : i \in 1 .. Len(ptable)
      BY <1>3
    <3>2. \A i \in 1 .. header.npte : ptable'[i] = ptable[i]
      BY <1>1, <1>2, <3>1, Grows DEF AllInv
    <3> QED BY <1>2, <3>2 DEF Listed
  <2> QED BY <2>3, <2>4
<1>7. /\ ftable[f] \in [fsize : Nat, deleted : BOOLEAN]
      /\ ftable'[f] \in [fsize : Nat, deleted : BOOLEAN]
      /\ header.ftable[f] \in [fsize : Nat, deleted : BOOLEAN]
      /\ ftable[f].fsize =< Cardinality(PagesOf(f)) /\ ftable'[f].fsize =< Cardinality(s)
      /\ header.ftable[f].fsize =< Cardinality(Listed(f))
  BY <1>2 DEF AllInv, IInv, TypeOK, HeaderOK, SInv, Sized
<1>8. Views /\ Views'
  BY ViewsAre, ViewsNext
<1>9. /\ Now[f] = Seen(page, PagesOf(f), ftable[f]) /\ Now'[f] = Seen(page', s, ftable'[f])
      /\ Safe[f] = Seen(page, Listed(f), header.ftable[f])
      /\ Safe'[f] = Seen(page', Listed(f), header.ftable[f])
  BY <1>2, <1>6, <1>8 DEF Views
<1> HIDE DEF s
<1>10. /\ ftable[f].fsize =< Cardinality(s)
       /\ Read(page, PagesOf(f), ftable[f].fsize) = Read(page, s, ftable[f].fsize)
  <2> DEFINE t == PagesOf(f)
             m == Len(ptable)
             n == ftable[f].fsize
  <2>1. m \in Nat /\ t = {p \in s : p =< m} /\ n \in Nat /\ n =< Cardinality(t)
    BY <1>3, <1>5, <1>7
  <2> HIDE DEF t, m, n
  <2>2. n =< Cardinality(s) /\ Read(page, t, n) = Read(page, s, n)
    BY <1>4, <2>1, ReadOfPrefix
  <2> QED BY <2>2 DEF t, n
<1>11. /\ header.ftable[f].fsize =< Cardinality(s)
       /\ Read(page, Listed(f), header.ftable[f].fsize) = Read(page, s, header.ftable[f].fsize)
       /\ Read(page', Listed(f), header.ftable[f].fsize) = Read(page', s, header.ftable[f].fsize)
  <2> DEFINE t == Listed(f)
             m == header.npte
             n == header.ftable[f].fsize
  <2>1. m \in Nat /\ t = {p \in s : p =< m} /\ n \in Nat /\ n =< Cardinality(t)
    BY <1>3, <1>6, <1>7
  <2> HIDE DEF t, m, n
  <2>2. n =< Cardinality(s) /\ Read(page, t, n) = Read(page, s, n)
        /\ Read(page', t, n) = Read(page', s, n)
    BY <1>4, <2>1, ReadOfPrefix
  <2> QED BY <2>2 DEF t, n
<1>12. /\ Now[f] = Seen(page, s, ftable[f]) /\ Now'[f] = Seen(page', s, ftable'[f])
       /\ Safe[f] = Seen(page, s, header.ftable[f])
       /\ Safe'[f] = Seen(page', s, header.ftable[f])
  BY <1>9, <1>10, <1>11 DEF Seen
<1>13. \A e \in {ftable[f], ftable'[f], header.ftable[f]} :
          e \in [fsize : Nat, deleted : BOOLEAN] /\ e.fsize =< Cardinality(s)
  BY <1>7, <1>10, <1>11
<1> QED BY <1>4, <1>12, <1>13 DEF s

LEMMA WriteSpares ==
  ASSUME AllInv, AllInv', NEW f \in Lfile, LfWrite(f), NEW g \in Lfile \ {f}
  PROVE  Now'[g] = Now[g] /\ Safe'[g] = Safe[g]
<1>1. PICK k \in Nat : Extend(f, k)
  BY WriteSets DEF AllInv
<1>2. pc = "open" /\ UNCHANGED <<pc, header>> /\ f \in Owner /\ g \in Owner \ {f}
  BY TableIsSeq DEF LfWrite, Ready, AllInv
<1>3. header.npte \in Nat /\ header.npte =< Len(ptable) /\ Len(ptable) \in Nat
  BY <1>2, HeaderInTable, TableIsSeq DEF AllInv
<1>4. PagesOf(g)' = PagesOf(g)
  BY <1>1, <1>2, PagesGrow DEF AllInv
<1>5. Listed(g)' = Listed(g) /\ Listed(g) \subseteq PagesOf(g)
  <2>1. \A i \in 1 .. header.npte : i \in 1 .. Len(ptable)
    BY <1>3
  <2>2. \A i \in 1 .. header.npte : ptable'[i] = ptable[i]
    BY <1>1, <1>2, <2>1, Grows DEF AllInv
  <2>3. Listed(g) \subseteq PagesOf(g)
    BY <2>1, PagesArePages DEF AllInv, Listed
  <2> QED BY <1>2, <2>2, <2>3 DEF Listed
<1>6. \A p \in PagesOf(g) : page'[p] = page[p]
  <2> SUFFICES ASSUME NEW p \in PagesOf(g) PROVE page'[p] = page[p]
    OBVIOUS
  <2>1. p \in Page
    BY PagesArePages DEF AllInv
  <2>2. p \in PagesOf(f)' => ptable'[p] = f
    BY DEF PagesOf
  <2>3. p \in PagesOf(g)' => ptable'[p] = g
    BY DEF PagesOf
  <2>4. pagemap'[f] = PagesOf(f)'
    BY DEF AllInv, IInv, MapsAgree, LfWrite
  <2> QED BY <1>4, <2>1, <2>2, <2>3, <2>4, WriteEffect DEF AllInv
<1>7. ftable'[g] = ftable[g]
  <2>1. ftable \in [Lfile -> [fsize : Nat, deleted : BOOLEAN]]
    BY DEF AllInv, IInv, TypeOK
  <2> QED BY <2>1, WriteSets DEF AllInv, Sets
<1>8. Views /\ Views'
  BY ViewsAre, ViewsNext
<1>9. /\ Now[g] = Seen(page, PagesOf(g), ftable[g]) /\ Now'[g] = Seen(page', PagesOf(g), ftable[g])
      /\ Safe[g] = Seen(page, Listed(g), header.ftable[g])
      /\ Safe'[g] = Seen(page', Listed(g), header.ftable[g])
  BY <1>2, <1>4, <1>5, <1>7, <1>8 DEF Views
<1>10. /\ ftable[g].fsize \in Nat /\ ftable[g].fsize =< Cardinality(PagesOf(g))
       /\ header.ftable[g].fsize \in Nat /\ header.ftable[g].fsize =< Cardinality(Listed(g))
       /\ PagesOf(g) \in SUBSET Page /\ Listed(g) \in SUBSET Page
  BY <1>2, TableIsSeq, PagesArePages DEF AllInv, SInv, Sized
<1>11. Read(page', PagesOf(g), ftable[g].fsize) = Read(page, PagesOf(g), ftable[g].fsize)
  BY <1>6, <1>10, ReadSame
<1>12. Read(page', Listed(g), header.ftable[g].fsize) = Read(page, Listed(g), header.ftable[g].fsize)
  BY <1>5, <1>6, <1>10, ReadSame
<1> QED BY <1>9, <1>11, <1>12 DEF Seen
-----------------------------------------------------------------------------
(***************************************************************************)
(* What is read over a write: the first pages of s, of which those from l  *)
(* to w were written.                                                      *)
(***************************************************************************)
LEMMA OverRead ==
  ASSUME NEW f, NEW pg, NEW new, NEW s \in SUBSET Page, NEW l \in Int, NEW w \in Int, NEW v,
         \A p \in Page : new[p] = IF p \in Segment(s, l, w) THEN <<f, v>> ELSE pg[p],
         NEW n \in Nat, n =< Cardinality(s), NEW m \in Nat, m =< Cardinality(s)
  PROVE  Store!BegunIn(f, Read(pg, s, m), Read(new, s, n), l, w, v)
<1> DEFINE d == <<f, v>>
           a == Read(new, s, n)
           b == Read(pg, s, m)
<1>1. Len(b) = m /\ Len(a) = n
  BY DEF Read
<1>2. ASSUME NEW i \in 1 .. n
      PROVE  a[i] = IF i \in l .. w THEN d ELSE pg[Nth(s, i)]
  <2> HIDE DEF d
  <2>0. \A p \in Page : new[p] = IF p \in Segment(s, l, w) THEN d ELSE pg[p]
    BY DEF d
  <2>1. i \in 1 .. Cardinality(s)
    BY NthIs
  <2>2. Nth(s, i) \in s /\ (Nth(s, i) \in Segment(s, l, w) <=> i \in l .. w)
    BY <2>1, NthInSegment
  <2>3. a[i] = new[Nth(s, i)] /\ Nth(s, i) \in Page
    BY <2>2 DEF Read
  <2> HIDE DEF a
  <2> QED BY <2>0, <2>2, <2>3
<1>3. \A i \in 1 .. m : b[i] = pg[Nth(s, i)]
  BY DEF Read
<1> HIDE DEF a, b, d
<1>4. \A i \in 1 .. n : /\ i \in l .. w => a[i] = d
                        /\ i \in 1 .. m /\ i \notin l .. w => a[i] = b[i]
  BY <1>2, <1>3
<1>5. Store!BegunIn(f, b, a, l, w, v)
  BY <1>1, <1>4 DEF Store!BegunIn, d
<1> QED BY <1>5 DEF a, b

LEMMA OverPut ==
  ASSUME NEW f, NEW pg, NEW new, NEW s \in SUBSET Page, NEW l \in Int, NEW w \in Int, NEW v,
         \A p \in Page : new[p] = IF p \in Segment(s, l, w) THEN <<f, v>> ELSE pg[p],
         NEW n \in Nat, n =< Cardinality(s), NEW m \in Nat, m =< Cardinality(s),
         \A i \in 1 .. n : i \in 1 .. m \/ i \in l .. w
  PROVE  Read(new, s, n) = Store!Put(f, Read(pg, s, m), l, w, v, n)
<1> DEFINE d == <<f, v>>
           a == Read(new, s, n)
           b == Read(pg, s, m)
<1>1. Len(b) = m /\ Len(a) = n /\ a = [i \in 1 .. n |-> a[i]]
  BY DEF Read
<1>2. Store!BegunIn(f, b, a, l, w, v)
  BY OverRead
<1> HIDE DEF a, b, d
<1>3. \A i \in 1 .. n : a[i] = IF i \in l .. w THEN d ELSE b[i]
  BY <1>1, <1>2 DEF Store!BegunIn, d
<1>4. a = [i \in 1 .. n |-> IF i \in l .. w THEN d ELSE b[i]]
  BY <1>1, <1>3
<1>5. Store!Put(f, b, l, w, v, n) = [i \in 1 .. n |-> IF i \in l .. w THEN d ELSE b[i]]
  BY DEF Store!Put, d
<1> QED BY <1>4, <1>5 DEF a, b

LEMMA PartlyWrittenIs ==
  ASSUME NEW f, NEW s, NEW s1, NEW t, NEW t1, "write" \in Faults, s1.deleted = s.deleted,
         NEW l \in 1 .. Len(s.data) + 1, NEW n \in 1 .. MaxXfer, NEW v \in Val,
         NEW w \in l - 1 .. l + n - 2,
         Len(s1.data) \in {Len(s.data), Store!Max({Len(s.data), l + n - 1})},
         Store!BegunIn(f, s.data, s1.data, l, w, v),
         t1 = [t EXCEPT !.data = Store!Put(f, t.data, l, w, v, Len(t.data))]
  PROVE  Store!PartlyWritten(f, s, s1, t, t1)
BY Zenon DEF Store!PartlyWritten

LEMMA LfWriteMaps ==
  ASSUME AllInv, AllInv', NEW f \in Lfile, LfWrite(f)
  PROVE  Store!Next \/ UNCHANGED <<Now, Safe>>
<1>1. PICK s \in SUBSET Page :
         /\ s = PagesOf(f)'
         /\ Now[f] = Seen(page, s, ftable[f]) /\ Now'[f] = Seen(page', s, ftable'[f])
         /\ Safe[f] = Seen(page, s, header.ftable[f])
         /\ Safe'[f] = Seen(page', s, header.ftable[f])
         /\ \A e \in {ftable[f], ftable'[f], header.ftable[f]} :
               e \in [fsize : Nat, deleted : BOOLEAN] /\ e.fsize =< Cardinality(s)
  BY WriteSees
<1>2. \A g \in Lfile \ {f} : Now'[g] = Now[g] /\ Safe'[g] = Safe[g]
  BY WriteSpares
<1>3. ftable \in [Lfile -> [fsize : Nat, deleted : BOOLEAN]]
  BY DEF AllInv, IInv, TypeOK
<1>4. CASE page' = page /\ ftable' = ftable
  <2>1. Now'[f] = Now[f] /\ Safe'[f] = Safe[f]
    BY <1>1, <1>4
  <2>2. Now'[f] = [Now[f] EXCEPT !.deleted = ftable[f].deleted] /\ ftable[f].deleted \in BOOLEAN
    BY <1>1, <1>3, <1>4, <2>1 DEF Seen
  <2>3. Store!Becomes(f, Now[f], Now'[f], Safe[f], Safe'[f])
    BY <2>1, <2>2 DEF Store!Becomes, Store!Marked
  <2> QED BY <1>2, <2>3, StoreChange
<1>5. ASSUME NEW l \in 1 .. ftable[f].fsize + 1, NEW n \in 1 .. MaxXfer, NEW v \in Val,
             NEW w \in l - 1 .. l + n - 1, Sets(f, l, w, l + n - 1, v)
      PROVE  Store!Next
  <2> DEFINE h == l + n - 1
             m == ftable[f].fsize
             m1 == ftable'[f].fsize
             c == header.ftable[f].fsize
             old == Read(page, s, m)
             top == Store!Max({m, h})
  <2>1. /\ m \in Nat /\ m1 \in Nat /\ c \in Nat /\ h \in Nat /\ w \in Int /\ l \in Int
        /\ l >= 1 /\ l =< m + 1 /\ n >= 1 /\ w =< h
        /\ m =< Cardinality(s) /\ m1 =< Cardinality(s) /\ c =< Cardinality(s)
    BY <1>1, <1>5, FmioAssumption
  <2>2. \A p \in Page : page'[p] = IF p \in Segment(s, l, w) THEN <<f, v>> ELSE page[p]
    BY <1>1, <1>5 DEF Sets
  <2>3. /\ ftable'[f].deleted = ftable[f].deleted
        /\ \/ w = h /\ m1 = IF h > m THEN h ELSE m
           \/ "write" \in Faults /\ w < h /\ (m1 = m \/ (h > m /\ m1 = h))
    <3>1. \/ w = h /\ ftable' = IF h > m THEN [ftable EXCEPT ![f].fsize = h] ELSE ftable
          \/ /\ "write" \in Faults /\ w < h
             /\ ftable' = ftable \/ (h > m /\ ftable' = [ftable EXCEPT ![f].fsize = h])
      BY <1>5 DEF Sets
    <3>2. ftable' = ftable => ftable'[f].deleted = ftable[f].deleted /\ m1 = m
      OBVIOUS
    <3>3. ftable' = [ftable EXCEPT ![f].fsize = h] =>
             ftable'[f].deleted = ftable[f].deleted /\ m1 = h
      BY <1>3
    <3> HIDE DEF h, m, m1
    <3> QED BY <3>1, <3>2, <3>3
  <2>4. top = IF h > m THEN h ELSE m
    <3> HIDE DEF h, m
    <3> QED BY <2>1 DEF Store!Max
  <2>5. /\ Now[f] = [data |-> old, deleted |-> ftable[f].deleted]
        /\ Now'[f] = [data |-> Read(page', s, m1), deleted |-> ftable[f].deleted]
        /\ Safe[f] = [data |-> Read(page, s, c), deleted |-> header.ftable[f].deleted]
        /\ Safe'[f] = [data |-> Read(page', s, c), deleted |-> header.ftable[f].deleted]
    BY <1>1, <2>3 DEF Seen
  <2>6. Len(old) = m /\ Len(Read(page, s, c)) = c /\ Len(Read(page', s, m1)) = m1
    BY <2>1 DEF Read
  <2>7. Read(page', s, c) = Store!Put(f, Read(page, s, c), l, w, v, c)
    <3> HIDE DEF c
    <3>1. \A i \in 1 .. c : i \in 1 .. c \/ i \in l .. w
      OBVIOUS
    <3> QED BY <2>1, <2>2, <3>1, OverPut
  <2> HIDE DEF h, m, m1, c, top
  <2>8. CASE w = h /\ m1 = top
    <3>1. \A i \in 1 .. m1 : i \in 1 .. m \/ i \in l .. w
      BY <2>1, <2>4, <2>8
    <3>2. Read(page', s, m1) = Store!Put(f, old, l, w, v, m1)
      BY <2>1, <2>2, <3>1, OverPut
    <3> HIDE DEF old
    <3>3. Store!Written(f, Now[f], Now'[f], Safe[f], Safe'[f])
      <4>1. /\ Now'[f] = [Now[f] EXCEPT !.data = Store!Put(f, Now[f].data, l, w, v, m1)]
            /\ Safe'[f] = [Safe[f] EXCEPT !.data = Store!Put(f, Safe[f].data, l, w, v, c)]
        BY <2>5, <2>7, <3>2
      <4>2. /\ Len(Now[f].data) = m /\ Len(Safe[f].data) = c
            /\ l \in 1 .. Len(Now[f].data) + 1
        BY <1>5, <2>5, <2>6 DEF m
      <4>3. w = l + n - 1 /\ m1 = Store!Max({Len(Now[f].data), l + n - 1})
        BY <2>8, <4>2 DEF h, top
      <4> QED BY <1>5, <4>1, <4>2, <4>3 DEF Store!Written
    <3> QED BY <1>2, <3>3, StoreChange DEF Store!Becomes
  <2>9. CASE "write" \in Faults /\ w < h /\ m1 \in {m, top}
    <3>1. Store!BegunIn(f, old, Read(page', s, m1), l, w, v)
      BY <2>1, <2>2, OverRead
    <3> HIDE DEF old
    <3>2. w \in l - 1 .. l + n - 2
      BY <2>1, <2>9 DEF h
    <3>3. Store!PartlyWritten(f, Now[f], Now'[f], Safe[f], Safe'[f])
      <4>1. /\ Safe'[f] = [Safe[f] EXCEPT !.data = Store!Put(f, Safe[f].data, l, w, v, c)]
            /\ Now'[f].deleted = Now[f].deleted
            /\ Store!BegunIn(f, Now[f].data, Now'[f].data, l, w, v)
        BY <2>5, <2>7, <3>1
      <4>2. /\ Len(Now[f].data) = m /\ Len(Safe[f].data) = c /\ Len(Now'[f].data) = m1
            /\ l \in 1 .. Len(Now[f].data) + 1
        BY <1>5, <2>5, <2>6 DEF m
      <4>3. Len(Now'[f].data) \in {Len(Now[f].data), Store!Max({Len(Now[f].data), l + n - 1})}
        BY <2>9, <4>2 DEF h, top
      <4> QED BY <1>5, <2>9, <3>2, <4>1, <4>2, <4>3, PartlyWrittenIs
    <3> QED BY <1>2, <3>3, StoreChange DEF Store!Becomes
  <2> QED BY <2>1, <2>3, <2>4, <2>8, <2>9
<1> QED BY <1>4, <1>5, WriteSets DEF AllInv
-----------------------------------------------------------------------------
(***************************************************************************)
(* Every step is one of LightFiles, or changes nothing that it sees.       *)
(***************************************************************************)
LEMMA NextMaps ==
  ASSUME AllInv, AllInv', Bounded, Garbage = {PT_LFILE}, [Next]_vars
  PROVE  Store!Next \/ UNCHANGED <<Now, Safe>>
<1>1. ASSUME NEW f \in Lfile, LfOpen(f) PROVE Store!Next
  BY <1>1, LfOpenMaps
<1>2. ASSUME NEW f \in Lfile, LfWrite(f) PROVE Store!Next \/ UNCHANGED <<Now, Safe>>
  BY <1>2, LfWriteMaps
<1>3. ASSUME NEW f \in Lfile, NEW del \in BOOLEAN, LfMark(f, del) PROVE Store!Next
  BY <1>3, LfMarkMaps
<1>4. ASSUME NEW close \in BOOLEAN, SyncHeader(close) PROVE Store!Next
  BY <1>4, SyncHeaderMaps
<1>5. CASE SyncTable
  BY <1>5, SyncTableMaps
<1>6. CASE Close /\ ~errcode
  BY <1>6, EndMaps DEF Close
<1>7. CASE Crash
  BY <1>7, EndMaps DEF Crash, Bounded
<1>8. CASE Open
  BY <1>8, OpenMaps
<1>9. CASE RaiseError \/ (Close /\ errcode) \/ UNCHANGED vars
  BY <1>9, IdleMaps
<1> QED BY <1>1, <1>2, <1>3, <1>4, <1>5, <1>6, <1>7, <1>8, <1>9 DEF Next

LEMMA InitMaps == ASSUME Init, AllInv PROVE Store!Init
<1>1. Views /\ pc = "open" /\ ftable = [f \in Lfile |-> Empty] /\ header.ftable = ftable
  BY ViewsAre DEF Init, Blank
<1>2. \A s : Seen(page, s, Empty) = Store!Fresh
  BY DEF Seen, Empty, Read, Store!Fresh
<1>3. Now = [f \in Lfile |-> Store!Fresh] /\ Safe = [f \in Lfile |-> Store!Fresh]
  BY <1>1, <1>2 DEF Views
<1> QED BY <1>3 DEF Store!Init

(***************************************************************************)
(* FMIO keeps the promise of its README: whatever the sizes and however    *)
(* the lfiles grow, an lfile holds what was written to it, and a datafile  *)
(* that is opened again holds what the last sync saved.  As above, no      *)
(* crash comes within a sync, the index is short and memory was zero.      *)
(***************************************************************************)
THEOREM ImplementsLightFiles ==
  ASSUME PtiLen =< PerPage + 1, CrashInSync = FALSE, Garbage = {PT_LFILE}
  PROVE  Spec => IsLightFiles
<1>1. Bounded
  BY DEF Bounded
<1>2. Init => AllInv /\ Store!Init
  BY InitIInv, InitRInv, InitDInv, InitSInv, InitMaps DEF AllInv
<1>3. AllInv /\ [Next]_vars => AllInv'
  BY <1>1, NextIInv, NextRInv, NextDInv, NextSInv DEF AllInv
<1>4. AllInv /\ AllInv' /\ [Next]_vars => [Store!Next]_(Store!svars)
  BY <1>1, NextMaps DEF Store!svars
<1> QED BY <1>2, <1>3, <1>4, PTL DEF Spec, IsLightFiles, Store!Spec
=============================================================================
