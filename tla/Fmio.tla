-------------------------------- MODULE Fmio --------------------------------
(***************************************************************************)
(* FMIO (sys/fmio): lightweight files, lfiles, in the pages of one         *)
(* datafile.  Lfile 0 is the page table, which gives for each page the     *)
(* lfile that owns it.  In core the table is extended as lfiles grow; the  *)
(* pages that hold the table itself are allocated when it is synced, and   *)
(* the page table index in the datafile header points to them.             *)
(*                                                                         *)
(* Sizes and transfers are counted in pages.  A pagemap is the set of the  *)
(* pages of the lfile: pages are only added at the end of the datafile, so *)
(* the l-th page of the lfile is the l-th of the set.                      *)
(***************************************************************************)
EXTENDS Integers, Sequences, FiniteSets

CONSTANTS
    NLFiles,      \* FM_NLFILES
    PerPage,      \* page table entries in a page
    PtiLen,       \* FM_PTILEN, pages the page table may have
    Val,          \* what is written to a page
    Hole,         \* a page that was never written
    MaxXfer,      \* pages a transfer may ask for
    Faults,       \* transfers that may fail: "write"
    Garbage,      \* what malloc may leave in the page table
    CrashInSync   \* whether a crash may come between the writes of a sync

ASSUME FmioAssumption ==
    /\ NLFiles \in Nat /\ PerPage \in Nat \ {0} /\ MaxXfer \in Nat
    /\ PtiLen \in Nat
    /\ Garbage \subseteq 0 .. NLFiles /\ CrashInSync \in BOOLEAN

VARIABLES
    pc,           \* the datafile is closed, open, or within fm_sync
    closing,      \* the sync is that of fm_close
    ptable,       \* FM_PTABLE, of FM_PTNPTE entries
    ptindex,      \* FM_PTINDEX, of FM_PTINPTI entries
    lupte,        \* FM_PTLUPTE, last updated PTE on disk
    ftable,       \* file table entries
    active,       \* lfiles whose LF_PAGEMAP is allocated
    pagemap,      \* LF_PAGEMAP
    dhmodified,   \* FM_DHMODIFIED
    errcode,      \* whether an error is posted
    header,       \* of the datafile on disk
    page          \* pages of the datafile on disk

core == <<ptable, ptindex, lupte, ftable, active, pagemap, dhmodified, errcode>>
disk == <<header, page>>
vars == <<pc, closing, core, disk>>

PT_LFILE == 0
Lfile == 1 .. NLFiles
Owner == Lfile \cup {PT_LFILE}
Page  == 1 .. PerPage * PtiLen
Table == [1 .. PerPage -> Owner]

(***************************************************************************)
(* A page that was never written holds neither data nor page table.        *)
(***************************************************************************)
ASSUME HoleAssumption == Hole \notin Table /\ Hole \notin Lfile \X Val

Empty == [fsize |-> 0, deleted |-> FALSE]

(***************************************************************************)
(* The pages owned by lfile f, and those at l to h of a pagemap.           *)
(***************************************************************************)
PagesOf(f) == {p \in DOMAIN ptable : ptable[p] = f}

Segment(map, l, h) == {p \in map : Cardinality({q \in map : q =< p}) \in l .. h}
-----------------------------------------------------------------------------
(***************************************************************************)
(* FMIO_EXTEND.  An lfile gets a page if, were every page of the index in  *)
(* use, the page table would still fit: "np = p2 + FM_PTILEN".             *)
(***************************************************************************)
RoomAll == PerPage * PtiLen - Len(ptable)                 \* mutant: np = p2
Room == PerPage * PtiLen - PtiLen - Len(ptable)

Granted(n) == CHOOSE k \in 0 .. n : /\ k = 0 \/ k =< Room
                                    /\ k = n \/ k + 1 > Room

NewPagesFew(n) == Len(ptable) + 1 .. Len(ptable) + n - 1  \* mutant: l2 = l1 + npages - 2
NewPages(n) == Len(ptable) + 1 .. Len(ptable) + n

Extend(f, n) ==
    /\ ptable' = ptable \o [i \in 1 .. n |-> f]
    /\ pagemap' = IF f \in active THEN [pagemap EXCEPT ![f] = @ \cup NewPages(n)]
                                  ELSE pagemap
-----------------------------------------------------------------------------
(***************************************************************************)
(* The state fmio_bind leaves in a new datafile.                           *)
(***************************************************************************)
Blank ==
    /\ ptable = <<>> /\ ptindex = <<>> /\ lupte = 0
    /\ ftable = [f \in Lfile |-> Empty]
    /\ active = {} /\ pagemap = [f \in Owner |-> {}]
    /\ dhmodified = FALSE /\ errcode = FALSE

Init ==
    /\ pc = "open" /\ closing = FALSE /\ Blank
    /\ header = [npte |-> 0, ptindex |-> <<>>, ftable |-> ftable]
    /\ page = [p \in Page |-> Hole]

Ready == pc = "open"

(***************************************************************************)
(* FM_LFOPEN.  The first open builds the pagemap.  A new file, or one that *)
(* was deleted, is empty, and keeps its pages.                             *)
(***************************************************************************)
Activate(f) ==
    /\ active' = active \cup {f}
    /\ pagemap' = IF f \in active THEN pagemap
                                  ELSE [pagemap EXCEPT ![f] = PagesOf(f)]
    /\ dhmodified' = TRUE
    /\ UNCHANGED <<pc, closing, ptable, ptindex, lupte, errcode, disk>>

Opened(f, new) == IF new \/ ftable[f].deleted THEN Empty ELSE ftable[f]

LfOpen(f) ==
    /\ Ready
    /\ Activate(f)
    /\ \E new \in BOOLEAN : ftable' = [ftable EXCEPT ![f] = Opened(f, new)]

(***************************************************************************)
(* FM_LFBINWRITE and FM_LFBINWAIT.  The lfile is extended page by page     *)
(* until the data fits, then written in runs of contiguous pages, waiting  *)
(* for each but the last, and its size is updated before the last wait.    *)
(***************************************************************************)
Data(f, v) == <<f, v>>

Stored(f, l, k, v) ==
    LET s == Segment(pagemap'[f], l, l + k - 1)
    IN  page' = [p \in Page |-> IF p \in s THEN Data(f, v) ELSE page[p]]

GrownUnmarked(f, size) ==                \* mutant: the new size does not set FM_DHMODIFIED
    /\ ftable' = IF size > ftable[f].fsize THEN [ftable EXCEPT ![f].fsize = size]
                                           ELSE ftable
    /\ dhmodified' = (dhmodified \/ ptable' # ptable)

Grown(f, size) ==
    /\ ftable' = IF size > ftable[f].fsize THEN [ftable EXCEPT ![f].fsize = size]
                                           ELSE ftable
    /\ dhmodified' = (dhmodified \/ ptable' # ptable \/ size > ftable[f].fsize)

(***************************************************************************)
(* The pages l to h of the lfile are one run.                              *)
(***************************************************************************)
OneRun(f, l, h) ==
    LET s == Segment(pagemap'[f], l, h)
    IN  \A p, q \in s : p .. q \subseteq s

Write(f, l, n, v) ==
    LET wanted == l + n - 1 - Cardinality(pagemap[f])
        need == IF wanted > 0 THEN wanted ELSE 0
    IN  /\ Granted(need) = need
        /\ Extend(f, need)
        /\ \/ /\ Stored(f, l, n, v)
              /\ Grown(f, l + n - 1)
           \/ /\ "write" \in Faults
              /\ \E k \in 0 .. n - 1 :
                    /\ Stored(f, l, k, v)
                    /\ IF OneRun(f, l + k, l + n - 1) THEN Grown(f, l + n - 1)
                                                      ELSE Grown(f, 0)
        /\ UNCHANGED errcode

NoRoom(f, l, n) ==
    LET need == l + n - 1 - Cardinality(pagemap[f])
    IN  /\ need > 0 /\ Granted(need) < need
        /\ Extend(f, Granted(need))
        /\ dhmodified' = (dhmodified \/ Granted(need) > 0)
        /\ errcode' = TRUE
        /\ UNCHANGED <<ftable, page>>

LfWrite(f) ==
    /\ Ready /\ f \in active
    /\ \E l \in 1 .. ftable[f].fsize + 1, n \in 1 .. MaxXfer :
          NoRoom(f, l, n) \/ \E v \in Val : Write(f, l, n, v)
    /\ UNCHANGED <<pc, closing, ptindex, lupte, active, header>>

(***************************************************************************)
(* FM_LFDELETE and FM_LFUNDELETE.                                          *)
(***************************************************************************)
LfMark(f, del) ==
    /\ Ready /\ ~errcode
    /\ ftable' = [ftable EXCEPT ![f].deleted = del]
    /\ dhmodified' = TRUE
    /\ UNCHANGED <<pc, closing, ptable, ptindex, lupte, active, pagemap, errcode, disk>>

(***************************************************************************)
(* FMIO_ERRCHK, in a call that does nothing else then.                     *)
(***************************************************************************)
RaiseError ==
    /\ Ready /\ errcode
    /\ errcode' = FALSE
    /\ UNCHANGED <<pc, closing, ptable, ptindex, lupte, ftable, active, pagemap, dhmodified, disk>>
-----------------------------------------------------------------------------
(***************************************************************************)
(* FM_SYNC, until the header is written, called by a client, by FM_CLOSE,  *)
(* or by FMIO_TICK, which ends most calls and syncs if the last sync is    *)
(* old enough.  Pages are allocated for the page table, as many as the     *)
(* table needed before it had them.  IndexHolds: the overflow of the index *)
(* tested first, for which the table is cut, does not occur.               *)
(***************************************************************************)
Npti(npte) == (npte + PerPage - 1) \div PerPage

MissingAll == Npti(Len(ptable))               \* mutant: PTINPTI is not where it starts

Missing == IF Npti(Len(ptable)) > Len(ptindex) THEN Npti(Len(ptable)) - Len(ptindex)
                                               ELSE 0

SyncHeader(close) ==
    /\ Ready /\ Npti(Len(ptable)) =< PtiLen
    /\ Extend(PT_LFILE, Missing)
    /\ ptindex' = ptindex \o [i \in 1 .. Missing |-> Len(ptable) + i]
    /\ header' = IF dhmodified \/ Missing > 0
                 THEN [npte |-> Len(ptable'), ptindex |-> ptindex', ftable |-> ftable]
                 ELSE header
    /\ dhmodified' = FALSE
    /\ pc' = "table" /\ closing' = close
    /\ UNCHANGED <<lupte, ftable, active, errcode, page>>

(***************************************************************************)
(* The rest: the page of the page table that holds the first entry not     *)
(* updated yet, and all that follow.                                       *)
(***************************************************************************)
FirstStaleNext == lupte \div PerPage + 2     \* mutant: the page that holds LUPTE+1 is left out
FirstStale == lupte \div PerPage + 1

Entries(q) ==
    [j \in 1 .. PerPage |-> LET i == (q - 1) * PerPage + j
                            IN  IF i =< Len(ptable) THEN ptable[i] ELSE PT_LFILE]

SyncTable ==
    /\ pc = "table"
    /\ page' = [p \in Page |->
                   IF Len(ptable) > lupte
                      /\ \E q \in FirstStale .. Len(ptindex) : ptindex[q] = p
                   THEN Entries(CHOOSE q \in FirstStale .. Len(ptindex) : ptindex[q] = p)
                   ELSE page[p]]
    /\ lupte' = Len(ptable)
    /\ pc' = IF closing THEN "close" ELSE "open"
    /\ UNCHANGED <<closing, ptable, ptindex, ftable, active, pagemap, dhmodified,
                   errcode, header>>

(***************************************************************************)
(* FM_CLOSE after its sync: it goes no further if an error is posted.      *)
(***************************************************************************)
Forgotten ==
    /\ ptable' = <<>> /\ ptindex' = <<>> /\ lupte' = 0
    /\ ftable' = [f \in Lfile |-> Empty]
    /\ active' = {} /\ pagemap' = [f \in Owner |-> {}]
    /\ dhmodified' = FALSE /\ errcode' = FALSE

Close ==
    /\ pc = "close" /\ closing' = FALSE
    /\ IF errcode
       THEN /\ pc' = "open" /\ errcode' = FALSE
            /\ UNCHANGED <<ptable, ptindex, lupte, ftable, active, pagemap, dhmodified>>
       ELSE pc' = "closed" /\ Forgotten
    /\ UNCHANGED disk

(***************************************************************************)
(* The process ends without a close.                                       *)
(***************************************************************************)
Crash ==
    /\ pc \in IF CrashInSync THEN {"open", "table"} ELSE {"open"}
    /\ pc' = "closed" /\ closing' = FALSE /\ Forgotten
    /\ UNCHANGED disk
-----------------------------------------------------------------------------
(***************************************************************************)
(* FMIO_READHEADER, in FM_OPEN of an existing datafile.  The page table    *)
(* read is that of the pages in the index; the entries there is no page    *)
(* for are as malloc left them.                                            *)
(***************************************************************************)
EntryNext(index, i) ==                       \* mutant: the page read is copied one entry off
    LET c == page[index[(i - 1) \div PerPage + 1]]
    IN  IF c \in Table THEN c[(i % PerPage) + 1] ELSE PT_LFILE

Entry(index, i) ==
    LET c == page[index[(i - 1) \div PerPage + 1]]
    IN  IF c \in Table THEN c[((i - 1) % PerPage) + 1] ELSE PT_LFILE

InTable(i) == i =< PerPage * Len(header.ptindex)

Readable == \A q \in DOMAIN header.ptindex :
               \E p \in Page : p >= header.ptindex[q] /\ page[p] # Hole

Open ==
    /\ pc = "closed" /\ Readable
    /\ \E rest \in [{i \in 1 .. header.npte : ~InTable(i)} -> Garbage] :
          ptable' = [i \in 1 .. header.npte |-> IF InTable(i) THEN Entry(header.ptindex, i)
                                                              ELSE rest[i]]
    /\ ptindex' = header.ptindex /\ lupte' = header.npte
    /\ ftable' = header.ftable
    /\ dhmodified' = TRUE
    /\ pc' = "open"
    /\ UNCHANGED <<closing, active, pagemap, errcode, disk>>

Next == \/ \E f \in Lfile : \/ LfOpen(f) \/ LfWrite(f)
                            \/ \E del \in BOOLEAN : LfMark(f, del)
        \/ RaiseError
        \/ \E close \in BOOLEAN : SyncHeader(close)
        \/ SyncTable \/ Close \/ Crash \/ Open

Spec == Init /\ [][Next]_vars
-----------------------------------------------------------------------------
(***************************************************************************)
(* The types.                                                              *)
(***************************************************************************)
TypeOK ==
    /\ pc \in {"open", "table", "close", "closed"} /\ closing \in BOOLEAN
    /\ ptable \in Seq(Owner) /\ Len(ptable) =< PerPage * PtiLen
    /\ ptindex \in Seq(Page) /\ Len(ptindex) =< PtiLen
    /\ lupte \in 0 .. Len(ptable)
    /\ ftable \in [Lfile -> [fsize : Nat, deleted : BOOLEAN]]
    /\ active \subseteq Owner
    /\ pagemap \in [Owner -> SUBSET Page]
    /\ dhmodified \in BOOLEAN /\ errcode \in BOOLEAN
    /\ header.npte \in 0 .. PerPage * PtiLen /\ header.ptindex \in Seq(Page)

(***************************************************************************)
(* There is room in the index for the page table when a sync comes, pages  *)
(* of the table included that were added since the limit was tested: the   *)
(* truncation of fmsync.x:50, "to try to recover the datafile with some    *)
(* loss of data", is never needed.                                         *)
(***************************************************************************)
IndexHolds == Npti(Len(ptable)) =< PtiLen

(***************************************************************************)
(* "Each page is allocated to a single lfile": the maps that direct the    *)
(* transfers are those of the page table, however the lfiles grew and      *)
(* whenever they were first opened.                                        *)
(***************************************************************************)
MapsAgree == \A f \in active : pagemap[f] = PagesOf(f)

(***************************************************************************)
(* "The PT is stored as lfile zero": no page of the index belongs to an    *)
(* lfile that could be written.                                            *)
(***************************************************************************)
TableOwnsItsPages ==
    \A q \in DOMAIN ptindex :
        ptindex[q] \in DOMAIN ptable /\ ptable[ptindex[q]] = PT_LFILE

(***************************************************************************)
(* "A datafile should always be recoverable after a crash": whatever ended *)
(* the last session, a close included, FM_OPEN does not find the datafile  *)
(* truncated.                                                              *)
(***************************************************************************)
Recoverable == pc = "closed" => Readable
=============================================================================
