------------------------------ MODULE FmFcache ------------------------------
(***************************************************************************)
(* The file cache of FMIO (sys/fmio/fmfcache.x): FIO descriptors that stay *)
(* open on lfiles between uses, so that an lfile used again keeps its      *)
(* buffer, and what QPOE does with it (sys/qpoe).                          *)
(*                                                                         *)
(* A program holds descriptors under the names in User: from FM_GETFD,     *)
(* which the cache may share between users, or from QP_POPEN, which opens  *)
(* the lfile beside the cache.  One process, so a call is a step.  Calls   *)
(* that end in an error and change nothing are no steps.                   *)
(***************************************************************************)
EXTENDS Integers, FiniteSets

CONSTANTS
    NFiles,       \* FC_NFILES, slots of the cache
    Lfile,        \* the lfiles of the datafile
    None,         \* no lfile
    User,         \* the places where a program keeps a descriptor
    NFd,          \* descriptors that FIO can have open
    Program,      \* what programs do besides: "popen", "purge", "lockout"
    Faults,       \* what may fail: "open", "close" of an lfile, "client"
    MaxRef,       \* bound of FC_NREF
    MaxLocked,    \* bound of the lfiles locked out at a time
    MaxLeaks,     \* bound of the descriptors that nobody will close
    GoesOn        \* bound: whether the program goes on once the cache is spoiled

ASSUME FcacheAssumption ==
    /\ NFiles \in Nat /\ NFd \in Nat /\ MaxRef \in Nat
    /\ MaxLocked \in Nat /\ MaxLeaks \in Nat /\ GoesOn \in BOOLEAN
    /\ None \notin Lfile /\ IsFiniteSet(User)

VARIABLES
    slot,         \* FC_NREF, FC_LFILE, FC_FD of each slot
    age,          \* FC_LRU: how many slots were referenced after this one
    locked,       \* lfiles with LFF_LOCKOUT
    fio,          \* of each descriptor the lfile it is open on, and FF_WRITE
    held,         \* what the program holds: a descriptor, for an lfile
    spoiled       \* history: an FM_GETFD failed after it had closed a file

vars == <<slot, age, locked, fio, held, spoiled>>

Slot == 1 .. NFiles
Fd   == 1 .. NFd
Mode == {"read", "write", "new"}       \* READ_ONLY; READ_WRITE, APPEND; NEW_FILE

NotOpen == [lfile |-> None, write |-> FALSE]
Adrift  == [lfile |-> None, write |-> TRUE]    \* open, and nobody knows it
NoSlot  == [nref |-> 0, lfile |-> None, fd |-> 0]
Nothing == [by |-> "none", lfile |-> None, fd |-> 0]
-----------------------------------------------------------------------------
(***************************************************************************)
(* FIO: a descriptor is the lowest that is free.  A close of one that is   *)
(* closed does nothing; one whose flush fails leaves it open, and where    *)
(* the caller has forgotten it already it stays so.                        *)
(***************************************************************************)
IsNextFd(file, fd) == file[fd] = NotOpen /\ \A e \in 1 .. fd - 1 : file[e] # NotOpen

Opened(file, fd, f, m) == [file EXCEPT ![fd] = [lfile |-> f, write |-> m # "read"]]

Become(file, fds, state) == [fd \in Fd |-> IF fd \in fds THEN state ELSE file[fd]]

Closed(file, fds) == Become(file, fds, NotOpen)

Close(fds, lost) ==
    /\ lost = {} \/ ("close" \in Faults /\ \A fd \in lost : fio[fd] # NotOpen)
    /\ Cardinality({fd \in Fd : fio[fd] = Adrift} \cup lost) =< MaxLeaks
    /\ fio' = Become(Closed(fio, fds), lost, Adrift)
-----------------------------------------------------------------------------
InUse == {s \in Slot : slot[s].nref # 0}

(***************************************************************************)
(* FM_FINDLF, and the search for a slot: it goes on to every slot whose    *)
(* count is below all before it, and stops at one that is free.            *)
(***************************************************************************)
Has(s, f) == slot[s].nref # 0 /\ slot[s].lfile = f
Cached(f) == \E s \in Slot : Has(s, f)

IdleAny(s) == slot[s].nref =< 2              \* mutant: idle counted from two
Idle(s) == slot[s].nref =< 1
Free(s) == slot[s].nref =< 0

Precedes(s) == Idle(s) /\ \A t \in 1 .. s - 1 : Idle(t) => age[s] > age[t]

OldestFirst(s) == Precedes(s) /\ \A t \in 1 .. s - 1 : ~Precedes(t)   \* mutant: no search
Oldest(s) == /\ Precedes(s)
             /\ \A t \in 1 .. s - 1 : ~(Precedes(t) /\ Free(t))
             /\ Free(s) \/ \A t \in s + 1 .. NFiles : ~Precedes(t)

(***************************************************************************)
(* A slot is referenced: FC_REFCNT goes up and becomes its FC_LRU.         *)
(***************************************************************************)
TouchedAll(s) == [t \in Slot |-> IF t = s THEN 0 ELSE age[t] + 1]   \* mutant: the rank of all
Touched(s) == [t \in Slot |-> IF t = s THEN 0
                              ELSE IF age[t] < age[s] THEN age[t] + 1 ELSE age[t]]

Goes == ~spoiled \/ GoesOn

Hold(u, b, f, fd) == held' = [held EXCEPT ![u] = [by |-> b, lfile |-> f, fd |-> fd]]

Init ==
    /\ slot = [s \in Slot |-> NoSlot] /\ age = [s \in Slot |-> NFiles]
    /\ locked = {}
    /\ fio = [fd \in Fd |-> NotOpen]
    /\ held = [u \in User |-> Nothing]
    /\ spoiled = FALSE

(***************************************************************************)
(* FM_GETFD of an lfile that is cached with the permission it takes.       *)
(***************************************************************************)
Suits(s, m) == m # "new" /\ (m = "read" \/ fio[slot[s].fd].write)

GetCached(u, f, m) ==
    /\ Goes
    /\ held[u] = Nothing
    /\ \E s \in Slot :
          /\ Has(s, f) /\ Suits(s, m) /\ slot[s].nref < MaxRef
          /\ slot' = [slot EXCEPT ![s].nref = @ + 1]
          /\ age' = Touched(s)
          /\ Hold(u, "getfd", f, slot[s].fd)
    /\ UNCHANGED <<locked, fio, spoiled>>

(***************************************************************************)
(* FM_GETFD of any other, at label ref_: the slot of the lfile, if nobody  *)
(* has it, or the oldest gives up its file.  Then the lfile may be locked  *)
(* or not open, when the slot is as it was, but for its file.              *)
(***************************************************************************)
Gives(s, f, m) == IF Cached(f) THEN Has(s, f) /\ ~Suits(s, m) /\ Idle(s)
                               ELSE Oldest(s)

Given(s) == IF slot[s].nref = 1 THEN Closed(fio, {slot[s].fd}) ELSE fio

GetOpened(u, f, m) ==
    /\ Goes
    /\ held[u] = Nothing /\ f \notin locked
    /\ \E s \in Slot, fd \in Fd :
          /\ Gives(s, f, m) /\ IsNextFd(Given(s), fd)
          /\ fio' = Opened(Given(s), fd, f, m)
          /\ slot' = [slot EXCEPT ![s] = [nref |-> 2, lfile |-> f, fd |-> fd]]
          /\ age' = Touched(s)
          /\ Hold(u, "getfd", f, fd)
    /\ UNCHANGED <<locked, spoiled>>

CannotOpen(file) == "open" \in Faults \/ \A fd \in Fd : file[fd] # NotOpen

GetFails(f, m) ==
    /\ Goes
    /\ \E s \in Slot :
          /\ Gives(s, f, m) /\ slot[s].nref = 1
          /\ f \in locked \/ CannotOpen(Given(s))
          /\ fio' = Given(s)
    /\ spoiled' = TRUE
    /\ UNCHANGED <<slot, age, locked, held>>
-----------------------------------------------------------------------------
(***************************************************************************)
(* One reference less, as in FM_RETFD and FM_LOCKOUT: with the last, which *)
(* is the cache's own, the file is closed.                                 *)
(***************************************************************************)
ReleaseIdle(s, lost) ==                      \* mutant: closed when one reference is left
    /\ slot' = [slot EXCEPT ![s].nref = @ - 1]
    /\ IF slot[s].nref > 2 THEN UNCHANGED fio ELSE Close({slot[s].fd}, lost)

Release(s, lost) ==
    IF slot[s].nref > 1
    THEN slot' = [slot EXCEPT ![s].nref = @ - 1] /\ UNCHANGED fio
    ELSE slot' = [slot EXCEPT ![s] = NoSlot] /\ Close({slot[s].fd}, lost)

Ret(f) ==
    IF Cached(f) THEN \E s \in Slot : /\ Has(s, f)
                                      /\ \E lost \in SUBSET {slot[s].fd} : Release(s, lost)
                 ELSE UNCHANGED <<slot, fio>>

RetFd(u) ==
    /\ Goes
    /\ held[u].by = "getfd" /\ held' = [held EXCEPT ![u] = Nothing]
    /\ Ret(held[u].lfile)
    /\ UNCHANGED <<age, locked, spoiled>>

(***************************************************************************)
(* An error between FM_GETFD and FM_RETFD, as in QP_READ: no FM_RETFD.     *)
(***************************************************************************)
Forgets(u) ==
    /\ Goes
    /\ "client" \in Faults /\ held[u].by = "getfd"
    /\ held' = [held EXCEPT ![u] = Nothing]
    /\ UNCHANGED <<slot, age, locked, fio, spoiled>>

(***************************************************************************)
(* "another RETFD while the file is idle closes the file".                 *)
(***************************************************************************)
Purge(f) ==
    /\ Goes
    /\ "purge" \in Program
    /\ \E s \in Slot : Has(s, f) /\ slot[s].nref = 1
    /\ Ret(f)
    /\ UNCHANGED <<age, locked, held, spoiled>>
-----------------------------------------------------------------------------
(***************************************************************************)
(* FM_LOCKOUT and FM_UNLOCK.                                               *)
(***************************************************************************)
LockOutLater(f, lost) == lost = {} /\ UNCHANGED <<slot, fio>>   \* mutant: an idle file stays

LockOut(f, lost) ==
    IF Cached(f) THEN \E s \in Slot : /\ Has(s, f) /\ slot[s].nref = 1
                                      /\ lost \subseteq {slot[s].fd} /\ Release(s, lost)
                 ELSE lost = {} /\ UNCHANGED <<slot, fio>>

Lock(f) ==
    /\ Goes
    /\ "lockout" \in Program /\ Cardinality(locked) < MaxLocked
    /\ \E lost \in SUBSET Fd :
          /\ LockOut(f, lost)
          /\ locked' = IF lost = {} THEN locked \cup {f} ELSE locked
    /\ UNCHANGED <<age, held, spoiled>>

Unlock(f) ==
    /\ Goes
    /\ "lockout" \in Program
    /\ locked' = locked \ {f}
    /\ UNCHANGED <<slot, age, fio, held, spoiled>>

(***************************************************************************)
(* QP_POPEN: FM_LOCKOUT, FM_UNLOCK, then the open, which may fail.         *)
(***************************************************************************)
Without(f) == Closed(fio, {slot[s].fd : s \in {t \in Slot : Has(t, f)}})

ActiveNever(f) == FALSE                      \* mutant: FC_NREF is not tested
Active(f) == \E s \in Slot : Has(s, f) /\ slot[s].nref > 1

Popen(u, f, m) ==
    /\ Goes
    /\ "popen" \in Program /\ held[u] = Nothing
    /\ ~Active(f)
    /\ slot' = [s \in Slot |-> IF Has(s, f) THEN NoSlot ELSE slot[s]]
    /\ locked' = locked \ {f}
    /\ \/ \E fd \in Fd : /\ IsNextFd(Without(f), fd)
                         /\ fio' = Opened(Without(f), fd, f, m)
                         /\ Hold(u, "popen", f, fd)
       \/ /\ CannotOpen(Without(f))
          /\ fio' = Without(f) /\ UNCHANGED held
    /\ UNCHANGED <<age, spoiled>>

PopenFails(f) ==
    /\ Goes
    /\ "popen" \in Program
    /\ \E lost \in SUBSET Fd : lost # {} /\ LockOut(f, lost)
    /\ UNCHANGED <<age, locked, held, spoiled>>

(***************************************************************************)
(* QP_PCLOSE.                                                              *)
(***************************************************************************)
Pclose(u) ==
    /\ Goes
    /\ held[u].by = "popen"
    /\ locked' = locked \ {held[u].lfile}
    /\ held' = [held EXCEPT ![u] = Nothing]
    /\ \E lost \in SUBSET {held[u].fd} : Close({held[u].fd}, lost)
    /\ UNCHANGED <<slot, age, spoiled>>

(***************************************************************************)
(* FM_FCFREE in FM_CLOSE, when the program has done with the datafile, and *)
(* an open of the next.                                                    *)
(***************************************************************************)
FcFree ==
    /\ Goes
    /\ \A u \in User : held[u] = Nothing
    /\ LET fds == {slot[s].fd : s \in InUse}
       IN  \E lost \in SUBSET fds : Close(fds, lost)
    /\ slot' = [s \in Slot |-> NoSlot] /\ age' = [s \in Slot |-> NFiles]
    /\ locked' = {}
    /\ UNCHANGED <<held, spoiled>>

Next ==
    \/ \E f \in Lfile, m \in Mode :
          \/ GetFails(f, m)
          \/ \E u \in User : GetCached(u, f, m) \/ GetOpened(u, f, m) \/ Popen(u, f, m)
    \/ \E u \in User : RetFd(u) \/ Forgets(u) \/ Pclose(u)
    \/ \E f \in Lfile : Purge(f) \/ Lock(f) \/ Unlock(f) \/ PopenFails(f)
    \/ FcFree

Spec == Init /\ [][Next]_vars
-----------------------------------------------------------------------------
(***************************************************************************)
(* The types.                                                              *)
(***************************************************************************)
TypeOK ==
    /\ slot \in [Slot -> [nref : Nat, lfile : Lfile \cup {None}, fd : Fd \cup {0}]]
    /\ age \in [Slot -> 0 .. NFiles] /\ spoiled \in BOOLEAN
    /\ locked \subseteq Lfile
    /\ fio \in [Fd -> [lfile : Lfile \cup {None}, write : BOOLEAN]]
    /\ held \in [User -> [by : {"none", "getfd", "popen"},
                          lfile : Lfile \cup {None}, fd : Fd \cup {0}]]

(***************************************************************************)
(* "FM_GETFD returns the file descriptor of an open, cached file opened on *)
(* an lfile": what the program holds stays open, on the lfile it was given *)
(* for, until the program returns it.  An FM_GETFD that fails too late     *)
(* ends that.                                                              *)
(***************************************************************************)
OpenWhileHeld ==
    \A u \in User : held[u] # Nothing =>
        held[u].fd \in Fd /\ fio[held[u].fd].lfile = held[u].lfile

HeldIsOpen == ~spoiled => OpenWhileHeld

(***************************************************************************)
(* No two owners share a descriptor that one of them will close: the slots *)
(* have open descriptors and lfiles of their own, those of QP_POPEN are in *)
(* no slot.                                                                *)
(***************************************************************************)
SlotsOwnFiles == ~spoiled =>
    /\ \A s \in InUse : slot[s].fd \in Fd /\ fio[slot[s].fd].lfile = slot[s].lfile
    /\ \A s, t \in InUse : s # t =>
          slot[s].fd # slot[t].fd /\ slot[s].lfile # slot[t].lfile
    /\ \A u \in User, s \in InUse : held[u].by = "popen" => held[u].fd # slot[s].fd

(***************************************************************************)
(* A slot counts its users, and one for the cache, so it is reused only    *)
(* when nobody has its file.  It may count users who forgot theirs.        *)
(***************************************************************************)
Users(s) == {u \in User : held[u].by = "getfd" /\ held[u].lfile = slot[s].lfile}

CountsUsers == ~spoiled =>
    /\ \A u \in User : held[u].by = "getfd" => \E s \in InUse : u \in Users(s)
    /\ \A s \in InUse :
          /\ slot[s].nref >= 1 + Cardinality(Users(s))
          /\ "client" \notin Faults => slot[s].nref = 1 + Cardinality(Users(s))

(***************************************************************************)
(* "FM_LOCKOUT may be used to lock a particular lfile out of the cache".   *)
(***************************************************************************)
LockedOut == \A f \in locked : ~Cached(f)

(***************************************************************************)
(* "a conventional LRU cache": the file that goes for another to come was  *)
(* not used after one that stays and that nobody has either.               *)
(***************************************************************************)
Evicted(s) == /\ slot[s].nref = 1 /\ slot'[s].nref = 2
              /\ slot'[s].lfile # slot[s].lfile

EvictsOldest ==
    [][\A s, t \in Slot : Evicted(s) /\ slot[t].nref = 1 => age[t] =< age[s]]_vars

(***************************************************************************)
(* "the lfile used to store the parameter data is unlocked" by QP_PCLOSE:  *)
(* while it is open as a file nobody has it through the cache as well.     *)
(* QP_POPEN has unlocked it before it opens it, so this is not so.         *)
(***************************************************************************)
OpenedOnce == \A u, v \in User :
    held[u].by = "popen" /\ held[v].by = "getfd" => held[u].lfile # held[v].lfile
=============================================================================
