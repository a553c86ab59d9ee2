------------------------------ MODULE OsfnLock ------------------------------
(***************************************************************************)
(* The advisory file lock of sys/fio/osfnlock.x, as VFN uses it to update  *)
(* a mapping file (vvfn_readmapfile and vfnclose of sys/fio/vfnmap.x).     *)
(* OS_FILELOCKING is false, so the lock is made of three null files: the   *)
(* lock is set by deleting lockfile, timelock2 carries its age, and        *)
(* whoever deletes timelock1 may break it.  Every host call (ZFDELE,       *)
(* ZFINFO, ZFACSS) is one step; ZFMKCP is two, its stat of the original    *)
(* and its creat of the copy.  Processes interleave freely, the clock may  *)
(* tick between any two steps and a process may die between any two.       *)
(*                                                                         *)
(* Times are ages in seconds, counted up to LockPeriod, beyond which the   *)
(* code tells no difference.  The time of a lock is remembered as its age  *)
(* and whether it is still the one of timelock2: two creations within one  *)
(* second have the same time.                                              *)
(***************************************************************************)
EXTENDS Integers

CONSTANTS
    Proc,         \* the processes that update the mapping file
    LockPeriod,   \* FILELOCK_PERIOD
    MinLeft,      \* MIN_TIMELEFT
    WaitPeriod,   \* FILEWAIT_PERIOD
    MaxDelay,     \* MAX_DELAY
    Mortal,       \* processes that may die
    Removes       \* updates may empty the mapping file, which deletes it

ASSUME PeriodAssumption ==
    /\ LockPeriod \in Nat \ {0} /\ MinLeft \in 0 .. LockPeriod
    /\ WaitPeriod \in Nat \ {0} /\ MaxDelay \in Nat \ {0}
ASSUME MortalAssumption == Mortal \subseteq Proc /\ Removes \in BOOLEAN

VARIABLES
    osfn,         \* the file to be locked exists
    lockfile,     \* the lockfile exists: nobody has the lock
    timelock1,    \* exists: nobody is breaking the lock
    timelock2,    \* its age, or Absent
    pc,           \* where each process is
    copying,      \* the stat of ZFMKCP has succeeded, its creat is next
    nsec,         \* attempts made in this round of osfn_lock
    delay,        \* attempts made in all, as far as they matter
    created,      \* it has the mapping file open, having created it
    locktime,     \* M_LOCKTIME: its age, and whether it is timelock2's
    forced        \* history: the lock was given away while it was held

locks == <<lockfile, timelock1, timelock2>>
locals == <<copying, nsec, delay, created>>
vars == <<osfn, lockfile, timelock1, timelock2, pc, copying, nsec, delay,
          created, locktime, forced>>

ERR    == -1
Absent == -1
NoTime == [age |-> LockPeriod, same |-> FALSE]

\* n, counted up to top
Capped(n, top) == IF n > top THEN top ELSE n

(***************************************************************************)
(* A process is inside from the ZFDELE that sets the lock to the one that  *)
(* gives it back or removes the file; a dead process is not.               *)
(***************************************************************************)
Inside == {"set1", "set2", "set3", "open", "held", "check1", "check2",
           "commit", "unlock1", "unlock2", "unlock3", "remove"}

Labels == Inside \cup
    {"idle", "create", "init1", "init2", "init3", "try", "break", "info",
     "break1", "break2", "break3", "break4", "restore", "rmlock1",
     "rmlock2", "rmlock3", "dead"}

At(p, label) == pc[p] = label
Go(p, label) == pc' = [pc EXCEPT ![p] = label]

Others(p) == \E q \in Proc \ {p} : pc[q] \in Inside
-----------------------------------------------------------------------------
(***************************************************************************)
(* The host calls on timelock2.  A lock's time matches a new timelock2     *)
(* only if both were made in the same second.                              *)
(***************************************************************************)
NewTimelock2 ==
    /\ timelock2' = 0
    /\ locktime' = [q \in Proc |->
                       [locktime[q] EXCEPT !.same = (locktime[q].age = 0)]]

DropTimelock2 ==
    /\ timelock2' = Absent
    /\ locktime' = [q \in Proc |-> [locktime[q] EXCEPT !.same = FALSE]]

(***************************************************************************)
(* ZFMKCP: Copy(p, at, to, made) takes p from at to to; made is the effect *)
(* of creating the file.  The copy is not made if the original is gone.    *)
(***************************************************************************)
Copy(p, at, to, made) ==
    /\ At(p, at)
    /\ \/ /\ ~copying[p] /\ osfn
          /\ copying' = [copying EXCEPT ![p] = TRUE]
          /\ UNCHANGED <<pc, locks, locktime, forced>>
       \/ /\ ~copying[p] /\ ~osfn
          /\ Go(p, to)
          /\ UNCHANGED <<copying, locks, locktime, forced>>
       \/ /\ copying[p]
          /\ copying' = [copying EXCEPT ![p] = FALSE]
          /\ Go(p, to)
          /\ made
    /\ UNCHANGED <<osfn, nsec, delay, created>>

MakeTimelock1 == timelock1' = TRUE
                 /\ UNCHANGED <<lockfile, timelock2, locktime, forced>>
MakeTimelock2 == NewTimelock2 /\ UNCHANGED <<lockfile, timelock1, forced>>

(***************************************************************************)
(* The lockfile is made by osfn_unlock, or, without having the lock, by    *)
(* osfn_initlock and by a process that breaks the lock.                    *)
(***************************************************************************)
MakeLockfile == lockfile' = TRUE
                /\ UNCHANGED <<timelock1, timelock2, locktime, forced>>
ForceLockfile(p) == lockfile' = TRUE /\ forced' = (forced \/ Others(p))
                    /\ UNCHANGED <<timelock1, timelock2, locktime>>
-----------------------------------------------------------------------------
Init ==
    /\ osfn \in (IF Removes THEN BOOLEAN ELSE {TRUE})
    /\ lockfile \in BOOLEAN /\ timelock1 \in BOOLEAN
    /\ timelock2 \in {Absent} \cup 0 .. LockPeriod
    /\ pc = [p \in Proc |-> "idle"]
    /\ copying = [p \in Proc |-> FALSE]
    /\ nsec = [p \in Proc |-> 0] /\ delay = [p \in Proc |-> 0]
    /\ created = [p \in Proc |-> FALSE]
    /\ locktime = [p \in Proc |-> NoTime]
    /\ forced = FALSE

(***************************************************************************)
(* VVFN_READMAPFILE: an existing mapping file is locked, a missing one is  *)
(* created and its lock files with it.  The error of osfn_initlock, when   *)
(* its last copy fails, is not checked by the caller: it aborts the task,  *)
(* or is held for an IFERR further up while osfn_lock is called anyway.    *)
(***************************************************************************)
EnterLock(p, label) ==
    /\ pc' = [pc EXCEPT ![p] = label]
    /\ nsec' = [nsec EXCEPT ![p] = 0] /\ delay' = [delay EXCEPT ![p] = 0]

Start(p) ==
    /\ At(p, "idle")
    /\ EnterLock(p, IF osfn THEN "try" ELSE "create")
    /\ locktime' = [locktime EXCEPT ![p] = NoTime]
    /\ UNCHANGED <<osfn, locks, copying, created, forced>>

Create(p) ==
    /\ At(p, "create")
    /\ osfn' = TRUE
    /\ Go(p, "init1")
    /\ created' = [created EXCEPT ![p] = TRUE]
    /\ UNCHANGED <<locks, copying, nsec, delay, locktime, forced>>

InitLock(p) ==
    \/ Copy(p, "init1", "init2", ForceLockfile(p))
    \/ Copy(p, "init2", "init3", MakeTimelock1)
    \/ Copy(p, "init3", "try", MakeTimelock2)
    \/ /\ At(p, "init3") /\ ~copying[p] /\ ~osfn
       /\ Go(p, "idle")
       /\ created' = [created EXCEPT ![p] = FALSE]
       /\ UNCHANGED <<osfn, locks, copying, nsec, delay, locktime, forced>>

(***************************************************************************)
(* OSFN_LOCK, the attempts to set the lock.  ZFACSS reports NO for a file  *)
(* that is gone, never ERR, so the test at its entry changes nothing.      *)
(***************************************************************************)
GrabUnasked(p) == Go(p, "set1") /\ UNCHANGED nsec     \* mutant: status unused
Grab(p) == lockfile /\ Go(p, "set1") /\ nsec' = [nsec EXCEPT ![p] = 0]

LastAttemptLate(p) == nsec[p] = WaitPeriod            \* mutant: < as <=
LastAttempt(p) == nsec[p] + 1 = WaitPeriod

Try(p) ==
    /\ At(p, "try")
    /\ lockfile' = FALSE
    /\ \/ Grab(p) /\ UNCHANGED delay
       \/ /\ ~lockfile /\ ~LastAttempt(p)
          /\ nsec' = [nsec EXCEPT ![p] = @ + 1]
          /\ UNCHANGED <<pc, delay>>
       \/ /\ ~lockfile /\ LastAttempt(p)
          /\ nsec' = [nsec EXCEPT ![p] = 0]
          /\ delay' = [delay EXCEPT ![p] = Capped(@ + WaitPeriod, MaxDelay)]
          /\ Go(p, "break")
    /\ UNCHANGED <<osfn, timelock1, timelock2, copying, created, locktime, forced>>

(***************************************************************************)
(* Who deletes timelock1 may break the lock; if timelock1 stays missing it *)
(* is made again after a long delay.                                       *)
(***************************************************************************)
GiveUpNever(p) == FALSE                                  \* mutant: no MAX_DELAY
GiveUp(p) == delay[p] >= MaxDelay

Break(p) ==
    /\ At(p, "break")
    /\ timelock1' = FALSE
    /\ \/ timelock1 /\ Go(p, "info")
       \/ ~timelock1 /\ GiveUp(p) /\ Go(p, "restore")
       \/ ~timelock1 /\ ~GiveUp(p) /\ Go(p, "try")
    /\ UNCHANGED <<osfn, lockfile, timelock2, locals, locktime, forced>>

Expired == timelock2 = Absent \/ timelock2 >= LockPeriod

Info(p) ==
    /\ At(p, "info")
    /\ Go(p, IF Expired THEN "break1" ELSE "restore")
    /\ UNCHANGED <<osfn, locks, locals, locktime, forced>>

BreakLock(p) ==
    \/ Copy(p, "break1", "break2", ForceLockfile(p))
    \/ /\ At(p, "break2") /\ Go(p, "break3")
       /\ DropTimelock2
       /\ UNCHANGED <<osfn, lockfile, timelock1, locals, forced>>
    \/ Copy(p, "break3", "break4", MakeTimelock2)

Restore(p) ==
    /\ pc[p] \in {"break4", "restore"}
    /\ \/ ~copying[p] /\ osfn /\ copying' = [copying EXCEPT ![p] = TRUE]
          /\ UNCHANGED <<pc, timelock1>>
       \/ ~copying[p] /\ ~osfn /\ Go(p, "try")
          /\ UNCHANGED <<copying, timelock1>>
       \/ copying[p] /\ copying' = [copying EXCEPT ![p] = FALSE]
          /\ timelock1' = TRUE /\ Go(p, "try")
    /\ UNCHANGED <<osfn, lockfile, timelock2, nsec, delay, created, locktime,
                   forced>>

(***************************************************************************)
(* setlock_: timelock2 is made anew and its time is the time of the lock.  *)
(* The status of ZFINFO is not looked at, so without a timelock2 the time  *)
(* is any.                                                                 *)
(***************************************************************************)
Times == IF timelock2 # Absent THEN {[age |-> timelock2, same |-> TRUE]}
         ELSE [age : 0 .. LockPeriod, same : {FALSE}]

SetLock(p) ==
    \/ /\ At(p, "set1") /\ Go(p, "set2")
       /\ DropTimelock2
       /\ UNCHANGED <<osfn, lockfile, timelock1, locals, forced>>
    \/ Copy(p, "set2", "set3", MakeTimelock2)
    \/ /\ At(p, "set3") /\ Go(p, "open")
       /\ \E t \in Times : locktime' = [locktime EXCEPT ![p] = t]
       /\ UNCHANGED <<osfn, locks, locals, forced>>

(***************************************************************************)
(* The mapping file is opened and read, unless the process created it.  If *)
(* it is gone, cannot be read or has a bad checksum, the error exit keeps  *)
(* the lock set.                                                           *)
(***************************************************************************)
Open(p) ==
    /\ At(p, "open")
    /\ \/ (created[p] \/ osfn) /\ Go(p, "held")
       \/ ~created[p] /\ Go(p, "idle")
    /\ created' = [created EXCEPT ![p] = FALSE]
    /\ UNCHANGED <<osfn, locks, copying, nsec, delay, locktime, forced>>
-----------------------------------------------------------------------------
(***************************************************************************)
(* VFNCLOSE: an update that has changed the map is written only if enough  *)
(* time is left on the lock, then the lock is given back, or the file and  *)
(* its locks are deleted if the map is empty.  What follows when too       *)
(* little time is left (rollback) is unlocking the file.                   *)
(***************************************************************************)
Close(p) ==
    /\ At(p, "held")
    /\ \/ Go(p, "check1")
       \/ Go(p, "unlock1")
       \/ Removes /\ Go(p, "remove")
    /\ UNCHANGED <<osfn, locks, locals, locktime, forced>>

Commit(p) ==
    /\ At(p, "commit")
    /\ \/ Go(p, "unlock1")
       \/ Removes /\ Go(p, "remove")
    /\ UNCHANGED <<osfn, locks, locals, locktime, forced>>

(***************************************************************************)
(* OSFN_TIMELEFT: two host calls, then next is where its caller goes.      *)
(***************************************************************************)
LockfileSeen(p, at, to, next(_)) ==
    /\ At(p, at)
    /\ Go(p, IF lockfile THEN next(ERR) ELSE to)
    /\ UNCHANGED <<osfn, locks, locals, locktime, forced>>

LeftAny(p) == LockPeriod - locktime[p].age     \* mutant: FI_CTIME not compared
Left(p) == IF timelock2 # Absent /\ locktime[p].same
           THEN LockPeriod - locktime[p].age ELSE ERR

TimelockSeen(p, at, next(_)) ==
    /\ At(p, at)
    /\ Go(p, next(Left(p)))
    /\ UNCHANGED <<osfn, locks, locals, locktime, forced>>

AfterCheck(left) == IF left < MinLeft THEN "unlock1" ELSE "commit"
AfterUnlockCheck(left) == IF left = ERR THEN "idle" ELSE "unlock3"

Check(p) == \/ LockfileSeen(p, "check1", "check2", AfterCheck)
            \/ TimelockSeen(p, "check2", AfterCheck)

(***************************************************************************)
(* OSFN_UNLOCK: the lockfile is made if the lock is still ours.            *)
(***************************************************************************)
Unlock(p) ==
    \/ LockfileSeen(p, "unlock1", "unlock2", AfterUnlockCheck)
    \/ TimelockSeen(p, "unlock2", AfterUnlockCheck)
    \/ Copy(p, "unlock3", "idle", MakeLockfile)

(***************************************************************************)
(* The mapping file is deleted, then its lock files (OSFN_RMLOCK).         *)
(***************************************************************************)
Remove(p) ==
    /\ At(p, "remove") /\ Go(p, "rmlock1")
    /\ osfn' = FALSE
    /\ UNCHANGED <<locks, locals, locktime, forced>>

RmLock(p) ==
    /\ \/ /\ At(p, "rmlock1") /\ Go(p, "rmlock2")
          /\ lockfile' = FALSE
          /\ UNCHANGED <<timelock1, timelock2, locktime>>
       \/ /\ At(p, "rmlock2") /\ Go(p, "rmlock3")
          /\ timelock1' = FALSE
          /\ UNCHANGED <<lockfile, timelock2, locktime>>
       \/ /\ At(p, "rmlock3") /\ Go(p, "idle")
          /\ DropTimelock2
          /\ UNCHANGED <<lockfile, timelock1>>
    /\ UNCHANGED <<osfn, locals, forced>>
-----------------------------------------------------------------------------
(***************************************************************************)
(* A process dies; what it has done to the files stays.                    *)
(***************************************************************************)
Die(p) ==
    /\ p \in Mortal /\ ~At(p, "dead")
    /\ Go(p, "dead")
    /\ copying' = [copying EXCEPT ![p] = FALSE]
    /\ created' = [created EXCEPT ![p] = FALSE]
    /\ UNCHANGED <<osfn, locks, nsec, delay, locktime, forced>>

(***************************************************************************)
(* A second passes.                                                        *)
(***************************************************************************)
Tick ==
    /\ timelock2' = IF timelock2 = Absent THEN Absent
                    ELSE Capped(timelock2 + 1, LockPeriod)
    /\ locktime' = [p \in Proc |-> [locktime[p] EXCEPT
                                       !.age = Capped(@ + 1, LockPeriod)]]
    /\ UNCHANGED <<osfn, lockfile, timelock1, pc, locals, forced>>

Step(p) ==
    \/ Create(p) \/ InitLock(p)
    \/ Try(p) \/ Break(p) \/ Info(p) \/ BreakLock(p) \/ Restore(p)
    \/ SetLock(p) \/ Open(p)
    \/ Close(p) \/ Check(p) \/ Commit(p) \/ Unlock(p)
    \/ Remove(p) \/ RmLock(p)

Next == (\E p \in Proc : Start(p) \/ Step(p) \/ Die(p)) \/ Tick

Spec == Init /\ [][Next]_vars

(***************************************************************************)
(* A living process goes on with the procedure it is in, and time passes.  *)
(***************************************************************************)
Fairness == WF_vars(Tick) /\ \A p \in Proc : WF_vars(Step(p))

FairSpec == Spec /\ Fairness
-----------------------------------------------------------------------------
(***************************************************************************)
(* Ages, attempts and labels stay in their ranges: osfn_lock makes at most *)
(* FILEWAIT_PERIOD attempts before it looks at timelock1.                  *)
(***************************************************************************)
TypeOK ==
    /\ osfn \in BOOLEAN /\ lockfile \in BOOLEAN /\ timelock1 \in BOOLEAN
    /\ timelock2 \in {Absent} \cup 0 .. LockPeriod
    /\ pc \in [Proc -> Labels]
    /\ copying \in [Proc -> BOOLEAN]
    /\ nsec \in [Proc -> 0 .. WaitPeriod - 1]
    /\ delay \in [Proc -> 0 .. MaxDelay]
    /\ created \in [Proc -> BOOLEAN]
    /\ locktime \in [Proc -> [age : 0 .. LockPeriod, same : BOOLEAN]]
    /\ forced \in BOOLEAN

(***************************************************************************)
(* The lock excludes: unless it was given away while it was held, by a     *)
(* process that broke it or made the lock files anew, at most one process  *)
(* is inside, and none while the lockfile exists (osfn_lock, osfn_unlock). *)
(***************************************************************************)
ExclusiveUnlessForced ==
    ~forced =>
        /\ \A p, q \in Proc : pc[p] \in Inside /\ pc[q] \in Inside => p = q
        /\ lockfile => \A p \in Proc : pc[p] \notin Inside

(***************************************************************************)
(* A process whose lock was broken and set again by another one in a later *)
(* second neither writes nor gives back the lock that is now the other's   *)
(* (osfn_timeleft compares the times, for vfnclose and osfn_unlock).       *)
(***************************************************************************)
Superseded(p, q) == locktime[q].same /\ locktime[q].age < locktime[p].age

SupersededStops ==
    [][ \A p, q \in Proc :
            pc[p] \in {"check2", "unlock2"} /\ pc'[p] \in {"commit", "unlock3"}
                => ~Superseded(p, q) ]_vars

(***************************************************************************)
(* Recovery from lockout: whatever state dead processes left the lock      *)
(* files in, if somebody waits for the lock then somebody gets it, unless  *)
(* the file is deleted (osfn_lock's MAX_DELAY and FILELOCK_PERIOD).        *)
(***************************************************************************)
InLoop == {"try", "break", "info", "break1", "break2", "break3", "break4",
           "restore"}
Waiting == \E p \in Proc : pc[p] \in InLoop
Recovers ==
    Waiting ~> (~Waiting \/ ~osfn \/ \E p \in Proc : pc[p] \in Inside)

(***************************************************************************)
(* "The locking protocol must guarantee that only one process can be in    *)
(* the critical section at a time" (vfn.hlp), and least of all write.      *)
(***************************************************************************)
OneWriter == \A p, q \in Proc : At(p, "commit") /\ At(q, "commit") => p = q
=============================================================================
