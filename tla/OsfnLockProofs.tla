--------------------------- MODULE OsfnLockProofs ---------------------------
(***************************************************************************)
(* What OsfnLock promises for any number of processes and any periods:     *)
(* type correctness, exclusion as long as no held lock is given away, and  *)
(* that a process whose lock was set again later acts no more.             *)
(***************************************************************************)
EXTENDS OsfnLock, TLAPS

USE DEF At, locks, locals

Ages == 0 .. LockPeriod
Stamps == [age : Ages, same : BOOLEAN]

(***************************************************************************)
(* The label of one process changes to another label.                      *)
(***************************************************************************)
LEMMA LabelNames ==
    /\ Inside \subseteq Labels
    /\ {"idle", "create", "init1", "init2", "init3", "try", "break", "info",
        "break1", "break2", "break3", "break4", "restore", "rmlock1",
        "rmlock2", "rmlock3", "dead"} \subseteq Labels
    /\ {"set1", "set2", "set3", "open", "held", "check1", "check2", "commit",
        "unlock1", "unlock2", "unlock3", "remove"} = Inside
  BY DEF Labels, Inside

(***************************************************************************)
(* A jump to a label keeps pc a function to labels.                        *)
(***************************************************************************)
LEMMA GoTyped ==
  ASSUME pc \in [Proc -> Labels], NEW p \in Proc, NEW label \in Labels,
         Go(p, label)
  PROVE  pc' \in [Proc -> Labels]
  BY DEF Go

(***************************************************************************)
(* Making and deleting timelock2 keeps the times of the locks in range.    *)
(***************************************************************************)
LEMMA Timelock2Typed ==
  ASSUME TypeOK, NewTimelock2 \/ DropTimelock2
  PROVE  /\ timelock2' \in {Absent} \cup 0 .. LockPeriod
         /\ locktime' \in [Proc -> Stamps]
<1>1. \A q \in Proc, b \in BOOLEAN : [locktime[q] EXCEPT !.same = b] \in Stamps
  BY DEF TypeOK, Stamps, Ages
<1>2. CASE NewTimelock2
  <2>1. \A q \in Proc : (locktime[q].age = 0) \in BOOLEAN
    OBVIOUS
  <2>2. locktime' \in [Proc -> Stamps]
    BY <1>1, <1>2, <2>1, Zenon DEF NewTimelock2
  <2>3. timelock2' \in 0 .. LockPeriod
    BY <1>2, PeriodAssumption DEF NewTimelock2
  <2> QED BY <2>2, <2>3
<1>3. CASE DropTimelock2
  BY <1>1, <1>3 DEF DropTimelock2
<1> QED BY <1>2, <1>3

(***************************************************************************)
(* Init establishes the type invariant.                                    *)
(***************************************************************************)
LEMMA TypeInit == Init => TypeOK
<1> SUFFICES ASSUME Init PROVE TypeOK
  OBVIOUS
<1> USE PeriodAssumption, MortalAssumption DEF Init, TypeOK
<1>1. NoTime \in Stamps
  BY DEF NoTime, Stamps, Ages
<1>2. locktime \in [Proc -> [age : 0 .. LockPeriod, same : BOOLEAN]]
  BY <1>1 DEF Stamps, Ages
<1>3. pc \in [Proc -> Labels]
  BY LabelNames
<1>4. osfn \in BOOLEAN
  OBVIOUS
<1>5. /\ nsec \in [Proc -> 0 .. WaitPeriod - 1]
      /\ delay \in [Proc -> 0 .. MaxDelay]
  OBVIOUS
<1> QED BY <1>2, <1>3, <1>4, <1>5

(***************************************************************************)
(* Both halves of ZFMKCP keep the types.                                   *)
(***************************************************************************)
LEMMA CopyTyped ==
  ASSUME TypeOK, NEW p \in Proc, NEW at \in Labels, NEW to \in Labels,
         \/ Copy(p, at, to, MakeTimelock1)
         \/ Copy(p, at, to, MakeTimelock2)
         \/ Copy(p, at, to, MakeLockfile)
         \/ Copy(p, at, to, ForceLockfile(p))
  PROVE  TypeOK'
<1>1. CASE Copy(p, at, to, MakeTimelock1)
  BY <1>1, GoTyped DEF Copy, MakeTimelock1, TypeOK
<1>2. CASE Copy(p, at, to, MakeTimelock2)
  BY <1>2, GoTyped, Timelock2Typed DEF Copy, MakeTimelock2, TypeOK, Stamps, Ages
<1>3. CASE Copy(p, at, to, MakeLockfile)
  BY <1>3, GoTyped DEF Copy, MakeLockfile, TypeOK
<1>4. CASE Copy(p, at, to, ForceLockfile(p))
  BY <1>4, GoTyped DEF Copy, ForceLockfile, Others, TypeOK
<1> QED BY <1>1, <1>2, <1>3, <1>4

(***************************************************************************)
(* Beginning an update (vvfn_readmapfile) keeps the types.                 *)
(***************************************************************************)
LEMMA StartTyped == ASSUME TypeOK, NEW p \in Proc, Start(p) PROVE TypeOK'
<1>1. NoTime \in Stamps
  BY PeriodAssumption DEF NoTime, Stamps, Ages
<1>2. pc' \in [Proc -> Labels]
  BY LabelNames DEF Start, EnterLock, TypeOK
<1> QED BY <1>1, <1>2, PeriodAssumption DEF Start, EnterLock, TypeOK, Stamps, Ages

(***************************************************************************)
(* An attempt to delete the lockfile (osfn_lock) keeps the types.          *)
(***************************************************************************)
LEMMA TryTyped == ASSUME TypeOK, NEW p \in Proc, Try(p) PROVE TypeOK'
<1>1. pc' \in [Proc -> Labels]
  BY LabelNames, GoTyped DEF Try, Grab, TypeOK
<1>2. nsec' \in [Proc -> 0 .. WaitPeriod - 1]
  <2>1. nsec[p] \in 0 .. WaitPeriod - 1 /\ WaitPeriod \in Nat \ {0}
    BY PeriodAssumption DEF TypeOK
  <2>2. 0 \in 0 .. WaitPeriod - 1
    BY <2>1
  <2>3. ~LastAttempt(p) => nsec[p] + 1 \in 0 .. WaitPeriod - 1
    BY <2>1 DEF LastAttempt
  <2> QED BY <2>2, <2>3 DEF Try, Grab, TypeOK
<1>3. delay' \in [Proc -> 0 .. MaxDelay]
  BY PeriodAssumption DEF Try, Grab, Capped, TypeOK
<1> QED BY <1>1, <1>2, <1>3 DEF Try, TypeOK

(***************************************************************************)
(* Giving up or deleting timelock1 (osfn_lock) keeps the types.            *)
(***************************************************************************)
LEMMA BreakTyped == ASSUME TypeOK, NEW p \in Proc, Break(p) PROVE TypeOK'
<1>1. pc' \in [Proc -> Labels]
  BY LabelNames, GoTyped DEF Break, TypeOK
<1> QED BY <1>1 DEF Break, TypeOK

(***************************************************************************)
(* Making timelock1 again (osfn_lock) keeps the types.                     *)
(***************************************************************************)
LEMMA RestoreTyped == ASSUME TypeOK, NEW p \in Proc, Restore(p) PROVE TypeOK'
<1>1. pc' \in [Proc -> Labels]
  BY LabelNames, GoTyped DEF Restore, TypeOK
<1> QED BY <1>1 DEF Restore, TypeOK

(***************************************************************************)
(* Breaking the lock (osfn_lock) keeps the types.                          *)
(***************************************************************************)
LEMMA BreakLockTyped ==
  ASSUME TypeOK, NEW p \in Proc, BreakLock(p) PROVE TypeOK'
<1>1. CASE At(p, "break2") /\ Go(p, "break3") /\ DropTimelock2
           /\ UNCHANGED <<osfn, lockfile, timelock1, locals, forced>>
  BY <1>1, LabelNames, GoTyped, Timelock2Typed DEF TypeOK, Stamps, Ages
<1>2. CASE ~(At(p, "break2") /\ DropTimelock2)
  BY <1>2, CopyTyped, LabelNames DEF BreakLock
<1> QED BY <1>1, <1>2 DEF BreakLock, Copy

(***************************************************************************)
(* Making the lock files (osfn_initlock) keeps the types.                  *)
(***************************************************************************)
LEMMA InitLockTyped ==
  ASSUME TypeOK, NEW p \in Proc, InitLock(p) PROVE TypeOK'
<1>1. CASE \/ Copy(p, "init1", "init2", ForceLockfile(p))
           \/ Copy(p, "init2", "init3", MakeTimelock1)
           \/ Copy(p, "init3", "try", MakeTimelock2)
  BY <1>1, CopyTyped, LabelNames
<1>2. CASE /\ Go(p, "idle") /\ created' = [created EXCEPT ![p] = FALSE]
           /\ UNCHANGED <<osfn, locks, copying, nsec, delay, locktime, forced>>
  BY <1>2, LabelNames, GoTyped DEF TypeOK
<1> QED BY <1>1, <1>2 DEF InitLock

(***************************************************************************)
(* Dating the new lock (setlock_ of osfn_lock) keeps the types.            *)
(***************************************************************************)
LEMMA SetLockTyped ==
  ASSUME TypeOK, NEW p \in Proc, SetLock(p) PROVE TypeOK'
<1>1. CASE At(p, "set1") /\ Go(p, "set2") /\ DropTimelock2
           /\ UNCHANGED <<osfn, lockfile, timelock1, locals, forced>>
  BY <1>1, LabelNames, GoTyped, Timelock2Typed DEF TypeOK, Stamps, Ages
<1>2. CASE Copy(p, "set2", "set3", MakeTimelock2)
  BY <1>2, CopyTyped, LabelNames
<1>3. CASE At(p, "set3") /\ Go(p, "open")
           /\ (\E t \in Times : locktime' = [locktime EXCEPT ![p] = t])
           /\ UNCHANGED <<osfn, locks, locals, forced>>
  <2>1. Times \subseteq Stamps
    <3>1. CASE timelock2 # Absent
      <4>1. timelock2 \in Ages /\ TRUE \in BOOLEAN
        BY <3>1 DEF TypeOK, Ages
      <4>2. [age |-> timelock2, same |-> TRUE] \in Stamps
        BY <4>1 DEF Stamps
      <4> QED BY <3>1, <4>2 DEF Times
    <3>2. CASE timelock2 = Absent
      <4>1. \A t \in [age : 0 .. LockPeriod, same : {FALSE}] : t \in Stamps
        BY DEF Stamps, Ages
      <4> QED BY <3>2, <4>1 DEF Times
    <3> QED BY <3>1, <3>2
  <2> QED BY <1>3, <2>1, LabelNames, GoTyped DEF TypeOK, Stamps, Ages
<1> QED BY <1>1, <1>2, <1>3 DEF SetLock

(***************************************************************************)
(* Looking at the time left (osfn_timeleft) keeps the types.               *)
(***************************************************************************)
LEMMA CheckTyped ==
  ASSUME TypeOK, NEW p \in Proc, Check(p) \/ Unlock(p) PROVE TypeOK'
<1>1. CASE Copy(p, "unlock3", "idle", MakeLockfile)
  BY <1>1, CopyTyped, LabelNames
<1>2. CASE ~Copy(p, "unlock3", "idle", MakeLockfile)
  <2>1. PICK label \in Labels : Go(p, label)
    BY <1>2, LabelNames DEF Check, Unlock, LockfileSeen, TimelockSeen,
       AfterCheck, AfterUnlockCheck
  <2>2. UNCHANGED <<osfn, locks, locals, locktime, forced>>
    BY <1>2 DEF Check, Unlock, LockfileSeen, TimelockSeen
  <2> QED BY <2>1, <2>2, GoTyped DEF TypeOK
<1> QED BY <1>1, <1>2

(***************************************************************************)
(* Deleting the lock files (osfn_rmlock) keeps the types.                  *)
(***************************************************************************)
LEMMA RmLockTyped ==
  ASSUME TypeOK, NEW p \in Proc, RmLock(p) PROVE TypeOK'
<1>1. pc' \in [Proc -> Labels]
  BY LabelNames, GoTyped DEF RmLock, TypeOK
<1>2. /\ timelock2' \in {Absent} \cup 0 .. LockPeriod
      /\ locktime' \in [Proc -> Stamps]
  BY Timelock2Typed DEF RmLock, TypeOK, Stamps, Ages
<1> QED BY <1>1, <1>2 DEF RmLock, TypeOK, Stamps, Ages

(***************************************************************************)
(* So do the remaining steps of a process, and its death.                  *)
(***************************************************************************)
LEMMA OtherTyped ==
  ASSUME TypeOK, NEW p \in Proc,
         Create(p) \/ Info(p) \/ Open(p) \/ Close(p) \/ Commit(p)
           \/ Remove(p) \/ Die(p)
  PROVE  TypeOK'
<1>1. pc' \in [Proc -> Labels]
  BY LabelNames, GoTyped
     DEF Create, Info, Open, Close, Commit, Remove, Die, TypeOK
<1> QED BY <1>1
     DEF Create, Info, Open, Close, Commit, Remove, Die, TypeOK

(***************************************************************************)
(* A second that passes keeps the types.                                   *)
(***************************************************************************)
LEMMA TickTyped == ASSUME TypeOK, Tick PROVE TypeOK'
<1>1. timelock2' \in {Absent} \cup 0 .. LockPeriod
  BY PeriodAssumption DEF Tick, Capped, TypeOK, Absent
<1>2. locktime' \in [Proc -> Stamps]
  <2>1. \A q \in Proc : locktime[q] \in Stamps
    BY DEF TypeOK, Stamps, Ages
  <2>2. \A t \in Stamps : Capped(t.age + 1, LockPeriod) \in Ages
    BY PeriodAssumption DEF Capped, Stamps, Ages
  <2>3. \A t \in Stamps, n \in Ages : [t EXCEPT !.age = n] \in Stamps
    BY DEF Stamps
  <2> QED BY <2>1, <2>2, <2>3 DEF Tick
<1> QED BY <1>1, <1>2 DEF Tick, TypeOK, Stamps, Ages

(***************************************************************************)
(* The ages, labels and attempts of osfn_lock stay in their ranges,        *)
(* whatever the processes, the clock and the crashes do.                   *)
(***************************************************************************)
THEOREM LockTypeCorrect == Spec => []TypeOK
<1>1. TypeOK /\ [Next]_vars => TypeOK'
  <2> SUFFICES ASSUME TypeOK, [Next]_vars PROVE TypeOK'
    OBVIOUS
  <2>1. CASE UNCHANGED vars
    BY <2>1 DEF vars, TypeOK
  <2>2. CASE Tick
    BY <2>2, TickTyped
  <2>3. ASSUME NEW p \in Proc, Start(p) PROVE TypeOK'
    BY <2>3, StartTyped
  <2>4. ASSUME NEW p \in Proc, Step(p) PROVE TypeOK'
    BY <2>4, InitLockTyped, TryTyped, BreakTyped, BreakLockTyped,
       RestoreTyped, SetLockTyped, CheckTyped, RmLockTyped, OtherTyped
       DEF Step
  <2>5. ASSUME NEW p \in Proc, Die(p) PROVE TypeOK'
    BY <2>5, OtherTyped
  <2> QED BY <2>1, <2>2, <2>3, <2>4, <2>5 DEF Next
<1> QED BY <1>1, TypeInit, PTL DEF Spec
-----------------------------------------------------------------------------
(***************************************************************************)
(* A step that sets nothing free, and in which at most the process p       *)
(* moves, and not into the lock, keeps the exclusion.                      *)
(***************************************************************************)
OnlyMoves(p) == \A q \in Proc \ {p} : pc'[q] = pc[q]
EntersNot(p) == pc'[p] \in Inside => pc[p] \in Inside

(***************************************************************************)
(* Such a step preserves ExclusiveUnlessForced.                            *)
(***************************************************************************)
LEMMA StaysExclusive ==
  ASSUME ExclusiveUnlessForced, NEW p \in Proc, OnlyMoves(p), EntersNot(p),
         lockfile' => lockfile, forced' = forced
  PROVE  ExclusiveUnlessForced'
<1>1. \A q \in Proc : pc'[q] \in Inside => pc[q] \in Inside
  BY DEF OnlyMoves, EntersNot
<1> QED BY <1>1 DEF ExclusiveUnlessForced

(***************************************************************************)
(* The holder that gives the lock back is the only one inside.             *)
(***************************************************************************)
LEMMA LeavesExclusive ==
  ASSUME ExclusiveUnlessForced, NEW p \in Proc, OnlyMoves(p),
         pc[p] \in Inside, pc'[p] \notin Inside, forced' = forced
  PROVE  ExclusiveUnlessForced'
<1>1. ASSUME ~forced, NEW q \in Proc PROVE pc'[q] \notin Inside
  <2>1. CASE q = p
    BY <2>1
  <2>2. CASE q # p
    BY <1>1, <2>2 DEF OnlyMoves, ExclusiveUnlessForced
  <2> QED BY <2>1, <2>2
<1> QED BY <1>1 DEF ExclusiveUnlessForced

(***************************************************************************)
(* A process outside that makes the lockfile notes whether it gives away   *)
(* a lock that is held.                                                    *)
(***************************************************************************)
LEMMA ForcesExclusive ==
  ASSUME ExclusiveUnlessForced, NEW p \in Proc, OnlyMoves(p),
         pc[p] \notin Inside, pc'[p] \notin Inside, ForceLockfile(p)
  PROVE  ExclusiveUnlessForced'
<1>1. ASSUME ~forced', NEW q \in Proc PROVE pc'[q] \notin Inside
  <2>1. CASE q = p
    BY <2>1
  <2>2. CASE q # p
    BY <1>1, <2>2 DEF OnlyMoves, ForceLockfile, Others
  <2> QED BY <2>1, <2>2
<1> QED BY <1>1 DEF ExclusiveUnlessForced

(***************************************************************************)
(* Who deletes the lockfile, and found it, is the only one inside.         *)
(***************************************************************************)
LEMMA EntersExclusive ==
  ASSUME ExclusiveUnlessForced, NEW p \in Proc, OnlyMoves(p),
         lockfile, lockfile' = FALSE, forced' = forced
  PROVE  ExclusiveUnlessForced'
<1>1. ASSUME ~forced, NEW q \in Proc, pc'[q] \in Inside PROVE q = p
  BY <1>1 DEF OnlyMoves, ExclusiveUnlessForced
<1> QED BY <1>1 DEF ExclusiveUnlessForced

(***************************************************************************)
(* A jump moves only the process that jumps.                               *)
(***************************************************************************)
LEMMA GoMoves ==
  ASSUME pc \in [Proc -> Labels], NEW p \in Proc, NEW label, Go(p, label)
  PROVE  OnlyMoves(p) /\ pc'[p] = label
  BY DEF Go, OnlyMoves

(***************************************************************************)
(* The labels outside of the lock are not among those inside.              *)
(***************************************************************************)
LEMMA OutsideNames ==
  /\ {"idle", "create", "init1", "init2", "init3", "try", "break", "info",
      "break1", "break2", "break3", "break4", "restore", "rmlock1",
      "rmlock2", "rmlock3", "dead"} \cap Inside = {}
  BY DEF Inside

(***************************************************************************)
(* The copies of the lock files that set nothing free.                     *)
(***************************************************************************)
LEMMA CopyExclusive ==
  ASSUME TypeOK, ExclusiveUnlessForced, NEW p \in Proc, NEW at, NEW to,
         to \in Inside => at \in Inside,
         Copy(p, at, to, MakeTimelock1) \/ Copy(p, at, to, MakeTimelock2)
  PROVE  ExclusiveUnlessForced'
<1>1. (lockfile' => lockfile) /\ forced' = forced
  BY DEF Copy, MakeTimelock1, MakeTimelock2
<1>2. pc' = pc \/ (Go(p, to) /\ pc[p] = at)
  BY DEF Copy
<1>3. OnlyMoves(p) /\ EntersNot(p)
  BY <1>2, GoMoves DEF TypeOK, OnlyMoves, EntersNot
<1> QED BY <1>1, <1>3, StaysExclusive

(***************************************************************************)
(* A ZFMKCP that makes the lockfile while it may be held records it.       *)
(***************************************************************************)
LEMMA CopyForces ==
  ASSUME TypeOK, ExclusiveUnlessForced, NEW p \in Proc, NEW at, NEW to,
         to \notin Inside, at \notin Inside,
         Copy(p, at, to, ForceLockfile(p))
  PROVE  ExclusiveUnlessForced'
<1>1. CASE copying[p] /\ Go(p, to) /\ ForceLockfile(p)
  BY <1>1, GoMoves, ForcesExclusive DEF Copy, TypeOK
<1>2. CASE UNCHANGED <<locks, forced>> /\ (pc' = pc \/ Go(p, to))
  <2>1. OnlyMoves(p) /\ EntersNot(p)
    BY <1>2, GoMoves DEF TypeOK, OnlyMoves, EntersNot
  <2> QED BY <1>2, <2>1, StaysExclusive
<1> QED BY <1>1, <1>2 DEF Copy

(***************************************************************************)
(* Giving the lock back (osfn_unlock) leaves nobody inside.                *)
(***************************************************************************)
LEMMA UnlockExclusive ==
  ASSUME TypeOK, ExclusiveUnlessForced, NEW p \in Proc,
         Copy(p, "unlock3", "idle", MakeLockfile)
  PROVE  ExclusiveUnlessForced'
<1>1. CASE copying[p] /\ Go(p, "idle") /\ MakeLockfile
  <2>1. pc[p] \in Inside /\ "idle" \notin Inside
    BY LabelNames, OutsideNames DEF Copy
  <2> QED BY <1>1, <2>1, GoMoves, LeavesExclusive DEF MakeLockfile, TypeOK
<1>2. CASE UNCHANGED <<locks, forced>> /\ (pc' = pc \/ Go(p, "idle"))
  <2>1. OnlyMoves(p) /\ EntersNot(p)
    BY <1>2, GoMoves, OutsideNames DEF TypeOK, OnlyMoves, EntersNot
  <2> QED BY <1>2, <2>1, StaysExclusive
<1> QED BY <1>1, <1>2 DEF Copy

(***************************************************************************)
(* Deleting the lockfile lets in one process, when nobody is (osfn_lock).  *)
(***************************************************************************)
LEMMA TryExclusive ==
  ASSUME TypeOK, ExclusiveUnlessForced, NEW p \in Proc, Try(p)
  PROVE  ExclusiveUnlessForced'
<1>1. CASE Grab(p)
  BY <1>1, GoMoves, EntersExclusive DEF Try, Grab, TypeOK
<1>2. CASE ~Grab(p)
  <2>1. pc' = pc \/ Go(p, "break")
    BY <1>2 DEF Try
  <2>2. OnlyMoves(p) /\ EntersNot(p)
    BY <2>1, GoMoves, OutsideNames DEF TypeOK, OnlyMoves, EntersNot
  <2> QED BY <2>2, StaysExclusive DEF Try
<1> QED BY <1>1, <1>2

(***************************************************************************)
(* The other actions of a process leave the lockfile or delete it, and     *)
(* only those who are inside stay inside.                                  *)
(***************************************************************************)
LEMMA OthersExclusive ==
  ASSUME TypeOK, ExclusiveUnlessForced, NEW p \in Proc,
         \/ Start(p) \/ Create(p) \/ Break(p) \/ Info(p) \/ Restore(p)
         \/ Open(p) \/ Close(p) \/ Check(p) \/ Commit(p)
         \/ Remove(p) \/ RmLock(p) \/ Die(p)
  PROVE  ExclusiveUnlessForced'
<1>1. (lockfile' => lockfile) /\ forced' = forced
  BY DEF Start, Create, Break, Info, Restore, Open, Close, Check, Commit,
     Remove, RmLock, Die, LockfileSeen, TimelockSeen
<1>2. \/ pc' = pc
      \/ \E label : /\ pc' = [pc EXCEPT ![p] = label]
                    /\ label \in Inside => pc[p] \in Inside
  BY OutsideNames, LabelNames
     DEF Start, EnterLock, Create, Break, Info, Restore, Open, Close, Check,
         Commit, Remove, RmLock, Die, LockfileSeen, TimelockSeen, AfterCheck,
         Go
<1>3. OnlyMoves(p) /\ EntersNot(p)
  BY <1>2 DEF TypeOK, OnlyMoves, EntersNot
<1> QED BY <1>1, <1>3, StaysExclusive

(***************************************************************************)
(* Dating the lock lets nobody in (setlock_ of osfn_lock).                 *)
(***************************************************************************)
LEMMA SetLockExclusive ==
  ASSUME TypeOK, ExclusiveUnlessForced, NEW p \in Proc, SetLock(p)
  PROVE  ExclusiveUnlessForced'
<1>1. CASE Copy(p, "set2", "set3", MakeTimelock2)
  BY <1>1, CopyExclusive, LabelNames
<1>2. CASE ~Copy(p, "set2", "set3", MakeTimelock2)
  <2>1. UNCHANGED <<lockfile, forced>>
    BY <1>2 DEF SetLock
  <2>2. \E label : Go(p, label) /\ pc[p] \in Inside
    BY <1>2, LabelNames DEF SetLock
  <2>3. OnlyMoves(p) /\ EntersNot(p)
    BY <2>2, GoMoves DEF TypeOK, EntersNot
  <2> QED BY <2>1, <2>3, StaysExclusive
<1> QED BY <1>1, <1>2

(***************************************************************************)
(* Breaking a lock that is held records it (osfn_lock).                    *)
(***************************************************************************)
LEMMA BreakLockExclusive ==
  ASSUME TypeOK, ExclusiveUnlessForced, NEW p \in Proc,
         BreakLock(p) \/ InitLock(p)
  PROVE  ExclusiveUnlessForced'
<1>1. CASE \/ Copy(p, "break1", "break2", ForceLockfile(p))
           \/ Copy(p, "init1", "init2", ForceLockfile(p))
  BY <1>1, CopyForces, OutsideNames
<1>2. CASE \/ Copy(p, "break3", "break4", MakeTimelock2)
           \/ Copy(p, "init2", "init3", MakeTimelock1)
           \/ Copy(p, "init3", "try", MakeTimelock2)
  BY <1>2, CopyExclusive, OutsideNames
<1>3. CASE /\ Go(p, "break3") \/ Go(p, "idle")
           /\ UNCHANGED <<lockfile, forced>>
  <2>1. OnlyMoves(p) /\ EntersNot(p)
    BY <1>3, GoMoves, OutsideNames DEF TypeOK, EntersNot
  <2> QED BY <1>3, <2>1, StaysExclusive
<1> QED BY <1>1, <1>2, <1>3 DEF BreakLock, InitLock

(***************************************************************************)
(* Every step of osfn_unlock keeps the exclusion.                          *)
(***************************************************************************)
LEMMA AllUnlockExclusive ==
  ASSUME TypeOK, ExclusiveUnlessForced, NEW p \in Proc, Unlock(p)
  PROVE  ExclusiveUnlessForced'
<1>1. CASE Copy(p, "unlock3", "idle", MakeLockfile)
  BY <1>1, UnlockExclusive
<1>2. CASE ~Copy(p, "unlock3", "idle", MakeLockfile)
  <2>1. UNCHANGED <<lockfile, forced>>
    BY <1>2 DEF Unlock, LockfileSeen, TimelockSeen
  <2>2. \E label : Go(p, label) /\ pc[p] \in Inside
    BY <1>2, LabelNames DEF Unlock, LockfileSeen, TimelockSeen
  <2>3. OnlyMoves(p) /\ EntersNot(p)
    BY <2>2, GoMoves DEF TypeOK, EntersNot
  <2> QED BY <2>1, <2>3, StaysExclusive
<1> QED BY <1>1, <1>2

(***************************************************************************)
(* Exclusion for any number of processes: two processes are inside only    *)
(* after a process that broke the lock, or made the lock files anew, has   *)
(* given away a lock that was held.                                        *)
(***************************************************************************)
THEOREM LockExcludes == Spec => []ExclusiveUnlessForced
<1>1. Init => ExclusiveUnlessForced
  BY OutsideNames DEF Init, ExclusiveUnlessForced
<1>2. TypeOK /\ ExclusiveUnlessForced /\ [Next]_vars => ExclusiveUnlessForced'
  <2> SUFFICES ASSUME TypeOK, ExclusiveUnlessForced, [Next]_vars
               PROVE  ExclusiveUnlessForced'
    OBVIOUS
  <2>1. CASE UNCHANGED vars
    BY <2>1 DEF vars, ExclusiveUnlessForced
  <2>2. CASE Tick
    BY <2>2 DEF Tick, ExclusiveUnlessForced
  <2>3. ASSUME NEW p \in Proc, Start(p) \/ Die(p)
        PROVE  ExclusiveUnlessForced'
    BY <2>3, OthersExclusive
  <2>4. ASSUME NEW p \in Proc, Step(p) PROVE ExclusiveUnlessForced'
    BY <2>4, TryExclusive, OthersExclusive, SetLockExclusive,
       BreakLockExclusive, AllUnlockExclusive DEF Step
  <2> QED BY <2>1, <2>2, <2>3, <2>4 DEF Next
<1> QED BY <1>1, <1>2, LockTypeCorrect, PTL DEF Spec
-----------------------------------------------------------------------------
(***************************************************************************)
(* The time of a lock that is the time of timelock2 has its age: what      *)
(* osfn_timeleft's comparison of the two rests on.                         *)
(***************************************************************************)
SameAge == \A p \in Proc : locktime[p].same => locktime[p].age = timelock2

(***************************************************************************)
(* Making timelock2 anew, or deleting it, makes every earlier time differ. *)
(***************************************************************************)
LEMMA Timelock2Same ==
  ASSUME TypeOK, NewTimelock2 \/ DropTimelock2
  PROVE  SameAge'
<1> \A q \in Proc : locktime[q] \in Stamps
  BY DEF TypeOK, Stamps, Ages
<1>1. CASE NewTimelock2
  <2> SUFFICES ASSUME NEW q \in Proc, locktime'[q].same
               PROVE  locktime'[q].age = timelock2'
    BY DEF SameAge
  <2>1. /\ locktime'[q].same = (locktime[q].age = 0)
        /\ locktime'[q].age = locktime[q].age
    BY <1>1 DEF NewTimelock2, Stamps
  <2> QED BY <1>1, <2>1 DEF NewTimelock2
<1>2. CASE DropTimelock2
  <2> SUFFICES ASSUME NEW q \in Proc, locktime'[q].same
               PROVE  locktime'[q].age = timelock2'
    BY DEF SameAge
  <2>1. locktime'[q].same = FALSE
    BY <1>2 DEF DropTimelock2, Stamps
  <2> QED BY <2>1
<1> QED BY <1>1, <1>2 DEF SameAge

(***************************************************************************)
(* Beginning an update leaves the times alone.                             *)
(***************************************************************************)
LEMMA StartSame ==
  ASSUME TypeOK, SameAge, NEW p \in Proc, Start(p)
  PROVE  SameAge'
<1> SUFFICES ASSUME NEW q \in Proc, locktime'[q].same
             PROVE  locktime'[q].age = timelock2'
  BY DEF SameAge
<1>1. locktime'[q] = NoTime \/ locktime'[q] = locktime[q]
  BY DEF Start, TypeOK
<1> QED BY <1>1 DEF Start, SameAge, NoTime

(***************************************************************************)
(* The time remembered is that of the timelock2 just made (setlock_).      *)
(***************************************************************************)
LEMMA SetLockSame ==
  ASSUME TypeOK, SameAge, NEW p \in Proc, SetLock(p)
  PROVE  SameAge'
<1>1. CASE NewTimelock2 \/ DropTimelock2
  BY <1>1, Timelock2Same
<1>2. CASE UNCHANGED <<timelock2, locktime>>
  BY <1>2 DEF SameAge
<1>3. CASE /\ \E t \in Times : locktime' = [locktime EXCEPT ![p] = t]
           /\ timelock2' = timelock2
  <2> SUFFICES ASSUME NEW q \in Proc, locktime'[q].same
               PROVE  locktime'[q].age = timelock2'
    BY DEF SameAge
  <2>1. \A t \in Times : t.same => t.age = timelock2
    <3>1. \A t \in [age : 0 .. LockPeriod, same : {FALSE}] : t.same = FALSE
      OBVIOUS
    <3>2. CASE timelock2 # Absent
      BY <3>2 DEF Times
    <3>3. CASE timelock2 = Absent
      <4>1. Times = [age : 0 .. LockPeriod, same : {FALSE}]
        BY <3>3 DEF Times
      <4> SUFFICES ASSUME NEW t \in Times PROVE t.same = FALSE
        OBVIOUS
      <4> QED BY <3>1, <4>1
    <3> QED BY <3>2, <3>3
  <2>2. locktime'[q] \in Times \/ locktime'[q] = locktime[q]
    BY <1>3 DEF TypeOK
  <2> QED BY <1>3, <2>1, <2>2 DEF SameAge
<1> QED BY <1>1, <1>2, <1>3 DEF SetLock, Copy, MakeTimelock2

(***************************************************************************)
(* A second that passes ages a lock and timelock2 alike.                   *)
(***************************************************************************)
LEMMA TickSame == ASSUME TypeOK, SameAge, Tick PROVE SameAge'
<1> SUFFICES ASSUME NEW q \in Proc, locktime'[q].same
             PROVE  locktime'[q].age = timelock2'
  BY DEF SameAge
<1>1. /\ locktime[q] \in Stamps
      /\ timelock2 \in {Absent} \cup 0 .. LockPeriod
  BY DEF TypeOK, Stamps, Ages
<1>2. /\ locktime'[q].same = locktime[q].same
      /\ locktime'[q].age = Capped(locktime[q].age + 1, LockPeriod)
  BY <1>1 DEF Tick, Stamps
<1>3. ASSUME locktime[q].same PROVE timelock2 # Absent
  BY <1>1, <1>3, PeriodAssumption DEF SameAge, Stamps, Ages, Absent
<1> QED BY <1>2, <1>3 DEF Tick, SameAge

(***************************************************************************)
(* The remaining steps leave the times alone.                              *)
(***************************************************************************)
LEMMA OtherSame ==
  ASSUME TypeOK, SameAge, NEW p \in Proc, Step(p), ~SetLock(p)
  PROVE  SameAge'
<1>1. \/ NewTimelock2 \/ DropTimelock2
      \/ UNCHANGED <<timelock2, locktime>>
  BY DEF Step, Create, InitLock, Try, Break, Info, BreakLock, Restore, Open,
     Close, Check, Commit, Unlock, Remove, RmLock, Copy, MakeTimelock1,
     MakeTimelock2, MakeLockfile, ForceLockfile, LockfileSeen, TimelockSeen
<1> QED BY <1>1, Timelock2Same DEF SameAge

(***************************************************************************)
(* A remembered time that is still timelock2's has its age, always.        *)
(***************************************************************************)
LEMMA SameAgeInvariant == Spec => []SameAge
<1>1. Init => SameAge
  BY DEF Init, SameAge, NoTime
<1>2. TypeOK /\ SameAge /\ [Next]_vars => SameAge'
  <2> SUFFICES ASSUME TypeOK, SameAge, [Next]_vars PROVE SameAge'
    OBVIOUS
  <2>1. CASE UNCHANGED vars
    BY <2>1 DEF vars, SameAge
  <2>2. ASSUME NEW p \in Proc, Die(p) PROVE SameAge'
    BY <2>2 DEF Die, SameAge
  <2> QED BY <2>1, <2>2, TickSame, StartSame, SetLockSame, OtherSame DEF Next
<1> QED BY <1>1, <1>2, LockTypeCorrect, PTL DEF Spec

(***************************************************************************)
(* A process moves to writing or to giving back the lock only by comparing *)
(* the time of its lock with timelock2.                                    *)
(***************************************************************************)
LEMMA OnlyByTimeleft ==
  ASSUME TypeOK, Next, NEW p \in Proc,
         pc[p] \in {"check2", "unlock2"}, pc'[p] \in {"commit", "unlock3"}
  PROVE  Left(p) # ERR
<1>1. CASE Tick
  BY <1>1 DEF Tick
<1>2. ASSUME NEW q \in Proc, q # p, Start(q) \/ Step(q) \/ Die(q)
      PROVE  pc'[p] = pc[p]
  BY <1>2 DEF TypeOK, Start, EnterLock, Die, Step, Create, InitLock, Try,
     Grab, Break, Info, BreakLock, Restore, SetLock, Open, Close, Check,
     Commit, Unlock, Remove, RmLock, Copy, LockfileSeen, TimelockSeen, Go
<1>3. CASE Start(p) \/ Die(p)
  BY <1>3 DEF TypeOK, Start, Die, EnterLock, Go
<1>4. CASE Step(p)
  <2>1. Check(p) \/ Unlock(p)
    BY <1>4 DEF Step, Create, InitLock, Try, Break, Info, BreakLock, Restore,
       SetLock, Open, Close, Commit, Remove, RmLock, Copy
  <2>2. \/ TimelockSeen(p, "check2", AfterCheck)
        \/ TimelockSeen(p, "unlock2", AfterUnlockCheck)
    BY <2>1 DEF Check, Unlock, Copy, LockfileSeen
  <2>3. \/ pc'[p] = AfterCheck(Left(p))
        \/ pc'[p] = AfterUnlockCheck(Left(p))
    BY <2>2 DEF TimelockSeen, Go, TypeOK
  <2>4. \A left \in {ERR} : AfterCheck(left) = "unlock1"
                            /\ AfterUnlockCheck(left) = "idle"
    BY PeriodAssumption DEF AfterCheck, AfterUnlockCheck, ERR
  <2> QED BY <2>3, <2>4
<1> QED BY <1>1, <1>2, <1>3, <1>4 DEF Next

(***************************************************************************)
(* A process whose lock was broken and set again in a later second neither *)
(* writes nor gives back the other's lock, for any number of processes and *)
(* any periods (osfn_timeleft, as vfnclose and osfn_unlock use it).        *)
(***************************************************************************)
THEOREM SupersededStopsAlways == Spec => SupersededStops
<1>1. ASSUME TypeOK, SameAge, Next, NEW p \in Proc, NEW q \in Proc,
             pc[p] \in {"check2", "unlock2"}, pc'[p] \in {"commit", "unlock3"}
      PROVE  ~Superseded(p, q)
  <2>1. Left(p) # ERR
    BY <1>1, OnlyByTimeleft
  <2>2. locktime[p].age = timelock2
    BY <1>1, <2>1 DEF Left, SameAge
  <2>3. timelock2 \in Int
    BY <1>1, PeriodAssumption DEF TypeOK, Absent
  <2> QED BY <1>1, <2>2, <2>3 DEF Superseded, SameAge
<1>2. TypeOK /\ SameAge /\ [Next]_vars =>
        [\A p, q \in Proc :
            pc[p] \in {"check2", "unlock2"} /\ pc'[p] \in {"commit", "unlock3"}
                => ~Superseded(p, q)]_vars
  BY <1>1
<1> QED BY <1>2, LockTypeCorrect, SameAgeInvariant, PTL DEF Spec, SupersededStops

=============================================================================
