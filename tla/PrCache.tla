------------------------------ MODULE PrCache ------------------------------
(***************************************************************************)
(* The process cache of the CL (pkg/ecl/prcache.c) and the stack of tasks  *)
(* that uses it (exec.c, errs.c, task.c, builtin.c, modes.c).  Processes   *)
(* stay connected, idle, in the slots of a list ordered from the one used  *)
(* last to the one that is closed first.  The CL is a single thread that   *)
(* runs each operation to its end, but a connected process may die, or its *)
(* executable be relinked, between any two of them, and a running task may *)
(* have the CL run others.                                                 *)
(*                                                                         *)
(* A pid is reused when its process has been closed, first the one with    *)
(* the number of the slot, to keep the states few; without a pid to spare  *)
(* none can be spawned.                                                    *)
(***************************************************************************)
EXTENDS Integers, Sequences, FiniteSets, FiniteSetsExt

CONSTANTS
    Exe,          \* the executables tasks live in
    MaxPid,       \* bound: pids
    MaxSub,       \* MAXSUBPROC
    Sizes,        \* values the user gives to szprcache
    ResizeBusy,   \* also while tasks are running in processes
    MaxDepth,     \* bound: tasks on the stack
    MaxPno,       \* bound: process numbers
    MaxLost       \* bound: processes that have died and are not closed yet

ASSUME BoundAssumption ==
    /\ MaxPid \in Nat \ {0} /\ MaxSub \in Nat /\ MaxSub >= 2
    /\ Sizes \subseteq Nat /\ ResizeBusy \in BOOLEAN
    /\ MaxDepth \in Nat \ {0} /\ MaxPno \in Nat \ {0}
    /\ MaxLost \in Nat

ASSUME NameAssumption == "" \notin Exe

VARIABLES
    cache,    \* the list, sz_prcache, its slots, pr_pno and the processes
    task,     \* the task stack, firstask first
    last      \* history: the slot of the last task; None after anything else than
              \* calling and ending tasks

vars == <<cache, task, last>>

Slots == 1 .. MaxSub
Pids  == 1 .. MaxPid
None  == 0                  \* NULL: no process, no slot, no mark

(***************************************************************************)
(* A slot, and a process: up, gone (it has died), dead (that is known); of *)
(* an executable that has been linked again since, or not.  The latter is  *)
(* what the comparison of fi_mtime with pr_time tells.                     *)
(***************************************************************************)
Empty == [pid |-> None, name |-> "", active |-> FALSE, locked |-> FALSE,
          pno |-> 0]
Closed == [state |-> "none", exe |-> "", relinked |-> FALSE]

Busy(s) == s.active \/ s.locked
Live(c, i) == c.slot[i].pid # None
-----------------------------------------------------------------------------
(***************************************************************************)
(* PR_TOHEAD, PR_TOTAIL and PR_INITCACHE, which forgets every slot.  The   *)
(* members of S are moved to the tail in the order of the array.           *)
(***************************************************************************)
At(list, S) == {k \in DOMAIN list : list[k] \in S}
Rank(D, k)  == Cardinality({j \in D : j =< k})
Only(list, S) ==
    LET D == At(list, S)
    IN  [n \in 1 .. Cardinality(D) |-> list[CHOOSE k \in D : Rank(D, k) = n]]
Array == [i \in Slots |-> i]

ToHeadNot(list, i) == list               \* mutant: PR_TOHEAD forgotten
ToHead(list, i) == <<i>> \o Only(list, Slots \ {i})
ToTailTwice(list, S) == list \o Only(Array, S)       \* mutant: PR_UNLINK forgotten
ToTail(list, S) == Only(list, Slots \ S) \o Only(Array, S)

Vacant(c, i) == [Empty EXCEPT !.name = c.slot[i].name]

InitCache(c) ==
    [c EXCEPT !.list = [k \in 1 .. c.size |-> c.size + 1 - k],
              !.slot = [i \in Slots |-> Vacant(c, i)],
              !.pno  = 1]

(***************************************************************************)
(* PR_PDISCONNECT, of each of some slots: an idle process is told to exit  *)
(* and its slot is the first to be used again.  The name is all that is    *)
(* read of an empty slot.                                                  *)
(***************************************************************************)
PDisconnect(c, S) ==
    LET closed == {i \in S : Live(c, i) /\ ~Busy(c.slot[i])}
        pids   == {c.slot[i].pid : i \in closed}
    IN  [c EXCEPT
            !.list  = ToTail(@, closed),
            !.slot  = [i \in Slots |-> IF i \in closed THEN Vacant(c, i) ELSE @[i]],
            !.child = [p \in Pids |-> IF p \in pids THEN Closed ELSE @[p]]]

(***************************************************************************)
(* PR_CHECKUP, PR_DUMPCACHE and PR_PRUNECACHE.  Breaking locks, the dump   *)
(* starts the process numbers again.                                       *)
(***************************************************************************)
Freed(c, i) == [c.slot[i] EXCEPT !.active = FALSE, !.locked = FALSE]

CheckUp(c) ==
    LET dead == {p \in Pids : c.child[p].state = "dead"}
        held == {i \in Slots : c.slot[i].pid \in dead}
    IN  IF dead = {} THEN c
        ELSE PDisconnect([c EXCEPT !.slot = [i \in Slots |->
                             IF i \in held THEN Freed(c, i) ELSE @[i]]], held)

UnlockedAny(c, i, break) ==                \* mutant: break_locks not tested
    [c.slot[i] EXCEPT !.locked = @ /\ c.slot[i].active]
Unlocked(c, i, break) ==
    [c.slot[i] EXCEPT !.locked = @ /\ ~(break /\ ~c.slot[i].active)]

DumpCache(c, pid, break) ==
    LET b == CheckUp(c)
        named == {i \in Slots : Live(b, i) /\ pid \in {None, b.slot[i].pid}}
    IN  PDisconnect([b EXCEPT !.slot = [i \in Slots |->
                                  IF i \in named THEN Unlocked(b, i, break) ELSE @[i]],
                              !.pno = IF break THEN 1 ELSE @], named)

Younger(s, pno) == s.pno > pno
PruneCache(c, pno) ==
    LET b == CheckUp(c)
    IN  PDisconnect(b, {i \in Slots : Younger(b.slot[i], pno)})

(***************************************************************************)
(* The slot of S nearest the head of the list, or nearest its tail.        *)
(***************************************************************************)
FromHead(list, S) == IF At(list, S) = {} THEN None ELSE list[Min(At(list, S))]
FromTail(list, S) == IF At(list, S) = {} THEN None ELSE list[Max(At(list, S))]

FindProcActive(c, e) ==                    \* mutant: pr_idle not tested
    FromHead(c.list, {i \in Slots : Live(c, i) /\ c.slot[i].name = e})
FindProc(c, e) ==
    FromHead(c.list, {i \in Slots : /\ Live(c, i) /\ ~c.slot[i].active
                                    /\ c.slot[i].name = e})
PnameToPid(c, e) ==
    LET i == FromHead(c.list, {j \in Slots : c.slot[j].name = e})
    IN  IF i = None THEN None ELSE c.slot[i].pid
SlotOf(c, pid) == FromHead(c.list, {i \in Slots : c.slot[i].pid = pid})

(***************************************************************************)
(* PR_DISCONNECT, of each of some processes, and PR_LOCK.                  *)
(***************************************************************************)
Idle(c, i) == [c.slot[i] EXCEPT !.active = FALSE]

Disconnect(c, pids) ==
    LET b    == CheckUp(c)
        done == {SlotOf(b, p) : p \in pids}
    IN  IF pids = {} THEN c
        ELSE [b EXCEPT !.slot = [i \in Slots |-> IF i \in done THEN Idle(b, i) ELSE @[i]]]

Lock(c, pid) ==
    LET i == SlotOf(c, pid)
    IN  IF pid = None \/ i = None THEN c ELSE [c EXCEPT !.slot[i].locked = TRUE]
-----------------------------------------------------------------------------
(***************************************************************************)
(* PR_PCONNECT.  A process that idles in the cache is used again, unless   *)
(* its executable has been modified; locked, it is used without a look.    *)
(* Else the last slot of the list that is not busy gets a new process.     *)
(***************************************************************************)
Spare(c) == {p \in Pids : c.child[p] = Closed}

OutdatedNever(c, i, spawn) ==              \* mutant: fi_mtime not compared
    ~Busy(c.slot[i]) /\ spawn = "missing"
Outdated(c, i, spawn) ==
    ~Busy(c.slot[i]) /\ (spawn = "missing" \/ c.child[c.slot[i].pid].relinked)

Failed(c) == [cache |-> c, pid |-> None]

Reuse(c, i) ==
    [cache |-> [c EXCEPT !.list = ToHead(@, i), !.slot[i].active = TRUE],
     pid   |-> c.slot[i].pid]

Spawn(c, i, e) ==
    LET p == IF i \in Spare(c) THEN i ELSE Min(Spare(c))
    IN  [cache |-> [c EXCEPT
             !.slot[i]  = [pid |-> p, name |-> e, active |-> TRUE,
                           locked |-> FALSE, pno |-> c.pno],
             !.child[p] = [state |-> "up", exe |-> e, relinked |-> FALSE],
             !.pno      = @ + 1],
         pid |-> p]

NewProcessOver(c, e, spawn) ==             \* mutant: slot not disconnected
    LET i == FromTail(c.list, {j \in Slots : ~Busy(c.slot[j])})
        d == [c EXCEPT !.list = ToHead(@, i)]
    IN  IF i = None \/ spawn # "ok" \/ Spare(d) = {} THEN Failed(c) ELSE Spawn(d, i, e)
NewProcess(c, e, spawn) ==
    LET i == FromTail(c.list, {j \in Slots : ~Busy(c.slot[j])})
        b == PDisconnect(c, {i})
        d == [b EXCEPT !.list = ToHead(@, i)]
    IN  IF i = None THEN Failed(c)                 \* process cache deadlock
        ELSE IF spawn = "ok" /\ Spare(d) # {} THEN Spawn(d, i, e)
        ELSE Failed(d)

PConnect(c, e, spawn) ==
    LET b == IF c.list = <<>> THEN InitCache(c) ELSE CheckUp(c)
        i == FindProc(b, e)
    IN  IF i = None THEN NewProcess(b, e, spawn)
        ELSE IF Outdated(b, i, spawn) THEN NewProcess(PDisconnect(b, {i}), e, spawn)
        ELSE Reuse(b, i)

(***************************************************************************)
(* PR_CONNECT: the startup message to a process that has died raises X_IPC *)
(* (pr_onipc, onipc), and the slot stays active until the next check.      *)
(***************************************************************************)
Connect(c, e, spawn) ==
    LET r == PConnect(c, e, spawn)
    IN  IF r.pid # None /\ r.cache.child[r.pid].state = "gone"
        THEN Failed([r.cache EXCEPT !.child[r.pid].state = "dead"])
        ELSE r

(***************************************************************************)
(* PR_CACHETASK and PR_SETCACHE connect a process, disconnect it and lock  *)
(* it; PR_SETCACHE does so again with those that were locked.              *)
(***************************************************************************)
LockedNames(c) ==
    LET locked == Only(c.list, {i \in Slots : Live(c, i) /\ c.slot[i].locked})
    IN  [k \in DOMAIN locked |-> c.slot[locked[k]].name]

Parked(r) == Lock(Disconnect(r.cache, {r.pid}), r.pid)

Cached(c, e) == Parked(Connect(c, e, "ok"))

Recached(c, names, n) ==
    LET done[k \in 0 .. n] == IF k = 0 THEN c ELSE Cached(done[k - 1], names[k])
    IN  done[n]

Clamped(n) == IF n < 2 THEN 2 ELSE IF n > MaxSub THEN MaxSub ELSE n
-----------------------------------------------------------------------------
(***************************************************************************)
(* The task stack.  firstask, and a cl below which a package was loaded,   *)
(* are interactive.  pno marks the time the task above defined a package.  *)
(***************************************************************************)
Frame(kind, e, pid) == [kind |-> kind, exe |-> e, pid |-> pid, pno |-> None]
Top == task[Len(task)]

Called == [task EXCEPT ![Len(task)].pno = None]

(***************************************************************************)
(* RESTOR: the processes connected since the task below defined a package  *)
(* are closed.                                                             *)
(***************************************************************************)
Restored(c, stack) ==
    LET below == stack[Len(stack)]
    IN  IF below.pno = None THEN c ELSE PruneCache(c, below.pno)

(***************************************************************************)
(* CL_ERROR, TASKUNWIND: every task above the last interactive one is      *)
(* finished (iofinish), then that one is restored.                         *)
(***************************************************************************)
Interactive(stack) == Max({k \in DOMAIN stack : stack[k].kind = "cl"})

PidsAbove(stack, n) ==
    {stack[k].pid : k \in {m \in n + 1 .. Len(stack) : stack[m].kind = "proc"}}

Finished(c, stack, n) ==
    LET left == SubSeq(stack, 1, n)
    IN  /\ cache' = Restored(Disconnect(c, PidsAbove(stack, n)), left)
        /\ task' = left

Unwind(c, stack) == Finished(c, stack, Interactive(stack))
-----------------------------------------------------------------------------
Init ==
    /\ cache = [list |-> <<>>, size |-> 2, pno |-> 1,
                slot |-> [i \in Slots |-> Empty],
                child |-> [p \in Pids |-> Closed]]
    /\ task = <<Frame("cl", "", None)>>
    /\ last = None

(***************************************************************************)
(* CALLNEWTASK, CONNECT: the current task runs one of an executable, a     *)
(* script, or a cl.  An error unwinds the stack.                           *)
(***************************************************************************)
Run(e) == \E spawn \in {"ok", "fail", "missing"} :
    LET r == Connect(cache, e, spawn)
    IN  /\ Len(task) < MaxDepth /\ cache.pno <= MaxPno
        /\ last' = IF r.pid = None THEN None ELSE SlotOf(r.cache, r.pid)
        /\ IF r.pid = None
           THEN Unwind(r.cache, Called)
           ELSE cache' = r.cache /\ task' = Append(Called, Frame("proc", e, r.pid))

Script ==
    /\ Len(task) < MaxDepth
    /\ task' = Append(Called, Frame("script", "", None))
    /\ UNCHANGED <<cache, last>>

Cl ==
    /\ Len(task) < MaxDepth /\ Top.kind = "script"
    /\ task' = Append(Called, Frame("cl", "", None))
    /\ UNCHANGED <<cache, last>>

(***************************************************************************)
(* CLPACKAGE marks the task below the script that defines the package.     *)
(***************************************************************************)
Package == \E k \in 2 .. Len(task) :
    /\ task[k].kind = "script" /\ cache.pno <= MaxPno
    /\ task' = [Called EXCEPT ![k - 1].pno = cache.pno]
    /\ cache' = [cache EXCEPT !.pno = @ + 1]
    /\ last' = None

(***************************************************************************)
(* ONEOF, for a task that ends, and CL_ERROR, for an error or an interrupt.*)
(***************************************************************************)
Finish ==
    /\ Len(task) > 1
    /\ Finished(cache, task, Len(task) - 1)
    /\ UNCHANGED last

Error == Unwind(cache, task) /\ last' = None
-----------------------------------------------------------------------------
(***************************************************************************)
(* The builtins.  FLPRCACHE with no argument, with 0, and with a task.     *)
(***************************************************************************)
Builtin(c) == cache' = c /\ task' = Called /\ last' = None

Flush    == Builtin(DumpCache(cache, None, FALSE))
FlushAll == Builtin(DumpCache(cache, None, TRUE))

FlushTask(e) ==
    LET b   == CheckUp(cache)
        pid == PnameToPid(b, e)
    IN  Builtin(IF pid = None THEN b ELSE DumpCache(b, pid, TRUE))

(***************************************************************************)
(* PRCACHE with a task: PR_CACHETASK, then PR_LOCK.                        *)
(***************************************************************************)
LockTask(e) == \E spawn \in {"ok", "fail"} :
    LET b   == CheckUp(cache)
        pid == PnameToPid(b, e)
        r   == Connect(b, e, spawn)
    IN  /\ cache.pno <= MaxPno
        /\ IF pid # None THEN Builtin(Lock(b, pid))
           ELSE IF r.pid # None THEN Builtin(Parked(r))
           ELSE Unwind(r.cache, Called) /\ last' = None

(***************************************************************************)
(* szprcache is set: PR_SETCACHE.  Reconnecting, a process may fail.       *)
(***************************************************************************)
GivenUp(r) == r.pid = None /\ Unwind(r.cache, task)

SetCache(n) ==
    LET names == LockedNames(cache)
        new   == InitCache([(IF cache.list = <<>> THEN cache
                             ELSE DumpCache(cache, None, TRUE))
                                EXCEPT !.size = Clamped(n)])
        again == IF Len(names) < new.size THEN Len(names) ELSE new.size - 1
    IN  /\ Cardinality(Spare(new)) >= again
        /\ ResizeBusy \/ \A i \in Slots : ~cache.slot[i].active
        /\ last' = None
        /\ \/ cache' = Recached(new, names, again) /\ task' = task
           \/ \E k \in 1 .. again :
                 GivenUp(Connect(Recached(new, names, k - 1), names[k], "fail"))

(***************************************************************************)
(* PR_CHDIR and PR_ENVSET write to every idle process.  One that has died  *)
(* raises X_IPC: it is known to be dead, and the stack is unwound.         *)
(***************************************************************************)
Broadcast ==
    LET b    == CheckUp(cache)
        gone == FromHead(b.list, {i \in Slots : /\ Live(b, i) /\ ~b.slot[i].active
                                                 /\ b.child[b.slot[i].pid].state = "gone"})
    IN  IF gone = None THEN Builtin(b)
        ELSE /\ Unwind([b EXCEPT !.child[b.slot[gone].pid].state = "dead"], Called)
             /\ last' = None

(***************************************************************************)
(* The CL answers the task it is running, whose process has died.          *)
(***************************************************************************)
Answer ==
    /\ Top.kind = "proc" /\ cache.child[Top.pid].state = "gone"
    /\ Unwind([cache EXCEPT !.child[Top.pid].state = "dead"], task)
    /\ last' = None

(***************************************************************************)
(* Outside the CL: a process dies, an executable is linked again.          *)
(***************************************************************************)
Crash(pid) ==
    /\ cache.child[pid].state = "up"
    /\ Cardinality({p \in Pids : cache.child[p].state \in {"gone", "dead"}}) < MaxLost
    /\ cache' = [cache EXCEPT !.child[pid].state = "gone"]
    /\ task' = task /\ last' = None

Relink(e) ==
    /\ \E p \in Pids : cache.child[p].exe = e /\ ~cache.child[p].relinked
    /\ cache' = [cache EXCEPT !.child = [p \in Pids |->
           [cache.child[p] EXCEPT !.relinked = @ \/ cache.child[p].exe = e]]]
    /\ task' = task /\ last' = None

Next ==
    \/ \E e \in Exe : Run(e) \/ FlushTask(e) \/ LockTask(e) \/ Relink(e)
    \/ Script \/ Cl \/ Package \/ Finish \/ Error
    \/ Flush \/ FlushAll \/ Broadcast \/ Answer
    \/ \E n \in Sizes : SetCache(n)
    \/ \E pid \in Pids : Crash(pid)

Spec == Init /\ [][Next]_vars
-----------------------------------------------------------------------------
(***************************************************************************)
(* Every component of the state has its type.                              *)
(***************************************************************************)
TypeOK ==
    /\ cache.list \in Seq(Slots) /\ IsInjective(cache.list)
    /\ cache.size \in 2 .. MaxSub /\ Len(cache.list) \in {0, cache.size}
    /\ cache.pno \in Nat \ {0}
    /\ \A i \in Slots :
          /\ cache.slot[i].pid \in Pids \cup {None}
          /\ cache.slot[i].name \in Exe \cup {""}
          /\ {cache.slot[i].active, cache.slot[i].locked} \subseteq BOOLEAN
          /\ cache.slot[i].pno \in Nat
    /\ \A p \in Pids : cache.child[p].state \in {"none", "up", "gone", "dead"}
    /\ Len(task) \in 1 .. MaxDepth /\ task[1].kind = "cl"
    /\ \A k \in DOMAIN task : /\ task[k].kind \in {"cl", "script", "proc"}
                              /\ (task[k].kind = "proc") <=> (task[k].pid # None)
    /\ last \in Slots \cup {None}

(***************************************************************************)
(* The CL never loses a process: each one it connected is in one slot of   *)
(* the list, through evictions, crashes, prunings and changes of size.     *)
(***************************************************************************)
Connected == {p \in Pids : cache.child[p].state # "none"}
InSlots(p) == {i \in Slots : cache.slot[i].pid = p}
NoOrphans == \A p \in Connected :
    Cardinality(InSlots(p)) = 1 /\ InSlots(p) \subseteq Range(cache.list)

(***************************************************************************)
(* The active flags and the task stack agree: a task whose process is not  *)
(* known to be dead owns an active slot, that no other task and nobody     *)
(* else frees, and a slot is active only for a task on the stack.          *)
(***************************************************************************)
Usable(p) == cache.child[p].state \in {"up", "gone"}
TasksOwnTheirSlots ==
    /\ \A k \in DOMAIN task : task[k].kind = "proc" /\ Usable(task[k].pid) =>
          \E i \in InSlots(task[k].pid) : cache.slot[i].active
    /\ \A i \in Slots : cache.slot[i].active /\ Usable(cache.slot[i].pid) =>
          Cardinality({k \in DOMAIN task : task[k].pid = cache.slot[i].pid}) = 1

(***************************************************************************)
(* A task is never started in a process of an executable that has been     *)
(* linked again, unless the process is locked in the cache.                *)
(***************************************************************************)
Started(e) == Len(task') > Len(task) /\ task'[Len(task')].exe = e
StartsCurrent == [][\A e \in Exe : Started(e) =>
    LET p == task'[Len(task')].pid
    IN  /\ cache.child'[p].exe = e
        /\ \/ ~cache.child'[p].relinked
           \/ \E i \in InSlots(p) : cache.slot[i].locked]_vars

(***************************************************************************)
(* Only flprcache with an argument and a change of the size close a locked *)
(* process that is alive: no eviction, pruning or plain flush does.        *)
(***************************************************************************)
BreaksLocks == FlushAll \/ (\E e \in Exe : FlushTask(e)) \/ (\E n \in Sizes : SetCache(n))
LocksHold == [][\A i \in Slots :
    /\ cache.slot[i].locked /\ cache.child[cache.slot[i].pid].state = "up"
    /\ cache.child'[cache.slot[i].pid] = Closed
    => BreaksLocks]_vars

(***************************************************************************)
(* The process used last stays connected when another task is run, as long *)
(* as another slot can be had: nobody else's process is closed first.      *)
(***************************************************************************)
KeepsRecent == [][\A e \in Exe, i \in Slots :
    /\ i = last /\ Live(cache, i) /\ Usable(cache.slot[i].pid)
    /\ Started(e) /\ cache.slot[i].name # e
    /\ \E j \in Range(cache.list) \ {i} : ~Busy(cache.slot[j])
    => cache.slot'[i].name = cache.slot[i].name /\ Live(cache', i)]_vars

(***************************************************************************)
(* "The process number is greater than that given, i.e., ... connected     *)
(* since the given PNO was assigned" (prcache.c, PR_PRUNECACHE): a process *)
(* connected now has a greater number than every package mark there is, or *)
(* RESTOR does not close it when it leaves the package.  This is not so    *)
(* once the numbers have begun again at 1, below the marks.                *)
(***************************************************************************)
NewerThanMarks == [][\A i \in Slots :
    /\ Len(task') > Len(task) /\ cache.slot'[i].pid # None
    /\ cache.slot'[i].pid \notin Connected
    => \A k \in DOMAIN task' : Younger(cache.slot'[i], task'[k].pno)]_vars
=============================================================================
