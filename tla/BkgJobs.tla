------------------------------ MODULE BkgJobs ------------------------------
(***************************************************************************)
(* The background jobs of the CL (pkg/ecl/bkg.c), the queries they leave   *)
(* for the user (modes.c), and the three tables that hold them: the job    *)
(* table of the CL, the detached processes of the VOS (sys/etc/prd.com)    *)
(* and the process table of the kernel (unix/os/prwait.c).                 *)
(*                                                                         *)
(* The CL and its jobs are processes of the host.  They share two files    *)
(* per job: the query, which the job makes and the CL deletes, and the     *)
(* response, which the CL makes and the job deletes.                       *)
(*                                                                         *)
(* A job is a fork of the CL and begins with a copy of its tables.         *)
(***************************************************************************)
EXTENDS Integers, FiniteSets

CONSTANTS
    NBKG,         \* slots of the job table
    MaxJobs,      \* MAX_BKGJOBS, detached processes
    Pid,          \* the pids of the host
    MaxWaits      \* looks for a response that fit in BKQ_TIMEOUT

ASSUME BkgAssumption ==
    /\ NBKG \in Nat /\ MaxJobs \in Nat \ {0} /\ NBKG > MaxJobs
    /\ Pid \subseteq Nat \ {0} /\ IsFiniteSet(Pid)
    /\ MaxWaits \in Nat

VARIABLES
    cl,           \* the CL: what it is doing, for which job and whose query
    lastjobno,    \* last job slot used
    jobtable,     \* of the CL: b_jobno while J_RUNNING is set, else 0
    prd,          \* pr_jobcode (pr_active is YES but within BKG_KILL)
    prtable,      \* of the kernel: no entry, active, or exited (pr_active NO)
    proc,         \* the processes of the host
    bqfile,       \* per job the query file, the process that made it
    qrfile        \* per job the response, the process it answers

vars == <<cl, lastjobno, jobtable, prd, prtable, proc, bqfile, qrfile>>

Jobs  == 1 .. NBKG
Slots == 1 .. MaxJobs
None  == 0                       \* no file, no job code
Old   == -1                      \* history: of a query that is over

Idle == [pc |-> "idle", job |-> 0, asker |-> None]
NoProc == [st |-> "none", job |-> 0, waits |-> 0, kin |-> {}]

Busy(j)  == jobtable[j] # 0
PidOf(j) == prd[jobtable[j]]
Alive(p) == proc[p].st \notin {"none", "zombie"}
Running(p) == Alive(p) /\ proc[p].st # "dying"

(***************************************************************************)
(* What is on the way to process p when it ends, or asks again, answers a  *)
(* query that is over.                                                     *)
(***************************************************************************)
Forget(f, p) == [j \in Jobs |-> IF f[j] = p THEN Old ELSE f[j]]
-----------------------------------------------------------------------------
(***************************************************************************)
(* BKG_UPDATE.  PRDONE: ZTSDPR reaps the process if it has exited and asks *)
(* whether the pid exists (a forked job has no bkgfile).  BKG_CLOSE of     *)
(* what is done: PRCLDPR, ZCLDPR, PR_WAIT empty the slots of all tables.   *)
(***************************************************************************)
DoneUnreaped ==                            \* mutant: only an exit not yet reaped counts
    {j \in Jobs : Busy(j) /\ proc[PidOf(j)].st = "zombie"}
Done == {j \in Jobs : Busy(j) /\ ~Alive(PidOf(j))}
DonePids == {PidOf(j) : j \in Done}
DoneSlots == {jobtable[j] : j \in Done}

UpdatedJobsClear ==                        \* mutant: bkg.c:347 clears J_RUNNING too
    [j \in Jobs |-> IF j \in Done \/ bqfile[j] = None THEN 0 ELSE jobtable[j]]
UpdatedJobs == [j \in Jobs |-> IF j \in Done THEN 0 ELSE jobtable[j]]
UpdatedPrd == [s \in Slots |-> IF s \in DoneSlots THEN None ELSE prd[s]]
UpdatedPrtable == [p \in Pid |-> IF p \in DonePids THEN "none" ELSE prtable[p]]
UpdatedProc == [p \in Pid |-> IF p \in DonePids THEN NoProc ELSE proc[p]]

Update ==
    /\ jobtable' = UpdatedJobs /\ prd' = UpdatedPrd
    /\ prtable' = UpdatedPrtable /\ proc' = UpdatedProc

(***************************************************************************)
(* BKG_SPAWN.  The slots are searched in a circle that begins after        *)
(* lastjobno and never comes to it.  BKG_DELFILES, then PRFODPR: the first *)
(* free slot of prd; the fork, or the table, may fail.                     *)
(***************************************************************************)
Circle(j) == (j - lastjobno - 1) % NBKG
IsNext(j, free) == j \in free /\ \A k \in free : Circle(j) <= Circle(k)
FreeJobs == {j \in Jobs \ {lastjobno} : UpdatedJobs[j] = 0}
FreeSlots == {s \in Slots : UpdatedPrd[s] = None}

DelFilesNone(f, j) == f                    \* mutant: bkg_delfiles not called
DelFiles(f, j) == [f EXCEPT ![j] = None]

SpawnFails(j) ==
    /\ cl.pc = "idle" /\ IsNext(j, FreeJobs)
    /\ Update
    /\ bqfile' = DelFiles(bqfile, j) /\ qrfile' = DelFiles(qrfile, j)
    /\ UNCHANGED <<cl, lastjobno>>

Spawn(j, s, p) ==
    /\ cl.pc = "idle" /\ IsNext(j, FreeJobs)
    /\ s \in FreeSlots /\ \A t \in FreeSlots : s <= t
    /\ UpdatedProc[p].st = "none"
    /\ prd' = [UpdatedPrd EXCEPT ![s] = p]
    /\ prtable' = [UpdatedPrtable EXCEPT ![p] = "active"]
    /\ proc' = [UpdatedProc EXCEPT ![p] =
           [st |-> "run", job |-> j, waits |-> 0,
            kin |-> {PidOf(k) : k \in {i \in Jobs : UpdatedJobs[i] # 0}}]]
    /\ jobtable' = [UpdatedJobs EXCEPT ![j] = s]
    /\ lastjobno' = j
    /\ bqfile' = DelFiles(bqfile, j) /\ qrfile' = DelFiles(qrfile, j)
    /\ UNCHANGED cl

(***************************************************************************)
(* BKG_WAIT for a job, or for all of them (0).                             *)
(***************************************************************************)
Over(j) == \/ j # 0 /\ UpdatedJobs[j] = 0
           \/ \A k \in Jobs : UpdatedJobs[k] = 0

Wait(j) == /\ cl.pc = "idle" /\ Update
           /\ cl' = IF Over(j) THEN cl ELSE [Idle EXCEPT !.pc = "wait", !.job = j]
           /\ UNCHANGED <<lastjobno, bqfile, qrfile>>

Poll == /\ cl.pc = "wait" /\ Update
        /\ cl' = IF Over(cl.job) THEN Idle ELSE cl
        /\ UNCHANGED <<lastjobno, bqfile, qrfile>>

(***************************************************************************)
(* BKG_KILL.  PRKILL, ZCLDPR: the signal is sent, the entry of the kernel  *)
(* released and nobody waits for the process to end.  Of a pid that does   *)
(* not exist the kill fails; BKG_CLOSE follows in both cases.              *)
(***************************************************************************)
Kill(j) == /\ cl.pc = "idle" /\ Update
           /\ cl' = IF \E k \in Jobs : UpdatedJobs[k] # 0 /\ j \in {0, k}
                    THEN [Idle EXCEPT !.pc = "kill", !.job = j] ELSE cl
           /\ UNCHANGED <<lastjobno, bqfile, qrfile>>

Signalled(pids) ==
    [p \in Pid |-> IF p \in pids /\ Alive(p)
                  THEN [st |-> "dying", job |-> 0, waits |-> 0, kin |-> proc[p].kin]
                  ELSE proc[p]]

ReleasedHeld(slots) == prd                 \* mutant: pr_jobcode not set to NULL
Released(slots) == [s \in Slots |-> IF s \in slots THEN None ELSE prd[s]]

KillAll(kill) ==
    LET pids == {PidOf(j) : j \in kill}
    IN  /\ jobtable' = [j \in Jobs |-> IF j \in kill THEN 0 ELSE jobtable[j]]
        /\ prd' = Released({jobtable[j] : j \in kill})
        /\ prtable' = [p \in Pid |-> IF p \in pids THEN "none" ELSE prtable[p]]
        /\ proc' = Signalled(pids)

Killing == /\ cl.pc = "kill"
           /\ KillAll({j \in Jobs : Busy(j) /\ cl.job \in {0, j}})
           /\ cl' = Idle
           /\ UNCHANGED <<lastjobno, bqfile, qrfile>>

(***************************************************************************)
(* SERVICE_BKGQUERY.  The query is read and typed, the user answers, the   *)
(* response is renamed into place, and then the query is deleted.          *)
(***************************************************************************)
Service(j) ==
    /\ cl.pc = "idle" /\ Update
    /\ cl' = IF UpdatedJobs[j] # 0 /\ bqfile[j] # None
             THEN [pc |-> "type", job |-> j, asker |-> bqfile[j]] ELSE cl
    /\ UNCHANGED <<lastjobno, bqfile, qrfile>>

Type == /\ cl.pc = "type"
        /\ qrfile' = [qrfile EXCEPT ![cl.job] = cl.asker]
        /\ cl' = [cl EXCEPT !.pc = "typed"]
        /\ UNCHANGED <<lastjobno, jobtable, prd, prtable, proc, bqfile>>

DeleteQuery == /\ cl.pc = "typed"
               /\ bqfile' = [bqfile EXCEPT ![cl.job] = None]
               /\ cl' = Idle
               /\ UNCHANGED <<lastjobno, jobtable, prd, prtable, proc, qrfile>>

(***************************************************************************)
(* An interrupt of the CL while it sleeps or reads the terminal.           *)
(***************************************************************************)
Interrupt == /\ cl.pc \in {"wait", "type"} /\ cl' = Idle
             /\ UNCHANGED <<lastjobno, jobtable, prd, prtable, proc, bqfile, qrfile>>

(***************************************************************************)
(* PR_WAIT for a connected subprocess (ZCLCPR): the jobs that have ended   *)
(* meanwhile are reaped, an entry of theirs marked, an unknown one passed. *)
(***************************************************************************)
CloseConnected(dead) ==
    /\ cl.pc = "idle" /\ \A p \in dead : proc[p].st = "zombie"
    /\ proc' = [p \in Pid |-> IF p \in dead THEN NoProc ELSE proc[p]]
    /\ prtable' = [p \in Pid |->
           IF p \in dead /\ prtable[p] = "active" THEN "done" ELSE prtable[p]]
    /\ UNCHANGED <<cl, lastjobno, jobtable, prd, bqfile, qrfile>>
-----------------------------------------------------------------------------
(***************************************************************************)
(* The steps of a job.  BKG_QUERY: the query takes the place of the old    *)
(* one, an old response is deleted, then the job looks for a response      *)
(* until BKQ_TIMEOUT; an error ends a background CL (cl_error).            *)
(***************************************************************************)
Goes(p, st) == proc' = [proc EXCEPT ![p].st = st]
Own(p) == proc[p].job

OverFor(p) == /\ qrfile' = Forget(qrfile, p)
              /\ cl' = IF cl.asker = p THEN [cl EXCEPT !.asker = Old] ELSE cl

Ask(p) == /\ proc[p].st = "run" /\ Goes(p, "clear")
          /\ bqfile' = [Forget(bqfile, p) EXCEPT ![Own(p)] = p]
          /\ OverFor(p)
          /\ UNCHANGED <<lastjobno, jobtable, prd, prtable>>

Clear(p) == /\ proc[p].st = "clear"
            /\ proc' = [proc EXCEPT ![p] = [st |-> "wait", job |-> Own(p), waits |-> 0,
                                         kin |-> proc[p].kin]]
            /\ qrfile' = [qrfile EXCEPT ![Own(p)] = None]
            /\ UNCHANGED <<cl, lastjobno, jobtable, prd, prtable, bqfile>>

Answered(p) == proc[p].st = "wait" /\ qrfile[Own(p)] # None
ReadAnswer(p) == /\ Answered(p) /\ Goes(p, "run")
                 /\ qrfile' = [qrfile EXCEPT ![Own(p)] = None]
                 /\ UNCHANGED <<cl, lastjobno, jobtable, prd, prtable, bqfile>>

SleepLong(p) ==                            \* mutant: the timeout is tested too late
    /\ proc[p].st = "wait" /\ qrfile[Own(p)] = None
    /\ proc[p].waits <= MaxWaits + 1
    /\ proc' = [proc EXCEPT ![p].waits = @ + 1]
    /\ UNCHANGED <<cl, lastjobno, jobtable, prd, prtable, bqfile, qrfile>>
Sleep(p) == /\ proc[p].st = "wait" /\ qrfile[Own(p)] = None
            /\ proc[p].waits <= MaxWaits
            /\ proc' = [proc EXCEPT ![p].waits = @ + 1]
            /\ UNCHANGED <<cl, lastjobno, jobtable, prd, prtable, bqfile, qrfile>>

Ends(p) == [proc EXCEPT ![p] = [NoProc EXCEPT !.st = "zombie"]]

Timeout(p) == /\ proc[p].st = "wait" /\ qrfile[Own(p)] = None
              /\ proc[p].waits > MaxWaits
              /\ proc' = Ends(p)
              /\ bqfile' = [Forget(bqfile, p) EXCEPT ![Own(p)] = None]
              /\ OverFor(p)
              /\ UNCHANGED <<lastjobno, jobtable, prd, prtable>>

Exit(p) == /\ proc[p].st = "run"
           /\ proc' = Ends(p)
           /\ bqfile' = Forget(bqfile, p) /\ OverFor(p)
           /\ UNCHANGED <<lastjobno, jobtable, prd, prtable>>

(***************************************************************************)
(* ONINT, BKG_ABORT: the job kills the jobs that are busy in its table and *)
(* that exist, then it ends.  Its table is the one it was forked with.     *)
(***************************************************************************)
Abort(p) == /\ proc[p].st = "dying"
            /\ proc' = [Signalled(proc[p].kin) EXCEPT ![p] = [NoProc EXCEPT !.st = "zombie"]]
            /\ bqfile' = Forget(bqfile, p) /\ OverFor(p)
            /\ UNCHANGED <<lastjobno, jobtable, prd, prtable>>

Init ==
    /\ cl = Idle /\ lastjobno = 0
    /\ jobtable = [j \in Jobs |-> 0]
    /\ prd = [s \in Slots |-> None]
    /\ prtable = [p \in Pid |-> "none"]
    /\ proc = [p \in Pid |-> NoProc]
    /\ bqfile = [j \in Jobs |-> None] /\ qrfile = [j \in Jobs |-> None]

JobStep(p) == \/ Ask(p) \/ Clear(p) \/ ReadAnswer(p)
              \/ Sleep(p) \/ Timeout(p) \/ Exit(p) \/ Abort(p)

ClStep == \/ Poll \/ Killing \/ Type \/ DeleteQuery \/ Interrupt
          \/ \E j \in Jobs : SpawnFails(j) \/ Service(j)
          \/ \E j \in Jobs, s \in Slots, p \in Pid : Spawn(j, s, p)
          \/ \E j \in Jobs \cup {0} : Wait(j) \/ Kill(j)
          \/ \E dead \in SUBSET Pid : CloseConnected(dead)

Next == ClStep \/ \E p \in Pid : JobStep(p)

Spec == Init /\ [][Next]_vars

(***************************************************************************)
(* A process runs until it ends and a task does not ask for ever: what a   *)
(* job does next happens, and of running and asking it ends one day.       *)
(* BKG_WAIT polls every WAIT_PERIOD seconds.                               *)
(***************************************************************************)
Fairness == /\ WF_vars(Poll)
            /\ \A p \in Pid : WF_vars(JobStep(p)) /\ SF_vars(Exit(p))
FairSpec == Spec /\ Fairness
-----------------------------------------------------------------------------
(***************************************************************************)
(* Properties                                                              *)
(***************************************************************************)
(***************************************************************************)
(* The types of the tables of the CL, of the processes and of the files.   *)
(***************************************************************************)
States == {"none", "run", "clear", "wait", "dying", "zombie"}
TypeOK ==
    /\ cl \in [pc : {"idle", "wait", "kill", "type", "typed"}, job : Jobs \cup {0},
               asker : Pid \cup {None, Old}]
    /\ lastjobno \in 0 .. NBKG
    /\ jobtable \in [Jobs -> Slots \cup {0}]
    /\ prd \in [Slots -> Pid \cup {None}]
    /\ prtable \in [Pid -> {"none", "active", "done"}]
    /\ proc \in [Pid -> [st : States, job : Jobs \cup {0}, waits : 0 .. MaxWaits + 1,
                         kin : SUBSET Pid]]
    /\ bqfile \in [Jobs -> Pid \cup {None, Old}]
    /\ qrfile \in [Jobs -> Pid \cup {None, Old}]

(***************************************************************************)
(* The three tables tell one story: every busy job has a slot of prd and   *)
(* an entry of the kernel of its own, and nothing else holds one.  What a  *)
(* close or a kill leaves behind would fill the tables in the end.         *)
(***************************************************************************)
TablesAgree ==
    /\ \A j \in Jobs : Busy(j) => PidOf(j) # None /\ prtable[PidOf(j)] # "none"
    /\ \A j, k \in Jobs : Busy(j) /\ Busy(k) /\ PidOf(j) = PidOf(k) => j = k
    /\ \A s \in Slots : prd[s] # None => \E j \in Jobs : jobtable[j] = s
    /\ \A p \in Pid : prtable[p] # "none" => \E j \in Jobs : Busy(j) /\ PidOf(j) = p

(***************************************************************************)
(* A job that runs and that nobody has killed is a job of the table, under *)
(* the number it uses for its files: BKG_UPDATE forgets no job that runs,  *)
(* whatever PR_WAIT has reaped, and no slot is given away.                 *)
(***************************************************************************)
NoJobLost ==
    \A p \in Pid : Running(p) =>
        Busy(Own(p)) /\ PidOf(Own(p)) = p

(***************************************************************************)
(* The files of the number of a job that runs are about its present query: *)
(* not about one of a former job of that number, killed or timed out, and  *)
(* not about one that it has asked before.                                 *)
(***************************************************************************)
FilesAreOwn ==
    \A p \in Pid : Running(p) =>
        bqfile[Own(p)] \in {None, p} /\ qrfile[Own(p)] \in {None, p}

(***************************************************************************)
(* BKG_WAIT returns: each job ends, if only after the timeout of a query,  *)
(* and its end is seen even if PR_WAIT has reaped it.                      *)
(***************************************************************************)
WaitReturns == cl.pc = "wait" ~> cl.pc # "wait"

(***************************************************************************)
(* bkg.c:415: a job that is killed kills "any and all background CL's WE   *)
(* may have started", and no job here has started one: a signal comes from *)
(* the kill of the CL only.                                                *)
(***************************************************************************)
AbortKillsOwn ==
    [][\A p \in Pid : proc'[p].st = "dying" /\ proc[p].st # "dying" => cl.pc = "kill"]_vars

(***************************************************************************)
(* modes.c:850: "Do not delete the query file until we successfully        *)
(* respond to the query": the query that the CL deletes is the one that it *)
(* has answered.                                                           *)
(***************************************************************************)
DeletesAnswered ==
    [][cl.pc = "typed" /\ cl'.pc = "idle" => bqfile[cl.job] \in {None, cl.asker}]_vars
=============================================================================
