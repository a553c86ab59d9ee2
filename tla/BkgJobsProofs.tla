--------------------------- MODULE BkgJobsProofs ---------------------------
(***************************************************************************)
(* Proofs about the background jobs of the CL for any sizes of the tables, *)
(* any pids and any timeout.                                               *)
(*                                                                         *)
(* The tables agree because what is done is taken out of all of them at    *)
(* once.  The files of a job are its own because of what the CL and the    *)
(* job can be doing at the same time: while the CL types a query, the job  *)
(* that asked it can only look for the response.                           *)
(***************************************************************************)
EXTENDS BkgJobs, TLAPS

OwnJobs == \A p \in Pid : Running(p) => Own(p) \in Jobs

(***************************************************************************)
(* A query that is there, unless it was answered just now, is one its job  *)
(* waits for, without a response; a job that does not ask has none.        *)
(***************************************************************************)
AnsweredNow(j) == cl.pc = "typed" /\ cl.job = j

Asking == \A p \in Pid : Running(p) =>
    /\ bqfile[Own(p)] = p /\ ~AnsweredNow(Own(p))
          => \/ proc[p].st = "clear"
             \/ proc[p].st = "wait" /\ qrfile[Own(p)] = None
    /\ proc[p].st = "run" => qrfile[Own(p)] = None

(***************************************************************************)
(* The query the CL types is that of the job that now has the number.      *)
(***************************************************************************)
Typing == cl.pc = "type" =>
    \A p \in Pid : Running(p) /\ Own(p) = cl.job => cl.asker = p /\ bqfile[cl.job] = p

Tables == TablesAgree /\ NoJobLost /\ OwnJobs
Files  == FilesAreOwn /\ Asking /\ Typing
IInv   == TypeOK /\ Tables /\ Files
-----------------------------------------------------------------------------
LEMMA Constants ==
  /\ 0 \notin Pid /\ Old \notin Pid /\ None \notin Pid /\ None \notin Slots /\ 0 \notin Jobs
  /\ None = 0 /\ Old # None
BY BkgAssumption DEF None, Old, Slots, Jobs

LEMMA BusySlot ==
  ASSUME TypeOK, NEW j \in Jobs, Busy(j)
  PROVE  jobtable[j] \in Slots
BY DEF TypeOK, Busy

LEMMA BusyPid ==
  ASSUME TypeOK, TablesAgree, NEW j \in Jobs, Busy(j)
  PROVE  jobtable[j] \in Slots /\ PidOf(j) \in Pid /\ prtable[PidOf(j)] # "none"
<1>1. jobtable[j] \in Slots
  BY BusySlot
<1>2. PidOf(j) \in Pid \cup {None} /\ PidOf(j) # None /\ prtable[PidOf(j)] # "none"
  BY <1>1 DEF TypeOK, TablesAgree, PidOf
<1> QED BY <1>1, <1>2

(***************************************************************************)
(* Two busy jobs are in different slots.                                   *)
(***************************************************************************)
LEMMA SlotsDiffer ==
  ASSUME TablesAgree, NEW j \in Jobs, NEW k \in Jobs, Busy(j), Busy(k),
         jobtable[j] = jobtable[k]
  PROVE  j = k
BY DEF TablesAgree, PidOf

(***************************************************************************)
(* BKG_UPDATE.  What it leaves: the jobs of the table that are alive, with *)
(* their slots, their entries and their processes.                         *)
(***************************************************************************)
Kept(j) == UpdatedJobs[j] # 0

LEMMA UpdatedTypes ==
  ASSUME TypeOK
  PROVE  /\ UpdatedJobs \in [Jobs -> Slots \cup {0}]
         /\ UpdatedPrd \in [Slots -> Pid \cup {None}]
         /\ UpdatedPrtable \in [Pid -> {"none", "active", "done"}]
         /\ UpdatedProc \in [Pid -> [st : States, job : Jobs \cup {0},
                                     waits : 0 .. MaxWaits + 1, kin : SUBSET Pid]]
<1>1. NoProc \in [st : States, job : Jobs \cup {0}, waits : 0 .. MaxWaits + 1,
                  kin : SUBSET Pid]
  BY BkgAssumption DEF NoProc, States
<1>2. UpdatedJobs \in [Jobs -> Slots \cup {0}]
  BY DEF TypeOK, UpdatedJobs
<1>3. UpdatedPrd \in [Slots -> Pid \cup {None}]
  BY DEF TypeOK, UpdatedPrd
<1>4. UpdatedPrtable \in [Pid -> {"none", "active", "done"}]
  BY DEF TypeOK, UpdatedPrtable
<1>5. UpdatedProc \in [Pid -> [st : States, job : Jobs \cup {0},
                               waits : 0 .. MaxWaits + 1, kin : SUBSET Pid]]
  BY <1>1 DEF TypeOK, UpdatedProc
<1> QED BY <1>2, <1>3, <1>4, <1>5

LEMMA KeptIsAlive ==
  ASSUME TypeOK, TablesAgree, NEW j \in Jobs, Kept(j)
  PROVE  /\ Busy(j) /\ UpdatedJobs[j] = jobtable[j] /\ Alive(PidOf(j))
         /\ UpdatedPrd[jobtable[j]] = PidOf(j)
         /\ UpdatedPrtable[PidOf(j)] = prtable[PidOf(j)]
         /\ UpdatedProc[PidOf(j)] = proc[PidOf(j)]
<1>1. j \notin Done /\ UpdatedJobs[j] = jobtable[j] /\ Busy(j)
  BY DEF Kept, UpdatedJobs, Busy
<1>2. Alive(PidOf(j)) /\ jobtable[j] \in Slots /\ PidOf(j) \in Pid
  BY <1>1, BusyPid DEF Done
<1>3. jobtable[j] \notin DoneSlots
  <2> SUFFICES ASSUME NEW k \in Done, jobtable[j] = jobtable[k] PROVE FALSE
    BY DEF DoneSlots
  <2> QED BY <1>1, SlotsDiffer DEF Done
<1>4. PidOf(j) \notin DonePids
  BY <1>2 DEF Done, DonePids
<1> QED BY <1>1, <1>2, <1>3, <1>4 DEF UpdatedPrd, UpdatedPrtable, UpdatedProc, PidOf

LEMMA UpdatedOwners ==
  ASSUME TypeOK, TablesAgree
  PROVE  /\ \A s \in Slots : UpdatedPrd[s] # None => \E j \in Jobs : UpdatedJobs[j] = s
         /\ \A p \in Pid : UpdatedPrtable[p] # "none" =>
               \E j \in Jobs : Kept(j) /\ PidOf(j) = p
<1>1. ASSUME NEW s \in Slots, UpdatedPrd[s] # None
      PROVE  \E j \in Jobs : UpdatedJobs[j] = s
  <2>1. s \notin DoneSlots /\ prd[s] # None
    BY <1>1 DEF UpdatedPrd
  <2>2. PICK j \in Jobs : jobtable[j] = s
    BY <2>1 DEF TablesAgree
  <2> QED BY <2>1, <2>2 DEF DoneSlots, UpdatedJobs
<1>2. ASSUME NEW p \in Pid, UpdatedPrtable[p] # "none"
      PROVE  \E j \in Jobs : Kept(j) /\ PidOf(j) = p
  <2>1. p \notin DonePids /\ prtable[p] # "none"
    BY <1>2 DEF UpdatedPrtable
  <2>2. PICK j \in Jobs : Busy(j) /\ PidOf(j) = p
    BY <2>1 DEF TablesAgree
  <2> QED BY <2>1, <2>2 DEF DonePids, UpdatedJobs, Kept, Busy
<1> QED BY <1>1, <1>2

LEMMA UpdatedRunning ==
  ASSUME TypeOK, Tables, NEW p \in Pid, Running(p)
  PROVE  /\ Own(p) \in Jobs /\ Kept(Own(p)) /\ PidOf(Own(p)) = p
         /\ UpdatedProc[p] = proc[p]
<1>1. Own(p) \in Jobs /\ Busy(Own(p)) /\ PidOf(Own(p)) = p /\ Alive(p)
  BY DEF Tables, OwnJobs, NoJobLost, Running
<1>2. Own(p) \notin Done
  BY <1>1 DEF Done
<1>3. p \notin DonePids
  BY <1>1 DEF DonePids, Done
<1> QED BY <1>1, <1>2, <1>3 DEF Kept, UpdatedJobs, UpdatedProc, Busy

LEMMA UpdatedElse ==
  ASSUME TypeOK, NEW p \in Pid
  PROVE  UpdatedProc[p] = proc[p] \/ (UpdatedProc[p] = NoProc /\ ~Alive(p))
<1>1. p \in DonePids => ~Alive(p)
  BY DEF DonePids, Done
<1> QED BY <1>1 DEF UpdatedProc
-----------------------------------------------------------------------------
Procs == [st : States, job : Jobs \cup {0}, waits : 0 .. MaxWaits + 1, kin : SUBSET Pid]

LEMMA UpdateKeepsTables ==
  ASSUME TypeOK, Tables, Update
  PROVE  /\ jobtable' \in [Jobs -> Slots \cup {0}]
         /\ prd' \in [Slots -> Pid \cup {None}]
         /\ prtable' \in [Pid -> {"none", "active", "done"}]
         /\ proc' \in [Pid -> Procs]
         /\ \A p \in Pid : Running(p)' => Running(p) /\ proc'[p] = proc[p]
         /\ Tables'
<1>1. /\ jobtable' = UpdatedJobs /\ prd' = UpdatedPrd
      /\ prtable' = UpdatedPrtable /\ proc' = UpdatedProc
  BY DEF Update
<1>2. TablesAgree
  BY DEF Tables
<1>3. ASSUME NEW p \in Pid, Running(p)' PROVE Running(p) /\ proc'[p] = proc[p]
  <2>1. proc'[p] = proc[p] \/ proc'[p] = NoProc
    BY <1>1, UpdatedElse
  <2>2. proc'[p].st \notin {"none", "zombie", "dying"}
    BY <1>3 DEF Running, Alive
  <2>3. proc'[p] = proc[p]
    BY <2>1, <2>2 DEF NoProc
  <2> QED BY <2>2, <2>3 DEF Running, Alive
<1>4. ASSUME NEW j \in Jobs, Busy(j)'
      PROVE  /\ Kept(j) /\ Busy(j) /\ PidOf(j)' = PidOf(j) /\ PidOf(j) \in Pid
             /\ prtable'[PidOf(j)] = prtable[PidOf(j)] /\ prtable[PidOf(j)] # "none"
  <2>1. Kept(j)
    BY <1>1, <1>4 DEF Busy, Kept
  <2>2. Busy(j) /\ jobtable'[j] = jobtable[j] /\ prd'[jobtable[j]] = PidOf(j)
        /\ UpdatedPrtable[PidOf(j)] = prtable[PidOf(j)]
    BY <1>1, <1>2, <2>1, KeptIsAlive
  <2> QED BY <1>1, <1>2, <2>1, <2>2, BusyPid DEF PidOf
<1>5. TablesAgree'
  <2>1. ASSUME NEW j \in Jobs, Busy(j)'
        PROVE  (PidOf(j) # None /\ prtable[PidOf(j)] # "none")'
    BY <1>4, <2>1, Constants
  <2>2. ASSUME NEW j \in Jobs, NEW k \in Jobs, Busy(j)', Busy(k)', PidOf(j)' = PidOf(k)'
        PROVE  j = k
    BY <1>2, <1>4, <2>2 DEF TablesAgree
  <2>3. \A s \in Slots : prd'[s] # None => \E j \in Jobs : jobtable'[j] = s
    BY <1>1, <1>2, UpdatedOwners
  <2>4. ASSUME NEW p \in Pid, prtable'[p] # "none"
        PROVE  \E j \in Jobs : Busy(j)' /\ PidOf(j)' = p
    <3>1. PICK j \in Jobs : Kept(j) /\ PidOf(j) = p
      BY <1>1, <1>2, <2>4, UpdatedOwners
    <3>2. Busy(j)'
      BY <1>1, <3>1 DEF Kept, Busy
    <3> QED BY <1>4, <3>1, <3>2
  <2> QED BY <2>1, <2>2, <2>3, <2>4 DEF TablesAgree
<1>6. ASSUME NEW p \in Pid, Running(p)'
      PROVE  Own(p)' \in Jobs /\ (Busy(Own(p)) /\ PidOf(Own(p)) = p)'
  <2>1. Running(p) /\ Own(p)' = Own(p)
    BY <1>3, <1>6 DEF Own
  <2>2. PICK j \in Jobs : j = Own(p) /\ Kept(j) /\ PidOf(j) = p
    BY <2>1, UpdatedRunning
  <2>3. Busy(j)'
    BY <1>1, <2>2 DEF Kept, Busy
  <2>4. PidOf(j)' = p
    BY <1>4, <2>2, <2>3
  <2>5. Own(p)' = j
    BY <2>1, <2>2
  <2> QED BY <2>3, <2>4, <2>5 DEF Busy, PidOf
<1>7. NoJobLost' /\ OwnJobs'
  BY <1>6 DEF NoJobLost, OwnJobs
<1> QED BY <1>1, <1>3, <1>5, <1>7, UpdatedTypes DEF Tables, Procs
-----------------------------------------------------------------------------
(***************************************************************************)
(* The files, when nothing runs that did not run before.                   *)
(***************************************************************************)
StillRunning == \A p \in Pid : Running(p)' => Running(p) /\ proc'[p] = proc[p]

LEMMA FilesStay ==
  ASSUME Files, StillRunning, UNCHANGED <<bqfile, qrfile>>
  PROVE  /\ FilesAreOwn'
         /\ cl' = cl \/ (cl.pc # "typed" /\ cl'.pc # "typed") => Asking'
         /\ cl' = cl \/ cl'.pc # "type" => Typing'
<1>1. ASSUME NEW p \in Pid, Running(p)'
      PROVE  /\ Running(p) /\ Own(p)' = Own(p) /\ proc'[p] = proc[p]
             /\ bqfile'[Own(p)] = bqfile[Own(p)] /\ qrfile'[Own(p)] = qrfile[Own(p)]
  BY <1>1 DEF StillRunning, Own
<1>2. FilesAreOwn'
  BY <1>1 DEF Files, FilesAreOwn
<1>3. ASSUME cl' = cl \/ (cl.pc # "typed" /\ cl'.pc # "typed") PROVE Asking'
  <2> SUFFICES ASSUME NEW p \in Pid, Running(p)'
               PROVE  (/\ bqfile[Own(p)] = p /\ ~AnsweredNow(Own(p))
                            => \/ proc[p].st = "clear"
                               \/ proc[p].st = "wait" /\ qrfile[Own(p)] = None
                       /\ proc[p].st = "run" => qrfile[Own(p)] = None)'
    BY DEF Asking
  <2>1. AnsweredNow(Own(p))' <=> AnsweredNow(Own(p))
    BY <1>1, <1>3 DEF AnsweredNow
  <2> QED BY <1>1, <2>1 DEF Files, Asking
<1>4. ASSUME cl' = cl \/ cl'.pc # "type" PROVE Typing'
  BY <1>1, <1>4 DEF Files, Typing
<1> QED BY <1>2, <1>3, <1>4

LEMMA FilesCleared ==
  ASSUME TypeOK, Files, StillRunning, cl' = cl, cl.pc = "idle", NEW j \in Jobs,
         bqfile' = DelFiles(bqfile, j), qrfile' = DelFiles(qrfile, j),
         \A p \in Pid : Running(p) => Own(p) \in Jobs
  PROVE  Files'
<1>1. ASSUME NEW p \in Pid, Running(p)'
      PROVE  /\ Running(p) /\ Own(p)' = Own(p) /\ proc'[p] = proc[p]
             /\ bqfile'[Own(p)] \in {None, bqfile[Own(p)]}
             /\ qrfile'[Own(p)] \in {None, qrfile[Own(p)]}
  <2>1. Running(p) /\ Own(p)' = Own(p) /\ proc'[p] = proc[p] /\ Own(p) \in Jobs
    BY <1>1 DEF StillRunning, Own
  <2>2. bqfile \in [Jobs -> Pid \cup {None, Old}] /\ qrfile \in [Jobs -> Pid \cup {None, Old}]
    BY DEF TypeOK
  <2> QED BY <2>1, <2>2 DEF DelFiles
<1>2. FilesAreOwn'
  BY <1>1 DEF Files, FilesAreOwn
<1>3. Asking'
  <2> SUFFICES ASSUME NEW p \in Pid, Running(p)'
               PROVE  (/\ bqfile[Own(p)] = p /\ ~AnsweredNow(Own(p))
                            => \/ proc[p].st = "clear"
                               \/ proc[p].st = "wait" /\ qrfile[Own(p)] = None
                       /\ proc[p].st = "run" => qrfile[Own(p)] = None)'
    BY DEF Asking
  <2>1. ~AnsweredNow(Own(p)) /\ p # None
    BY Constants DEF AnsweredNow
  <2> QED BY <1>1, <2>1 DEF Files, Asking
<1>4. Typing'
  BY DEF Typing
<1> QED BY <1>2, <1>3, <1>4 DEF Files
-----------------------------------------------------------------------------
(***************************************************************************)
(* The commands of the CL that begin with BKG_UPDATE.                      *)
(***************************************************************************)
ClStates == [pc : {"idle", "wait", "kill", "type", "typed"}, job : Jobs \cup {0},
             asker : Pid \cup {None, Old}]

LEMMA UpdatedTypeOK ==
  ASSUME TypeOK, Tables, Update, lastjobno' = lastjobno, cl' \in ClStates,
         bqfile' \in [Jobs -> Pid \cup {None, Old}],
         qrfile' \in [Jobs -> Pid \cup {None, Old}]
  PROVE  TypeOK' /\ Tables' /\ StillRunning
<1>1. lastjobno' \in 0 .. NBKG
  BY DEF TypeOK
<1>2. Tables' /\ StillRunning
  BY UpdateKeepsTables DEF StillRunning
<1> QED BY <1>1, <1>2, UpdateKeepsTables DEF TypeOK, ClStates, Procs

LEMMA IdleState == Idle \in ClStates
BY DEF Idle, ClStates

LEMMA CommandKeeps ==
  ASSUME IInv, Update, UNCHANGED <<lastjobno, bqfile, qrfile>>, cl' \in ClStates,
         cl' = cl \/ (cl.pc # "typed" /\ cl'.pc \notin {"type", "typed"})
  PROVE  IInv'
<1>1. bqfile' \in [Jobs -> Pid \cup {None, Old}] /\ qrfile' \in [Jobs -> Pid \cup {None, Old}]
  BY DEF IInv, TypeOK
<1>2. TypeOK' /\ Tables' /\ StillRunning
  BY <1>1, UpdatedTypeOK DEF IInv
<1>3. Files'
  BY <1>2, FilesStay DEF IInv, Files
<1> QED BY <1>2, <1>3 DEF IInv

LEMMA WaitKeeps == ASSUME IInv, NEW j \in Jobs \cup {0}, Wait(j) PROVE IInv'
<1>1. cl \in ClStates /\ [Idle EXCEPT !.pc = "wait", !.job = j] \in ClStates
  BY DEF IInv, TypeOK, ClStates, Idle
<1> QED BY <1>1, CommandKeeps DEF Wait, Idle

LEMMA PollKeeps == ASSUME IInv, Poll PROVE IInv'
<1>1. cl \in ClStates
  BY DEF IInv, TypeOK, ClStates
<1> QED BY <1>1, IdleState, CommandKeeps DEF Poll, Idle

LEMMA KillKeeps == ASSUME IInv, NEW j \in Jobs \cup {0}, Kill(j) PROVE IInv'
<1>1. cl \in ClStates /\ [Idle EXCEPT !.pc = "kill", !.job = j] \in ClStates
  BY DEF IInv, TypeOK, ClStates, Idle
<1> QED BY <1>1, CommandKeeps DEF Kill, Idle

LEMMA SpawnFailsKeeps == ASSUME IInv, NEW j \in Jobs, SpawnFails(j) PROVE IInv'
<1>1. /\ cl.pc = "idle" /\ cl' = cl /\ lastjobno' = lastjobno /\ Update
      /\ bqfile' = DelFiles(bqfile, j) /\ qrfile' = DelFiles(qrfile, j)
  BY DEF SpawnFails
<1>2. bqfile' \in [Jobs -> Pid \cup {None, Old}] /\ qrfile' \in [Jobs -> Pid \cup {None, Old}]
  BY <1>1 DEF IInv, TypeOK, DelFiles
<1>3. TypeOK' /\ Tables' /\ StillRunning
  BY <1>1, <1>2, UpdatedTypeOK DEF IInv, TypeOK, ClStates
<1>4. Files'
  BY <1>1, <1>3, FilesCleared DEF IInv, Tables, OwnJobs
<1> QED BY <1>3, <1>4 DEF IInv

LEMMA ServiceKeeps == ASSUME IInv, NEW j \in Jobs, Service(j) PROVE IInv'
<1>1. /\ cl.pc = "idle" /\ Update /\ UNCHANGED <<lastjobno, bqfile, qrfile>>
      /\ cl' = IF UpdatedJobs[j] # 0 /\ bqfile[j] # None
               THEN [pc |-> "type", job |-> j, asker |-> bqfile[j]] ELSE cl
  BY DEF Service
<1>2. cl \in ClStates /\ cl' \in ClStates
  BY <1>1 DEF IInv, TypeOK, ClStates
<1>3. CASE cl' = cl
  BY <1>1, <1>2, <1>3, CommandKeeps
<1>4. CASE bqfile[j] # None /\ cl' = [pc |-> "type", job |-> j, asker |-> bqfile[j]]
  <2>1. bqfile' \in [Jobs -> Pid \cup {None, Old}] /\ qrfile' \in [Jobs -> Pid \cup {None, Old}]
    BY <1>1 DEF IInv, TypeOK
  <2>2. TypeOK' /\ Tables' /\ StillRunning
    BY <1>1, <1>2, <2>1, UpdatedTypeOK DEF IInv
  <2>3. FilesAreOwn' /\ Asking'
    BY <1>1, <1>4, <2>2, FilesStay DEF IInv
  <2>4. Typing'
    <3> SUFFICES ASSUME NEW p \in Pid, Running(p)', Own(p)' = j
                 PROVE  bqfile[j] = p
      BY <1>1, <1>4 DEF Typing
    <3>1. Running(p) /\ Own(p) = j
      BY <2>2 DEF StillRunning, Own
    <3> QED BY <1>4, <3>1 DEF IInv, Files, FilesAreOwn
  <2> QED BY <2>2, <2>3, <2>4 DEF IInv, Files
<1> QED BY <1>1, <1>3, <1>4
-----------------------------------------------------------------------------
(***************************************************************************)
(* BKG_SPAWN: the slots and the pid it takes are free in all tables.       *)
(***************************************************************************)
LEMMA SpawnTables ==
  ASSUME IInv, NEW j \in Jobs, NEW s \in Slots, NEW p \in Pid, Spawn(j, s, p)
  PROVE  /\ Tables' /\ Running(p)' /\ proc'[p].st = "run" /\ Own(p)' = j
         /\ \A q \in Pid : q # p /\ Running(q)' =>
               Running(q) /\ proc'[q] = proc[q] /\ Own(q) # j
<1>1. /\ UpdatedJobs[j] = 0 /\ UpdatedPrd[s] = None /\ UpdatedProc[p].st = "none"
      /\ prd' = [UpdatedPrd EXCEPT ![s] = p]
      /\ prtable' = [UpdatedPrtable EXCEPT ![p] = "active"]
      /\ jobtable' = [UpdatedJobs EXCEPT ![j] = s]
  BY DEF Spawn, IsNext, FreeJobs, FreeSlots
<1>2. /\ UpdatedJobs \in [Jobs -> Slots \cup {0}] /\ UpdatedPrd \in [Slots -> Pid \cup {None}]
      /\ UpdatedPrtable \in [Pid -> {"none", "active", "done"}]
      /\ UpdatedProc \in [Pid -> Procs]
  BY UpdatedTypes DEF IInv, Procs
<1>3. TypeOK /\ TablesAgree /\ Tables
  BY DEF IInv, Tables
<1>4. proc'[p].st = "run" /\ proc'[p].job = j
      /\ \A q \in Pid : q # p => proc'[q] = UpdatedProc[q]
  BY <1>2 DEF Spawn
<1>5. Running(p)' /\ Own(p)' = j
  BY <1>4 DEF Running, Alive, Own
<1>6. jobtable'[j] = s /\ prd'[s] = p /\ PidOf(j)' = p /\ Busy(j)' /\ prtable'[p] = "active"
  BY <1>1, <1>2, Constants DEF PidOf, Busy
<1>7. ASSUME NEW k \in Jobs, k # j, Busy(k)'
      PROVE  /\ Kept(k) /\ PidOf(k)' = PidOf(k) /\ PidOf(k) \in Pid /\ PidOf(k) # p
             /\ jobtable'[k] # s /\ prtable'[PidOf(k)] # "none"
  <2>1. Kept(k) /\ jobtable'[k] = UpdatedJobs[k]
    BY <1>1, <1>2, <1>7 DEF Kept, Busy
  <2>2. /\ Busy(k) /\ UpdatedJobs[k] = jobtable[k] /\ Alive(PidOf(k))
        /\ UpdatedPrd[jobtable[k]] = PidOf(k)
        /\ UpdatedPrtable[PidOf(k)] = prtable[PidOf(k)]
        /\ UpdatedProc[PidOf(k)] = proc[PidOf(k)]
    BY <1>3, <2>1, KeptIsAlive
  <2>3. jobtable[k] \in Slots /\ PidOf(k) \in Pid /\ prtable[PidOf(k)] # "none"
    BY <1>3, <2>2, BusyPid
  <2>4. PidOf(k) # p
    BY <1>1, <2>2 DEF Alive
  <2>5. jobtable[k] # s
    BY <1>1, <2>2, <2>3, Constants
  <2>6. PidOf(k)' = PidOf(k)
    BY <1>1, <1>2, <2>1, <2>2, <2>3, <2>5 DEF PidOf
  <2>7. prtable'[PidOf(k)] # "none"
    BY <1>1, <1>2, <2>2, <2>3, <2>4
  <2> QED BY <2>1, <2>2, <2>3, <2>4, <2>5, <2>6, <2>7
<1>8. TablesAgree'
  <2>1. ASSUME NEW k \in Jobs, Busy(k)'
        PROVE  (PidOf(k) # None /\ prtable[PidOf(k)] # "none")'
    BY <1>6, <1>7, <2>1, Constants
  <2>2. ASSUME NEW k \in Jobs, NEW l \in Jobs, Busy(k)', Busy(l)', PidOf(k)' = PidOf(l)'
        PROVE  k = l
    <3>1. CASE k = j
      BY <1>6, <1>7, <2>2, <3>1
    <3>2. CASE l = j
      BY <1>6, <1>7, <2>2, <3>2
    <3>3. CASE k # j /\ l # j
      <4>1. Kept(k) /\ Kept(l) /\ PidOf(k) = PidOf(l)
        BY <1>7, <2>2, <3>3
      <4>2. Busy(k) /\ Busy(l)
        BY <1>3, <4>1, KeptIsAlive
      <4> QED BY <1>3, <4>1, <4>2 DEF TablesAgree
    <3> QED BY <3>1, <3>2, <3>3
  <2>3. ASSUME NEW t \in Slots, prd'[t] # None
        PROVE  \E k \in Jobs : jobtable'[k] = t
    <3>1. CASE t = s
      BY <1>6, <3>1
    <3>2. CASE t # s
      <4>1. PICK k \in Jobs : UpdatedJobs[k] = t
        BY <1>1, <1>2, <1>3, <2>3, <3>2, UpdatedOwners
      <4> QED BY <1>1, <1>2, <4>1, Constants
    <3> QED BY <3>1, <3>2
  <2>4. ASSUME NEW q \in Pid, prtable'[q] # "none"
        PROVE  \E k \in Jobs : Busy(k)' /\ PidOf(k)' = q
    <3>1. CASE q = p
      BY <1>6, <3>1
    <3>2. CASE q # p
      <4>1. PICK k \in Jobs : Kept(k) /\ PidOf(k) = q
        BY <1>1, <1>2, <1>3, <2>4, <3>2, UpdatedOwners
      <4>2. k # j /\ Busy(k)'
        BY <1>1, <1>2, <4>1 DEF Kept, Busy
      <4> QED BY <1>7, <4>1, <4>2
    <3> QED BY <3>1, <3>2
  <2> QED BY <2>1, <2>2, <2>3, <2>4 DEF TablesAgree
<1>9. ASSUME NEW q \in Pid, q # p, Running(q)'
      PROVE  /\ Running(q) /\ proc'[q] = proc[q] /\ Own(q) # j /\ Own(q) \in Jobs
             /\ Kept(Own(q)) /\ PidOf(Own(q)) = q
  <2>1. proc'[q] = UpdatedProc[q]
    BY <1>4, <1>9
  <2>2. proc'[q].st \notin {"none", "zombie", "dying"}
    BY <1>9 DEF Running, Alive
  <2>3. proc'[q] = proc[q] /\ Running(q)
    BY <1>3, <2>1, <2>2, UpdatedElse DEF NoProc, Running, Alive
  <2>4. Own(q) \in Jobs /\ Kept(Own(q)) /\ PidOf(Own(q)) = q
    BY <1>3, <2>3, UpdatedRunning
  <2>5. Own(q) # j
    BY <1>1, <2>4 DEF Kept
  <2> QED BY <2>3, <2>4, <2>5
<1>10. ASSUME NEW q \in Pid, Running(q)'
       PROVE  Own(q)' \in Jobs /\ (Busy(Own(q)) /\ PidOf(Own(q)) = q)'
  <2>1. CASE q = p
    BY <1>5, <1>6, <2>1 DEF Busy, PidOf
  <2>2. CASE q # p
    <3>1. PICK k \in Jobs : k = Own(q) /\ Kept(k) /\ PidOf(k) = q /\ k # j
      BY <1>9, <1>10, <2>2
    <3>2. Own(q)' = k
      BY <1>9, <1>10, <2>2, <3>1 DEF Own
    <3>3. Busy(k)'
      BY <1>1, <1>2, <3>1 DEF Kept, Busy
    <3>4. PidOf(k)' = q
      BY <1>7, <3>1, <3>3
    <3> QED BY <3>2, <3>3, <3>4 DEF Busy, PidOf
  <2> QED BY <2>1, <2>2
<1>11. NoJobLost' /\ OwnJobs'
  BY <1>10 DEF NoJobLost, OwnJobs
<1> QED BY <1>4, <1>5, <1>8, <1>9, <1>11 DEF Tables

LEMMA SpawnTypes ==
  ASSUME IInv, NEW j \in Jobs, NEW s \in Slots, NEW p \in Pid, Spawn(j, s, p)
  PROVE  TypeOK'
<1>1. /\ UpdatedJobs \in [Jobs -> Slots \cup {0}] /\ UpdatedPrd \in [Slots -> Pid \cup {None}]
      /\ UpdatedPrtable \in [Pid -> {"none", "active", "done"}]
      /\ UpdatedProc \in [Pid -> Procs]
  BY UpdatedTypes DEF IInv, Procs
<1> DEFINE kin == {PidOf(k) : k \in {i \in Jobs : UpdatedJobs[i] # 0}}
<1>2. kin \subseteq Pid
  <2> SUFFICES ASSUME NEW k \in Jobs, UpdatedJobs[k] # 0 PROVE PidOf(k) \in Pid
    OBVIOUS
  <2>1. Busy(k)
    BY KeptIsAlive DEF IInv, Tables, Kept
  <2> QED BY <2>1, BusyPid DEF IInv, Tables
<1>4. proc' = [UpdatedProc EXCEPT ![p] = [st |-> "run", job |-> j, waits |-> 0, kin |-> kin]]
  BY DEF Spawn
<1> HIDE DEF kin
<1>5. [st |-> "run", job |-> j, waits |-> 0, kin |-> kin] \in Procs
  BY <1>2, BkgAssumption DEF Procs, States
<1>6. proc' \in [Pid -> Procs]
  BY <1>1, <1>4, <1>5
<1>7. jobtable' \in [Jobs -> Slots \cup {0}] /\ prd' \in [Slots -> Pid \cup {None}]
      /\ prtable' \in [Pid -> {"none", "active", "done"}]
  BY <1>1 DEF Spawn
<1>8. bqfile' \in [Jobs -> Pid \cup {None, Old}] /\ qrfile' \in [Jobs -> Pid \cup {None, Old}]
  BY DEF Spawn, DelFiles, IInv, TypeOK
<1>9. lastjobno' \in 0 .. NBKG /\ cl' \in ClStates
  BY DEF Spawn, Jobs, IInv, TypeOK, ClStates
<1> QED BY <1>6, <1>7, <1>8, <1>9 DEF TypeOK, Procs, ClStates

LEMMA SpawnKeeps ==
  ASSUME IInv, NEW j \in Jobs, NEW s \in Slots, NEW p \in Pid, Spawn(j, s, p)
  PROVE  IInv'
<1>1. /\ Running(p)' /\ proc'[p].st = "run" /\ Own(p)' = j
      /\ \A q \in Pid : q # p /\ Running(q)' =>
            Running(q) /\ proc'[q] = proc[q] /\ Own(q) # j
  BY SpawnTables
<1>2. cl' = cl /\ cl.pc = "idle" /\ bqfile'[j] = None /\ qrfile'[j] = None
      /\ \A k \in Jobs : k # j => bqfile'[k] = bqfile[k] /\ qrfile'[k] = qrfile[k]
  BY DEF Spawn, DelFiles, IInv, TypeOK
<1>3. ASSUME NEW q \in Pid, q # p, Running(q)'
      PROVE  /\ Running(q) /\ Own(q)' = Own(q) /\ proc'[q] = proc[q]
             /\ bqfile'[Own(q)] = bqfile[Own(q)] /\ qrfile'[Own(q)] = qrfile[Own(q)]
  <2>1. Running(q) /\ proc'[q] = proc[q] /\ Own(q) # j
    BY <1>1, <1>3
  <2>2. Own(q) \in Jobs
    BY <2>1 DEF IInv, Tables, OwnJobs
  <2> QED BY <1>2, <2>1, <2>2 DEF Own
<1>4. FilesAreOwn'
  BY <1>1, <1>2, <1>3 DEF IInv, Files, FilesAreOwn
<1>5. Asking'
  <2> SUFFICES ASSUME NEW q \in Pid, Running(q)'
               PROVE  (/\ bqfile[Own(q)] = q /\ ~AnsweredNow(Own(q))
                            => \/ proc[q].st = "clear"
                               \/ proc[q].st = "wait" /\ qrfile[Own(q)] = None
                       /\ proc[q].st = "run" => qrfile[Own(q)] = None)'
    BY DEF Asking
  <2>1. CASE q = p
    BY <1>1, <1>2, <2>1, Constants
  <2>2. CASE q # p
    BY <1>2, <1>3, <2>2 DEF IInv, Files, Asking, AnsweredNow
  <2> QED BY <2>1, <2>2
<1>6. Typing'
  BY <1>2 DEF Typing
<1> QED BY <1>4, <1>5, <1>6, SpawnTables, SpawnTypes DEF IInv, Files
-----------------------------------------------------------------------------
(***************************************************************************)
(* Steps that leave the tables of the CL and of the VOS as they are.       *)
(***************************************************************************)
LEMMA TablesStay ==
  ASSUME Tables, UNCHANGED <<jobtable, prd, prtable>>,
         \A p \in Pid : Running(p)' => Running(p) /\ Own(p)' = Own(p)
  PROVE  Tables'
<1>1. TablesAgree'
  BY DEF Tables, TablesAgree, Busy, PidOf
<1>2. NoJobLost' /\ OwnJobs'
  BY DEF Tables, NoJobLost, OwnJobs, Busy, PidOf
<1> QED BY <1>1, <1>2 DEF Tables

LEMMA SignalledTypes ==
  ASSUME TypeOK, NEW pids
  PROVE  /\ Signalled(pids) \in [Pid -> Procs]
         /\ \A p \in Pid : \/ Signalled(pids)[p] = proc[p] /\ (p \notin pids \/ ~Alive(p))
                           \/ Signalled(pids)[p].st = "dying" /\ p \in pids
<1>1. \A p \in Pid : proc[p] \in Procs /\ proc[p].kin \subseteq Pid
  BY DEF TypeOK, Procs
<1>2. \A p \in Pid : [st |-> "dying", job |-> 0, waits |-> 0, kin |-> proc[p].kin] \in Procs
  BY <1>1, BkgAssumption DEF Procs, States
<1> QED BY <1>1, <1>2 DEF Signalled

(***************************************************************************)
(* BKG_KILL.                                                               *)
(***************************************************************************)
LEMMA KillAllTables ==
  ASSUME TypeOK, Tables, NEW K \in SUBSET {j \in Jobs : Busy(j)}, KillAll(K)
  PROVE  Tables' /\ StillRunning
<1> DEFINE pids == {PidOf(j) : j \in K}
           slots == {jobtable[j] : j \in K}
<1>1. /\ jobtable' = [j \in Jobs |-> IF j \in K THEN 0 ELSE jobtable[j]]
      /\ prd' = [s \in Slots |-> IF s \in slots THEN None ELSE prd[s]]
      /\ prtable' = [p \in Pid |-> IF p \in pids THEN "none" ELSE prtable[p]]
      /\ proc' = Signalled(pids)
  BY DEF KillAll, Released
<1>2. TablesAgree
  BY DEF Tables
<1>3. ASSUME NEW j \in Jobs, Busy(j), j \notin K
      PROVE  jobtable[j] \notin slots /\ PidOf(j) \notin pids
  BY <1>2, <1>3, SlotsDiffer DEF TablesAgree
<1> HIDE DEF pids, slots
<1>4. ASSUME NEW j \in Jobs, Busy(j)'
      PROVE  /\ Busy(j) /\ j \notin K /\ PidOf(j)' = PidOf(j) /\ PidOf(j) \in Pid
             /\ prtable'[PidOf(j)] = prtable[PidOf(j)]
  <2>1. Busy(j) /\ j \notin K /\ jobtable'[j] = jobtable[j]
    BY <1>1, <1>4 DEF Busy
  <2>2. jobtable[j] \in Slots /\ PidOf(j) \in Pid
    BY <1>2, <2>1, BusyPid
  <2> QED BY <1>1, <1>3, <2>1, <2>2 DEF PidOf
<1>5. TablesAgree'
  <2>1. ASSUME NEW j \in Jobs, Busy(j)'
        PROVE  (PidOf(j) # None /\ prtable[PidOf(j)] # "none")'
    BY <1>2, <1>4, <2>1, BusyPid, Constants
  <2>2. ASSUME NEW j \in Jobs, NEW k \in Jobs, Busy(j)', Busy(k)', PidOf(j)' = PidOf(k)'
        PROVE  j = k
    BY <1>2, <1>4, <2>2 DEF TablesAgree
  <2>3. ASSUME NEW s \in Slots, prd'[s] # None
        PROVE  \E j \in Jobs : jobtable'[j] = s
    <3>1. s \notin slots /\ prd[s] # None
      BY <1>1, <2>3
    <3>2. PICK j \in Jobs : jobtable[j] = s
      BY <1>2, <3>1 DEF TablesAgree
    <3>3. j \notin K
      BY <3>1, <3>2 DEF slots
    <3> QED BY <1>1, <3>2, <3>3
  <2>4. ASSUME NEW p \in Pid, prtable'[p] # "none"
        PROVE  \E j \in Jobs : Busy(j)' /\ PidOf(j)' = p
    <3>1. p \notin pids /\ prtable[p] # "none"
      BY <1>1, <2>4
    <3>2. PICK j \in Jobs : Busy(j) /\ PidOf(j) = p
      BY <1>2, <3>1 DEF TablesAgree
    <3>3. j \notin K
      BY <3>1, <3>2 DEF pids
    <3>4. Busy(j)'
      BY <1>1, <3>2, <3>3 DEF Busy
    <3> QED BY <1>4, <3>2, <3>4
  <2> QED BY <2>1, <2>2, <2>3, <2>4 DEF TablesAgree
<1>6. ASSUME NEW p \in Pid, Running(p)'
      PROVE  Running(p) /\ proc'[p] = proc[p] /\ p \notin pids
  <2>1. proc'[p].st \notin {"none", "zombie", "dying"}
    BY <1>6 DEF Running, Alive
  <2>2. proc'[p] = proc[p] /\ (p \notin pids \/ ~Alive(p))
    BY <1>1, <2>1, SignalledTypes
  <2> QED BY <2>1, <2>2 DEF Running, Alive
<1>7. ASSUME NEW p \in Pid, Running(p)'
      PROVE  Own(p)' \in Jobs /\ (Busy(Own(p)) /\ PidOf(Own(p)) = p)'
  <2>1. PICK j \in Jobs : j = Own(p) /\ Busy(j) /\ PidOf(j) = p /\ Own(p)' = j
    BY <1>6, <1>7 DEF Tables, NoJobLost, OwnJobs, Own
  <2>2. j \notin K
    BY <1>6, <1>7, <2>1 DEF pids
  <2>3. Busy(j)'
    BY <1>1, <2>1, <2>2 DEF Busy
  <2>4. PidOf(j)' = p
    BY <1>4, <2>1, <2>3
  <2> QED BY <2>1, <2>3, <2>4 DEF Busy, PidOf
<1> QED BY <1>5, <1>6, <1>7 DEF Tables, NoJobLost, OwnJobs, StillRunning

LEMMA KillingKeeps == ASSUME IInv, Killing PROVE IInv'
<1> DEFINE K == {j \in Jobs : Busy(j) /\ cl.job \in {0, j}}
<1>1. cl.pc = "kill" /\ cl' = Idle /\ UNCHANGED <<lastjobno, bqfile, qrfile>>
  BY DEF Killing
<1>2. KillAll(K)
  BY DEF Killing
<1>3. K \subseteq {j \in Jobs : Busy(j)}
  OBVIOUS
<1> HIDE DEF K
<1>4. Tables' /\ StillRunning
  BY <1>2, <1>3, KillAllTables DEF IInv
<1>5. Files'
  BY <1>1, <1>4, FilesStay DEF IInv, Files, Idle
<1>6. TypeOK'
  <2>1. proc' \in [Pid -> Procs]
    BY <1>2, SignalledTypes DEF KillAll, IInv
  <2>2. /\ jobtable' \in [Jobs -> Slots \cup {0}] /\ prd' \in [Slots -> Pid \cup {None}]
        /\ prtable' \in [Pid -> {"none", "active", "done"}]
    BY <1>2 DEF KillAll, Released, IInv, TypeOK
  <2> QED BY <1>1, <2>1, <2>2, IdleState DEF IInv, TypeOK, Procs, ClStates
<1> QED BY <1>4, <1>5, <1>6 DEF IInv
-----------------------------------------------------------------------------
(***************************************************************************)
(* SERVICE_BKGQUERY, after the query was found.                            *)
(***************************************************************************)
LEMMA TypeKeeps == ASSUME IInv, Type PROVE IInv'
<1>1. /\ cl.pc = "type" /\ cl'.pc = "typed" /\ cl'.job = cl.job /\ cl'.asker = cl.asker
      /\ qrfile' = [qrfile EXCEPT ![cl.job] = cl.asker]
      /\ UNCHANGED <<lastjobno, jobtable, prd, prtable, proc, bqfile>>
  BY DEF Type, IInv, TypeOK
<1>2. TypeOK'
  <2>1. cl' \in ClStates
    BY <1>1 DEF Type, IInv, TypeOK, ClStates
  <2>2. qrfile' \in [Jobs -> Pid \cup {None, Old}]
    BY <1>1 DEF IInv, TypeOK
  <2> QED BY <1>1, <2>1, <2>2 DEF IInv, TypeOK, ClStates
<1>3. ASSUME NEW p \in Pid, Running(p)' PROVE Running(p) /\ Own(p)' = Own(p) /\ Own(p) \in Jobs
  BY <1>1, <1>3 DEF Running, Alive, Own, IInv, Tables, OwnJobs
<1>4. Tables'
  BY <1>1, <1>3, TablesStay DEF IInv
<1>5. ASSUME NEW p \in Pid, Running(p)', Own(p) = cl.job
      PROVE  bqfile[Own(p)] = p /\ cl.asker = p /\ proc[p].st # "run"
  <2>1. Running(p) /\ bqfile[Own(p)] = p /\ cl.asker = p
    BY <1>1, <1>3, <1>5 DEF IInv, Files, Typing
  <2>2. ~AnsweredNow(Own(p))
    BY <1>1 DEF AnsweredNow
  <2> QED BY <2>1, <2>2 DEF IInv, Files, Asking
<1>6. ASSUME NEW p \in Pid, Running(p)', Own(p) # cl.job
      PROVE  qrfile'[Own(p)] = qrfile[Own(p)] /\ ~AnsweredNow(Own(p)) /\ ~AnsweredNow(Own(p))'
  BY <1>1, <1>3, <1>6 DEF IInv, TypeOK, AnsweredNow
<1>7. FilesAreOwn'
  <2> SUFFICES ASSUME NEW p \in Pid, Running(p)'
               PROVE  (bqfile[Own(p)] \in {None, p} /\ qrfile[Own(p)] \in {None, p})'
    BY DEF FilesAreOwn
  <2>1. CASE Own(p) = cl.job
    <3>1. qrfile'[Own(p)] = p
      BY <1>1, <1>3, <1>5, <2>1 DEF IInv, TypeOK
    <3> QED BY <1>1, <1>3, <1>5, <2>1, <3>1
  <2>2. CASE Own(p) # cl.job
    BY <1>1, <1>3, <1>6, <2>2 DEF IInv, Files, FilesAreOwn
  <2> QED BY <2>1, <2>2
<1>8. Asking'
  <2> SUFFICES ASSUME NEW p \in Pid, Running(p)'
               PROVE  (/\ bqfile[Own(p)] = p /\ ~AnsweredNow(Own(p))
                            => \/ proc[p].st = "clear"
                               \/ proc[p].st = "wait" /\ qrfile[Own(p)] = None
                       /\ proc[p].st = "run" => qrfile[Own(p)] = None)'
    BY DEF Asking
  <2>1. CASE Own(p) = cl.job
    <3>1. AnsweredNow(Own(p))'
      BY <1>1, <1>3, <2>1 DEF AnsweredNow
    <3> QED BY <1>1, <1>5, <2>1, <3>1
  <2>2. CASE Own(p) # cl.job
    BY <1>1, <1>3, <1>6, <2>2 DEF IInv, Files, Asking
  <2> QED BY <2>1, <2>2
<1>9. Typing'
  BY <1>1 DEF Typing
<1> QED BY <1>2, <1>4, <1>7, <1>8, <1>9 DEF IInv, Files

LEMMA DeleteQueryKeeps == ASSUME IInv, DeleteQuery PROVE IInv'
<1>1. /\ cl.pc = "typed" /\ cl' = Idle /\ bqfile' = [bqfile EXCEPT ![cl.job] = None]
      /\ UNCHANGED <<lastjobno, jobtable, prd, prtable, proc, qrfile>>
  BY DEF DeleteQuery
<1>2. TypeOK'
  <2>1. bqfile' \in [Jobs -> Pid \cup {None, Old}]
    BY <1>1 DEF IInv, TypeOK
  <2> QED BY <1>1, <2>1, IdleState DEF IInv, TypeOK, ClStates
<1>3. ASSUME NEW p \in Pid, Running(p)'
      PROVE  /\ Running(p) /\ Own(p)' = Own(p) /\ p # None
             /\ bqfile'[Own(p)] = IF Own(p) = cl.job THEN None ELSE bqfile[Own(p)]
  <2>1. Running(p) /\ Own(p)' = Own(p) /\ Own(p) \in Jobs
    BY <1>1, <1>3 DEF Running, Alive, Own, IInv, Tables, OwnJobs
  <2> QED BY <1>1, <2>1, Constants DEF IInv, TypeOK
<1>4. Tables'
  BY <1>1, <1>3, TablesStay DEF IInv
<1>5. FilesAreOwn'
  BY <1>1, <1>3 DEF IInv, Files, FilesAreOwn
<1>6. Asking'
  <2> SUFFICES ASSUME NEW p \in Pid, Running(p)'
               PROVE  (/\ bqfile[Own(p)] = p /\ ~AnsweredNow(Own(p))
                            => \/ proc[p].st = "clear"
                               \/ proc[p].st = "wait" /\ qrfile[Own(p)] = None
                       /\ proc[p].st = "run" => qrfile[Own(p)] = None)'
    BY DEF Asking
  <2>1. Own(p) # cl.job => ~AnsweredNow(Own(p))
    BY DEF AnsweredNow
  <2> QED BY <1>1, <1>3, <2>1 DEF IInv, Files, Asking
<1>7. Typing'
  BY <1>1 DEF Typing, Idle
<1> QED BY <1>2, <1>4, <1>5, <1>6, <1>7 DEF IInv, Files

LEMMA InterruptKeeps == ASSUME IInv, Interrupt PROVE IInv'
<1>1. /\ cl.pc # "typed" /\ cl' = Idle
      /\ UNCHANGED <<lastjobno, jobtable, prd, prtable, proc, bqfile, qrfile>>
  BY DEF Interrupt
<1>2. TypeOK'
  BY <1>1, IdleState DEF IInv, TypeOK, ClStates
<1>3. StillRunning /\ \A p \in Pid : Own(p)' = Own(p)
  BY <1>1 DEF StillRunning, Running, Alive, Own
<1>4. Tables'
  BY <1>1, <1>3, TablesStay DEF IInv, StillRunning
<1>5. Files'
  BY <1>1, <1>3, FilesStay DEF IInv, Files, Idle
<1> QED BY <1>2, <1>4, <1>5 DEF IInv

(***************************************************************************)
(* PR_WAIT of a connected process: a job that has ended keeps its entry.   *)
(***************************************************************************)
LEMMA CloseConnectedKeeps ==
  ASSUME IInv, NEW dead \in SUBSET Pid, CloseConnected(dead)
  PROVE  IInv'
<1>1. /\ cl' = cl /\ \A p \in dead : proc[p].st = "zombie"
      /\ proc' = [p \in Pid |-> IF p \in dead THEN NoProc ELSE proc[p]]
      /\ prtable' = [p \in Pid |->
             IF p \in dead /\ prtable[p] = "active" THEN "done" ELSE prtable[p]]
      /\ UNCHANGED <<lastjobno, jobtable, prd, bqfile, qrfile>>
  BY DEF CloseConnected
<1>2. TypeOK'
  <2>1. NoProc \in Procs
    BY BkgAssumption DEF NoProc, Procs, States
  <2>2. proc' \in [Pid -> Procs]
    BY <1>1, <2>1 DEF IInv, TypeOK, Procs
  <2>3. prtable' \in [Pid -> {"none", "active", "done"}]
    BY <1>1 DEF IInv, TypeOK
  <2> QED BY <1>1, <2>2, <2>3 DEF IInv, TypeOK, Procs
<1>3. StillRunning
  BY <1>1 DEF StillRunning, Running, Alive, NoProc
<1>4. \A p \in Pid : (prtable'[p] # "none") <=> (prtable[p] # "none")
  BY <1>1 DEF IInv, TypeOK
<1>5. TablesAgree'
  <2>1. \A j \in Jobs : Busy(j)' = Busy(j) /\ PidOf(j)' = PidOf(j)
    BY <1>1 DEF Busy, PidOf
  <2>2. \A j \in Jobs : Busy(j) => PidOf(j) \in Pid
    BY BusyPid DEF IInv, Tables
  <2> QED BY <1>1, <1>4, <2>1, <2>2 DEF IInv, Tables, TablesAgree
<1>6. NoJobLost' /\ OwnJobs'
  BY <1>1, <1>3 DEF IInv, Tables, NoJobLost, OwnJobs, StillRunning, Busy, PidOf, Own
<1>7. Files'
  BY <1>1, <1>3, FilesStay DEF IInv, Files
<1> QED BY <1>2, <1>5, <1>6, <1>7 DEF IInv, Tables
-----------------------------------------------------------------------------
(***************************************************************************)
(* The steps of a job.  Its number is its own, so no other job's files are *)
(* touched, and what the CL types for another is not changed either.       *)
(***************************************************************************)
LEMMA NumbersDiffer ==
  ASSUME Tables, NEW p \in Pid, NEW q \in Pid, Running(p), Running(q), Own(p) = Own(q)
  PROVE  p = q
BY DEF Tables, NoJobLost

LEMMA Forgets ==
  ASSUME IInv, NEW p \in Pid, NEW q \in Pid, p # q, Running(q)
  PROVE  /\ Own(q) \in Jobs
         /\ Forget(bqfile, p)[Own(q)] = bqfile[Own(q)]
         /\ Forget(qrfile, p)[Own(q)] = qrfile[Own(q)]
<1>1. Own(q) \in Jobs
  BY DEF IInv, Tables, OwnJobs
<1>2. bqfile[Own(q)] # p /\ qrfile[Own(q)] # p
  BY Constants DEF IInv, Files, FilesAreOwn
<1> QED BY <1>1, <1>2 DEF Forget

LEMMA ForgetTypes ==
  ASSUME NEW f \in [Jobs -> Pid \cup {None, Old}], NEW p \in Pid
  PROVE  Forget(f, p) \in [Jobs -> Pid \cup {None, Old}]
BY DEF Forget

LEMMA OverForTypes ==
  ASSUME TypeOK, NEW p \in Pid, OverFor(p)
  PROVE  /\ cl' \in ClStates /\ cl'.pc = cl.pc /\ cl'.job = cl.job
         /\ cl'.asker = IF cl.asker = p THEN Old ELSE cl.asker
         /\ qrfile' = Forget(qrfile, p)
         /\ qrfile' \in [Jobs -> Pid \cup {None, Old}]
<1>1. cl \in ClStates /\ qrfile \in [Jobs -> Pid \cup {None, Old}]
  BY DEF TypeOK, ClStates
<1>2. CASE cl.asker = p
  BY <1>1, <1>2, ForgetTypes DEF OverFor, ClStates
<1>3. CASE cl.asker # p
  BY <1>1, <1>3, ForgetTypes DEF OverFor, ClStates
<1> QED BY <1>2, <1>3

(***************************************************************************)
(* What is to be shown for the job that makes the step.                    *)
(***************************************************************************)
Mine(p) ==
    /\ bqfile[Own(p)] \in {None, p} /\ qrfile[Own(p)] \in {None, p}
    /\ bqfile[Own(p)] = p /\ ~AnsweredNow(Own(p))
          => \/ proc[p].st = "clear"
             \/ proc[p].st = "wait" /\ qrfile[Own(p)] = None
    /\ proc[p].st = "run" => qrfile[Own(p)] = None
    /\ cl.pc = "type" /\ Own(p) = cl.job => cl.asker = p /\ bqfile[cl.job] = p

LEMMA MineFromFiles == ASSUME Files, NEW p \in Pid, Running(p) PROVE Mine(p)
BY DEF Files, FilesAreOwn, Asking, Typing, Mine

LEMMA JobStepKeeps ==
  ASSUME IInv, NEW p \in Pid, UNCHANGED <<jobtable, prd, prtable>>,
         cl'.pc = cl.pc, cl'.job = cl.job,
         cl'.asker = cl.asker \/ cl.asker = p,
         \A q \in Pid : q # p /\ Running(q)' =>
            /\ Running(q) /\ proc'[q] = proc[q]
            /\ bqfile'[Own(q)] = bqfile[Own(q)] /\ qrfile'[Own(q)] = qrfile[Own(q)],
         Running(p)' => Running(p) /\ Own(p)' = Own(p) /\ Mine(p)'
  PROVE  Tables' /\ Files'
<1>1. \A q \in Pid : Running(q)' => Running(q) /\ Own(q)' = Own(q)
  BY DEF Own
<1>2. Tables'
  BY <1>1, TablesStay DEF IInv
<1>3. ASSUME NEW q \in Pid, Running(q)' PROVE Mine(q)'
  <2>1. CASE q = p
    BY <1>3, <2>1
  <2>2. CASE q # p
    <3>1. Mine(q) /\ Own(q)' = Own(q)
      BY <1>1, <1>3, MineFromFiles DEF IInv
    <3>2. /\ proc'[q] = proc[q] /\ bqfile'[Own(q)] = bqfile[Own(q)]
          /\ qrfile'[Own(q)] = qrfile[Own(q)]
      BY <1>3, <2>2
    <3>3. AnsweredNow(Own(q))' <=> AnsweredNow(Own(q))
      BY <3>1 DEF AnsweredNow
    <3>4. (cl.pc = "type" /\ Own(q) = cl.job => cl.asker = q /\ bqfile[cl.job] = q)'
      BY <2>2, <3>1, <3>2 DEF Mine
    <3> QED BY <3>1, <3>2, <3>3, <3>4 DEF Mine
  <2> QED BY <2>1, <2>2
<1>4. Files'
  BY <1>3 DEF Files, FilesAreOwn, Asking, Typing, Mine
<1> QED BY <1>2, <1>4
LEMMA StepOf ==
  ASSUME TypeOK, NEW p \in Pid, NEW r \in Procs, proc' = [proc EXCEPT ![p] = r]
  PROVE  /\ proc' \in [Pid -> Procs] /\ proc'[p] = r
         /\ \A q \in Pid : q # p => proc'[q] = proc[q] /\ (Running(q)' <=> Running(q))
BY DEF TypeOK, Procs, Running, Alive

LEMMA AskKeeps == ASSUME IInv, NEW p \in Pid, Ask(p) PROVE IInv'
<1> DEFINE r == [proc[p] EXCEPT !.st = "clear"]
<1>1. /\ proc[p].st = "run" /\ proc' = [proc EXCEPT ![p] = r]
      /\ bqfile' = [Forget(bqfile, p) EXCEPT ![Own(p)] = p] /\ OverFor(p)
      /\ UNCHANGED <<lastjobno, jobtable, prd, prtable>>
  BY DEF Ask, Goes, IInv, TypeOK
<1>2. r \in Procs /\ r.st = "clear" /\ r.job = Own(p)
  BY DEF IInv, TypeOK, Procs, States, Own
<1>3. Running(p) /\ Own(p) \in Jobs
  BY <1>1 DEF Running, Alive, IInv, Tables, OwnJobs
<1>4. /\ proc' \in [Pid -> Procs] /\ proc'[p] = r
      /\ \A q \in Pid : q # p => proc'[q] = proc[q] /\ (Running(q)' <=> Running(q))
  BY <1>1, <1>2, StepOf DEF IInv
<1> HIDE DEF r
<1>5. Running(p)' /\ Own(p)' = Own(p) /\ proc'[p].st = "clear"
  BY <1>2, <1>4 DEF Running, Alive, Own
<1>6. /\ cl' \in ClStates /\ cl'.pc = cl.pc /\ cl'.job = cl.job
      /\ cl'.asker = IF cl.asker = p THEN Old ELSE cl.asker
      /\ qrfile' = Forget(qrfile, p) /\ qrfile' \in [Jobs -> Pid \cup {None, Old}]
  BY <1>1, OverForTypes DEF IInv
<1>7. Forget(bqfile, p) \in [Jobs -> Pid \cup {None, Old}]
  BY ForgetTypes DEF IInv, TypeOK
<1>8. TypeOK'
  BY <1>1, <1>4, <1>6, <1>7 DEF IInv, TypeOK, Procs, ClStates
<1>9. ASSUME NEW q \in Pid, q # p, Running(q)'
      PROVE  /\ Running(q) /\ proc'[q] = proc[q]
             /\ bqfile'[Own(q)] = bqfile[Own(q)] /\ qrfile'[Own(q)] = qrfile[Own(q)]
  <2>1. Running(q) /\ proc'[q] = proc[q]
    BY <1>4, <1>9
  <2>2. Own(q) # Own(p)
    BY <1>3, <1>9, <2>1, NumbersDiffer DEF IInv
  <2> QED BY <1>1, <1>6, <1>7, <1>9, <2>1, <2>2, Forgets
<1>10. Mine(p)'
  <2>1. qrfile[Own(p)] = None
    BY <1>1, <1>3 DEF IInv, Files, Asking
  <2>2. qrfile'[Own(p)] = None /\ bqfile'[Own(p)] = p
    BY <1>1, <1>3, <1>6, <1>7, <2>1, Constants DEF Forget
  <2>3. ~(cl.pc = "type" /\ Own(p) = cl.job)
    <3> SUFFICES ASSUME cl.pc = "type", Own(p) = cl.job PROVE FALSE
      OBVIOUS
    <3>1. bqfile[Own(p)] = p /\ ~AnsweredNow(Own(p))
      BY <1>3 DEF IInv, Files, Typing, AnsweredNow
    <3> QED BY <1>1, <1>3, <3>1 DEF IInv, Files, Asking
  <2> QED BY <1>5, <1>6, <2>2, <2>3 DEF Mine
<1>11. cl'.asker = cl.asker \/ cl.asker = p
  BY <1>6
<1> QED BY <1>1, <1>3, <1>5, <1>6, <1>8, <1>9, <1>10, <1>11, JobStepKeeps DEF IInv
(***************************************************************************)
(* A job looks for its response: afterwards there is none.                 *)
(***************************************************************************)
LEMMA LookKeeps ==
  ASSUME IInv, NEW p \in Pid, Running(p), NEW r \in Procs, r.job = Own(p),
         proc' = [proc EXCEPT ![p] = r],
         UNCHANGED <<cl, lastjobno, jobtable, prd, prtable, bqfile>>,
         qrfile' = [qrfile EXCEPT ![Own(p)] = None],
         \/ r.st = "wait"
         \/ r.st = "run" /\ proc[p].st = "wait" /\ qrfile[Own(p)] # None
  PROVE  IInv'
<1>1. Own(p) \in Jobs
  BY DEF IInv, Tables, OwnJobs
<1>2. /\ proc' \in [Pid -> Procs] /\ proc'[p] = r
      /\ \A q \in Pid : q # p => proc'[q] = proc[q] /\ (Running(q)' <=> Running(q))
  BY StepOf DEF IInv
<1>3. TypeOK'
  BY <1>2 DEF IInv, TypeOK, Procs
<1>4. Own(p)' = Own(p)
  BY <1>2 DEF Own
<1>5. ASSUME NEW q \in Pid, q # p, Running(q)'
      PROVE  /\ Running(q) /\ proc'[q] = proc[q]
             /\ bqfile'[Own(q)] = bqfile[Own(q)] /\ qrfile'[Own(q)] = qrfile[Own(q)]
  <2>1. Running(q) /\ proc'[q] = proc[q]
    BY <1>2, <1>5
  <2>2. Own(q) # Own(p)
    BY <1>5, <2>1, NumbersDiffer DEF IInv
  <2> QED BY <2>1, <2>2 DEF IInv, TypeOK
<1>6. Mine(p)'
  <2>1. qrfile'[Own(p)] = None
    BY <1>1 DEF IInv, TypeOK
  <2>2. Mine(p) /\ (AnsweredNow(Own(p))' <=> AnsweredNow(Own(p)))
    BY <1>4, MineFromFiles DEF IInv, AnsweredNow
  <2> QED BY <1>2, <1>4, <2>1, <2>2 DEF Mine
<1> QED BY <1>3, <1>4, <1>5, <1>6, JobStepKeeps DEF IInv

LEMMA ClearKeeps == ASSUME IInv, NEW p \in Pid, Clear(p) PROVE IInv'
<1> DEFINE r == [st |-> "wait", job |-> Own(p), waits |-> 0, kin |-> proc[p].kin]
<1>1. /\ proc[p].st = "clear" /\ proc' = [proc EXCEPT ![p] = r]
      /\ qrfile' = [qrfile EXCEPT ![Own(p)] = None]
      /\ UNCHANGED <<cl, lastjobno, jobtable, prd, prtable, bqfile>>
  BY DEF Clear, IInv, TypeOK
<1>2. r \in Procs /\ r.st = "wait" /\ r.job = Own(p)
  <2>1. proc[p] \in Procs
    BY DEF IInv, TypeOK, Procs
  <2> QED BY <2>1, BkgAssumption DEF Procs, States, Own
<1>3. Running(p)
  BY <1>1 DEF Running, Alive
<1> HIDE DEF r
<1> QED BY <1>1, <1>2, <1>3, LookKeeps

LEMMA ReadAnswerKeeps == ASSUME IInv, NEW p \in Pid, ReadAnswer(p) PROVE IInv'
<1> DEFINE r == [proc[p] EXCEPT !.st = "run"]
<1>1. /\ proc[p].st = "wait" /\ qrfile[Own(p)] # None /\ proc' = [proc EXCEPT ![p] = r]
      /\ qrfile' = [qrfile EXCEPT ![Own(p)] = None]
      /\ UNCHANGED <<cl, lastjobno, jobtable, prd, prtable, bqfile>>
  BY DEF ReadAnswer, Answered, Goes, IInv, TypeOK
<1>2. r \in Procs /\ r.st = "run" /\ r.job = Own(p)
  BY DEF IInv, TypeOK, Procs, States, Own
<1>3. Running(p)
  BY <1>1 DEF Running, Alive
<1> HIDE DEF r
<1> QED BY <1>1, <1>2, <1>3, LookKeeps

LEMMA SleepKeeps == ASSUME IInv, NEW p \in Pid, Sleep(p) PROVE IInv'
<1> DEFINE r == [proc[p] EXCEPT !.waits = @ + 1]
<1>1. /\ proc[p].st = "wait" /\ qrfile[Own(p)] = None /\ proc[p].waits =< MaxWaits
      /\ proc' = [proc EXCEPT ![p] = r] /\ qrfile' = qrfile
      /\ UNCHANGED <<cl, lastjobno, jobtable, prd, prtable, bqfile>>
  BY DEF Sleep, IInv, TypeOK
<1>2. r \in Procs /\ r.st = "wait" /\ r.job = Own(p)
  <2>1. proc[p] \in Procs
    BY DEF IInv, TypeOK, Procs
  <2> QED BY <1>1, <2>1, BkgAssumption DEF Procs, States, Own
<1>3. Running(p) /\ Own(p) \in Jobs
  BY <1>1 DEF Running, Alive, IInv, Tables, OwnJobs
<1>4. qrfile' = [qrfile EXCEPT ![Own(p)] = None]
  BY <1>1, <1>3 DEF IInv, TypeOK
<1> HIDE DEF r
<1> QED BY <1>1, <1>2, <1>3, <1>4, LookKeeps

(***************************************************************************)
(* A job ends; what is on the way to it answers nothing any more.          *)
(***************************************************************************)
LEMMA EndKeeps ==
  ASSUME IInv, NEW p \in Pid, proc' \in [Pid -> Procs], ~Running(p)',
         \A q \in Pid : q # p /\ Running(q)' => Running(q) /\ proc'[q] = proc[q],
         \/ bqfile' = Forget(bqfile, p)
         \/ Running(p) /\ bqfile' = [Forget(bqfile, p) EXCEPT ![Own(p)] = None],
         OverFor(p), UNCHANGED <<lastjobno, jobtable, prd, prtable>>
  PROVE  IInv'
<1>1. /\ cl' \in ClStates /\ cl'.pc = cl.pc /\ cl'.job = cl.job
      /\ cl'.asker = IF cl.asker = p THEN Old ELSE cl.asker
      /\ qrfile' = Forget(qrfile, p) /\ qrfile' \in [Jobs -> Pid \cup {None, Old}]
  BY OverForTypes DEF IInv
<1>2. Forget(bqfile, p) \in [Jobs -> Pid \cup {None, Old}]
  BY ForgetTypes DEF IInv, TypeOK
<1>3. bqfile' \in [Jobs -> Pid \cup {None, Old}]
  BY <1>2
<1>4. TypeOK'
  BY <1>1, <1>3 DEF IInv, TypeOK, Procs, ClStates
<1>5. ASSUME NEW q \in Pid, q # p, Running(q)'
      PROVE  /\ Running(q) /\ proc'[q] = proc[q]
             /\ bqfile'[Own(q)] = bqfile[Own(q)] /\ qrfile'[Own(q)] = qrfile[Own(q)]
  <2>1. Running(q) /\ proc'[q] = proc[q]
    BY <1>5
  <2>2. /\ Own(q) \in Jobs /\ qrfile'[Own(q)] = qrfile[Own(q)]
        /\ Forget(bqfile, p)[Own(q)] = bqfile[Own(q)]
    BY <1>1, <1>5, <2>1, Forgets
  <2>3. bqfile'[Own(q)] = bqfile[Own(q)]
    <3>1. CASE Running(p) /\ bqfile' = [Forget(bqfile, p) EXCEPT ![Own(p)] = None]
      <4>1. Own(q) # Own(p)
        BY <1>5, <2>1, <3>1, NumbersDiffer DEF IInv
      <4> QED BY <1>2, <2>2, <3>1, <4>1
    <3> QED BY <2>2, <3>1
  <2> QED BY <2>1, <2>2, <2>3
<1>6. cl'.asker = cl.asker \/ cl.asker = p
  BY <1>1
<1> QED BY <1>1, <1>4, <1>5, <1>6, JobStepKeeps DEF IInv

LEMMA Zombie == [NoProc EXCEPT !.st = "zombie"] \in Procs
BY BkgAssumption DEF NoProc, Procs, States

LEMMA EndsSo ==
  ASSUME TypeOK, NEW p \in Pid, proc' = Ends(p)
  PROVE  /\ proc' \in [Pid -> Procs] /\ ~Running(p)'
         /\ \A q \in Pid : q # p /\ Running(q)' => Running(q) /\ proc'[q] = proc[q]
<1> DEFINE r == [NoProc EXCEPT !.st = "zombie"]
<1>1. r \in Procs /\ r.st = "zombie" /\ proc' = [proc EXCEPT ![p] = r]
  BY Zombie DEF NoProc, Ends
<1> HIDE DEF r
<1>2. /\ proc' \in [Pid -> Procs] /\ proc'[p] = r
      /\ \A q \in Pid : q # p => proc'[q] = proc[q] /\ (Running(q)' <=> Running(q))
  BY <1>1, StepOf
<1> QED BY <1>1, <1>2 DEF Running, Alive

LEMMA TimeoutKeeps == ASSUME IInv, NEW p \in Pid, Timeout(p) PROVE IInv'
<1>1. Running(p)
  BY DEF Timeout, Running, Alive
<1> QED BY <1>1, EndsSo, EndKeeps DEF Timeout, IInv

LEMMA ExitKeeps == ASSUME IInv, NEW p \in Pid, Exit(p) PROVE IInv'
BY EndsSo, EndKeeps DEF Exit, IInv

LEMMA AbortKeeps == ASSUME IInv, NEW p \in Pid, Abort(p) PROVE IInv'
<1> DEFINE sig == Signalled(proc[p].kin)
           r   == [NoProc EXCEPT !.st = "zombie"]
<1>1. /\ proc' = [sig EXCEPT ![p] = r] /\ bqfile' = Forget(bqfile, p) /\ OverFor(p)
      /\ UNCHANGED <<lastjobno, jobtable, prd, prtable>>
  BY DEF Abort
<1>2. /\ sig \in [Pid -> Procs]
      /\ \A q \in Pid : sig[q] = proc[q] \/ sig[q].st = "dying"
  BY SignalledTypes DEF IInv
<1>3. r \in Procs /\ r.st = "zombie"
  BY Zombie DEF NoProc
<1> HIDE DEF sig, r
<1>4. proc' \in [Pid -> Procs] /\ ~Running(p)'
  BY <1>1, <1>2, <1>3 DEF Running, Alive
<1>5. ASSUME NEW q \in Pid, q # p, Running(q)'
      PROVE  Running(q) /\ proc'[q] = proc[q]
  BY <1>1, <1>2, <1>5 DEF Running, Alive
<1> QED BY <1>1, <1>4, <1>5, EndKeeps
-----------------------------------------------------------------------------
LEMMA InitIInv == Init => IInv
<1> SUFFICES ASSUME Init PROVE IInv
  OBVIOUS
<1>1. \A p \in Pid : ~Running(p)
  BY DEF Init, NoProc, Running, Alive
<1>2. NoProc \in Procs
  BY BkgAssumption DEF NoProc, Procs, States
<1>3. TypeOK
  <2>1. cl \in ClStates
    BY IdleState DEF Init
  <2>2. lastjobno \in 0 .. NBKG
    BY BkgAssumption DEF Init
  <2> QED BY <1>2, <2>1, <2>2 DEF Init, TypeOK, Procs, ClStates
<1>4. TablesAgree
  BY DEF Init, TablesAgree, Busy
<1>5. NoJobLost /\ OwnJobs /\ FilesAreOwn /\ Asking /\ Typing
  BY <1>1 DEF Init, NoJobLost, OwnJobs, FilesAreOwn, Asking, Typing
<1> QED BY <1>3, <1>4, <1>5 DEF IInv, Tables, Files

LEMMA StutterKeeps == ASSUME IInv, UNCHANGED vars PROVE IInv'
<1>1. UNCHANGED <<cl, lastjobno, jobtable, prd, prtable, proc, bqfile, qrfile>>
  BY DEF vars
<1>2. TypeOK'
  BY <1>1 DEF IInv, TypeOK
<1>3. StillRunning /\ \A p \in Pid : Own(p)' = Own(p)
  BY <1>1 DEF StillRunning, Running, Alive, Own
<1>4. Tables'
  BY <1>1, <1>3, TablesStay DEF IInv, StillRunning
<1>5. Files'
  BY <1>1, <1>3, FilesStay DEF IInv, Files
<1> QED BY <1>2, <1>4, <1>5 DEF IInv

LEMMA NextIInv == ASSUME IInv, [Next]_vars PROVE IInv'
<1>1. CASE UNCHANGED vars
  BY <1>1, StutterKeeps
<1>2. CASE ClStep
  <2>1. ASSUME NEW j \in Jobs, SpawnFails(j) \/ Service(j) PROVE IInv'
    BY <2>1, SpawnFailsKeeps, ServiceKeeps
  <2>2. ASSUME NEW j \in Jobs, NEW s \in Slots, NEW p \in Pid, Spawn(j, s, p) PROVE IInv'
    BY <2>2, SpawnKeeps
  <2>3. ASSUME NEW j \in Jobs \cup {0}, Wait(j) \/ Kill(j) PROVE IInv'
    BY <2>3, WaitKeeps, KillKeeps
  <2>4. ASSUME NEW dead \in SUBSET Pid, CloseConnected(dead) PROVE IInv'
    BY <2>4, CloseConnectedKeeps
  <2> QED BY <1>2, <2>1, <2>2, <2>3, <2>4, PollKeeps, KillingKeeps, TypeKeeps,
             DeleteQueryKeeps, InterruptKeeps DEF ClStep
<1>3. ASSUME NEW p \in Pid, JobStep(p) PROVE IInv'
  BY <1>3, AskKeeps, ClearKeeps, ReadAnswerKeeps, SleepKeeps, TimeoutKeeps,
     ExitKeeps, AbortKeeps DEF JobStep
<1> QED BY <1>1, <1>2, <1>3 DEF Next

THEOREM Invariance == Spec => []IInv
BY InitIInv, NextIInv, PTL DEF Spec

(***************************************************************************)
(* The tables, the processes and the files keep their types: the waits of  *)
(* a job for a response in particular are bounded by BKQ_TIMEOUT.          *)
(***************************************************************************)
THEOREM TypeCorrect == Spec => []TypeOK
<1>1. IInv => TypeOK
  BY DEF IInv
<1> QED BY <1>1, Invariance, PTL

(***************************************************************************)
(* The job table of the CL, the detached processes of the VOS and the      *)
(* process table of the kernel agree through spawns that fail, kills,      *)
(* ends that PR_WAIT has reaped and pids used again (BKG_UPDATE,           *)
(* BKG_SPAWN, BKG_KILL).                                                   *)
(***************************************************************************)
THEOREM TablesStayTogether == Spec => []TablesAgree
<1>1. IInv => TablesAgree
  BY DEF IInv, Tables
<1> QED BY <1>1, Invariance, PTL

(***************************************************************************)
(* A job that runs is in the table under the number of its files.          *)
(***************************************************************************)
THEOREM JobsAreKept == Spec => []NoJobLost
<1>1. IInv => NoJobLost
  BY DEF IInv, Tables
<1> QED BY <1>1, Invariance, PTL

(***************************************************************************)
(* No response to a query of another job, or to an earlier query, is ever  *)
(* in the files of a job that runs (BKG_QUERY, SERVICE_BKGQUERY).          *)
(***************************************************************************)
THEOREM AnswersAreOwn == Spec => []FilesAreOwn
<1>1. IInv => FilesAreOwn
  BY DEF IInv, Files
<1> QED BY <1>1, Invariance, PTL
=============================================================================
