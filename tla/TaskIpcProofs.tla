--------------------------- MODULE TaskIpcProofs ---------------------------
(***************************************************************************)
(* Proofs about a task and the CL that runs it, for any number of tasks    *)
(* and interrupts, any pipe, and erract with and without "flpr".           *)
(*                                                                         *)
(* The argument for NoStandoff: a process that will say nothing more has   *)
(* "bye" or ERROR as its last message, so the CL cannot consume the last   *)
(* message of such a process and go on waiting for it.                     *)
(***************************************************************************)
EXTENDS TaskIpc, SequenceTheorems, TLAPS

Waiting == {"read", "kill", "tty", "query", "killtty"}

Working == {"work", "chars", "value"}

(* The process will send nothing before it gets a command.                 *)
Silent ==
    \/ at = "ended"
    \/ at = "restart" /\ state = "IDLE"
    \/ at = "command" /\ ~(sig /\ state = "EXECUTING")

Done == at \in {"command", "ended"} \/ (at = "restart" /\ state = "IDLE")

WorkingExecutes == at \in Working => state = "EXECUTING"

LastIsEnd == (Done /\ up # <<>>) => up[Len(up)].kind \in {"bye", "error"}

Attended ==
    (cl \in Waiting /\ "popping" \notin struck /\ Silent)
        => (up # <<>> \/ down # <<>>)

CutOff == ninterrupts > 0 <=> ~redir

IInv == TypeOK /\ WorkingExecutes /\ LastIsEnd /\ Attended

USE TaskIpcAssumption
-----------------------------------------------------------------------------
(***************************************************************************)
(* What a pipe holds after a message is taken from it or added to it.      *)
(***************************************************************************)
LEMMA AddedLast ==
  ASSUME NEW S, NEW s \in Seq(S), NEW e \in S
  PROVE  /\ Append(s, e) \in Seq(S) /\ Append(s, e) # <<>>
         /\ Len(Append(s, e)) = Len(s) + 1
         /\ Append(s, e)[Len(Append(s, e))] = e
BY AppendProperties

LEMMA TakenFirst ==
  ASSUME NEW S, NEW s \in Seq(S), s # <<>>
  PROVE  /\ Tail(s) \in Seq(S) /\ Len(Tail(s)) = Len(s) - 1
         /\ s[1] \in S
         /\ Tail(s) # <<>> => Tail(s)[Len(Tail(s))] = s[Len(s)]
         /\ Tail(s) = <<>> => s[Len(s)] = s[1]
<1>1. Len(s) \in Nat /\ Len(s) > 0
  BY EmptySeq, LenProperties
<1>2. /\ Tail(s) \in Seq(S) /\ Len(Tail(s)) = Len(s) - 1
      /\ \A i \in 1 .. Len(Tail(s)) : Tail(s)[i] = s[i + 1]
  BY HeadTailProperties
<1>3. s[1] \in S
  BY <1>1, ElementOfSeq
<1>4. ASSUME Tail(s) # <<>> PROVE Tail(s)[Len(Tail(s))] = s[Len(s)]
  BY <1>1, <1>2, <1>4, EmptySeq
<1>5. ASSUME Tail(s) = <<>> PROVE s[Len(s)] = s[1]
  <2>1. Len(Tail(s)) = 0
    BY <1>5, EmptySeq
  <2> DEFINE n == Len(s)
             t == Len(Tail(s))
  <2>2. n \in Nat /\ t = n - 1 /\ t = 0
    BY <1>1, <1>2, <2>1
  <2>3. n = 1
    <3> HIDE DEF n, t
    <3> QED BY <2>2
  <2> QED
    BY <2>3
<1> QED
  BY <1>2, <1>3, <1>4, <1>5

(***************************************************************************)
(* Taking a request that does not end the task leaves the pipe of a        *)
(* process that is done with something in it.                              *)
(***************************************************************************)
LEMMA MoreToCome ==
  ASSUME TypeOK, LastIsEnd, up # <<>>, up' = Tail(up),
         up[1].kind \in {"xmit", "xfer", "ask"},
         UNCHANGED <<at, state>>
  PROVE  LastIsEnd' /\ (Done => up' # <<>>)
<1>1. up \in Seq([kind : Request, run : 0 .. MaxTask])
  BY DEF TypeOK
<1>2. /\ up' # <<>> => up'[Len(up')] = up[Len(up)]
      /\ up' = <<>> => up[Len(up)] = up[1]
  BY <1>1, TakenFirst
<1> QED
  BY <1>2 DEF LastIsEnd, Done

(***************************************************************************)
(* Types.                                                                  *)
(***************************************************************************)
Ups   == [kind : Request, run : 0 .. MaxTask]
Downs == [kind : Reply, run : 0 .. MaxTask]

LEMMA Received ==
  ASSUME TypeOK, up # <<>>, up' = Tail(up)
  PROVE  /\ up' \in Seq(Ups) /\ Len(up') <= PipeSize
         /\ up[1] \in Ups
<1>1. up \in Seq(Ups) /\ Len(up) <= PipeSize
  BY DEF TypeOK, Ups
<1>2. up' \in Seq(Ups) /\ Len(up') = Len(up) - 1 /\ up[1] \in Ups
  BY <1>1, TakenFirst
<1>3. Len(up) \in Nat
  BY <1>1, LenProperties
<1> QED
  BY <1>1, <1>2, <1>3

LEMMA Sent ==
  ASSUME TypeOK, Len(up) < PipeSize,
         NEW m \in Ups, up' = Append(up, m)
  PROVE  up' \in Seq(Ups) /\ Len(up') <= PipeSize /\ up' # <<>> /\ up'[Len(up')] = m
<1>1. up \in Seq(Ups)
  BY DEF TypeOK, Ups
<1>2. Len(up) \in Nat
  BY <1>1, LenProperties
<1>3. /\ up' \in Seq(Ups) /\ up' # <<>> /\ Len(up') = Len(up) + 1
      /\ up'[Len(up')] = m
  BY <1>1, AddedLast
<1> QED
  BY <1>2, <1>3

LEMMA Replied ==
  ASSUME TypeOK, NEW m \in Downs, down' = Append(down, m)
  PROVE  down' \in Seq(Downs) /\ down' # <<>>
<1>1. down \in Seq(Downs)
  BY DEF TypeOK, Downs
<1> QED
  BY <1>1, AddedLast

LEMMA Got ==
  ASSUME TypeOK, Get
  PROVE  down' \in Seq(Downs) /\ down[1] \in Downs
<1>1. down \in Seq(Downs)
  BY DEF TypeOK, Downs
<1>2. down # <<>> /\ down' = Tail(down)
  BY DEF Get
<1> QED
  BY <1>1, <1>2, TakenFirst

LEMMA EmptyPipes == <<>> \in Seq(Ups) /\ <<>> \in Seq(Downs) /\ Len(<<>>) = 0
BY EmptySeq

(***************************************************************************)
(* Every step keeps the types.                                             *)
(***************************************************************************)
LEMMA TypeInit == Init => TypeOK
<1> SUFFICES ASSUME Init PROVE TypeOK
  OBVIOUS
<1>1. up \in Seq(Ups) /\ Len(up) <= PipeSize /\ down \in Seq(Downs)
  BY EmptyPipes DEF Init
<1>2. 0 \in 0 .. MaxTask /\ strikes \in 0 .. MaxStrikes /\ ninterrupts \in 0 .. strikes
  BY DEF Init
<1> QED
  BY <1>1, <1>2 DEF Init, TypeOK, Ups, Downs

LEMMA TypeCL ==
  ASSUME TypeOK, CLStep
  PROVE  TypeOK'
<1> USE DEF TypeOK, clVars, childVars, history, Moments, Ups, Downs
<1>1. CASE Display
  <2>1. up' \in Seq(Ups) /\ Len(up') <= PipeSize /\ up[1] \in Ups
    BY <1>1, Received DEF Display, Take
  <2> QED
    BY <1>1, <2>1 DEF Display
<1>2. CASE ReadTerminal
  BY <1>2, Received DEF ReadTerminal, Take
<1>3. CASE GiveValue
  <2>1. up' \in Seq(Ups) /\ Len(up') <= PipeSize
    BY <1>3, Received DEF GiveValue, Take
  <2>2. [kind |-> "value", run |-> task] \in Downs
    BY DEF Reply
  <2>3. down' \in Seq(Downs)
    BY <1>3, <2>2, Replied DEF GiveValue
  <2> QED
    BY <1>3, <2>1, <2>3 DEF GiveValue
<1>4. CASE QueryUser
  BY <1>4, Received DEF QueryUser, Take
<1>5. CASE NoTerminal
  BY <1>5, Received DEF NoTerminal, Take
<1>6. CASE ReadBye
  BY <1>6, Received DEF ReadBye, Take
<1>7. CASE PopBye \/ PopTask
  BY <1>7 DEF PopBye, PopTask
<1>8. CASE ReadError
  <2>1. up[1] \in Ups /\ Tail(up) \in Seq(Ups) /\ Len(Tail(up)) <= PipeSize
    <3>1. up \in Seq(Ups) /\ up # <<>>
      BY <1>8 DEF ReadError
    <3>2. Tail(up) \in Seq(Ups) /\ up[1] \in Ups /\ Len(Tail(up)) = Len(up) - 1
      BY <3>1, TakenFirst
    <3>3. Len(up) \in Nat
      BY <3>1, LenProperties
    <3> QED
      BY <3>2, <3>3
  <2>2. ended' \in 0 .. MaxTask /\ cl' = "prompt"
    BY <1>8, <2>1 DEF ReadError
  <2>3. CASE Flpr
    <3>1. up' = <<>> /\ down' = <<>> /\ at' = "command" /\ state' = "IDLE"
          /\ run' = 0 /\ sig' = FALSE
      BY <1>8, <2>3 DEF ReadError, FlushProcess
    <3>2. up' \in Seq(Ups) /\ Len(up') <= PipeSize /\ down' \in Seq(Downs)
      BY <3>1, EmptyPipes
    <3>3. UNCHANGED <<task, redir, ninterrupts, shown, strikes, struck>>
      BY <1>8 DEF ReadError
    <3>4. /\ task' \in 0 .. MaxTask /\ run' \in 0 .. MaxTask
          /\ strikes' \in 0 .. MaxStrikes /\ ninterrupts' \in 0 .. strikes'
          /\ struck' \subseteq Moments
      BY <3>1, <3>3
    <3>5. redir' \in BOOLEAN /\ sig' \in BOOLEAN
      BY <3>1, <3>3, Zenon
    <3>6. shown' \in [task : 0 .. MaxTask, run : 0 .. MaxTask, cut : BOOLEAN]
      BY <3>3
    <3> QED
      BY <2>2, <3>1, <3>2, <3>4, <3>5, <3>6
  <2>4. CASE ~Flpr
    BY <1>8, <2>1, <2>2, <2>4 DEF ReadError, FlushProcess
  <2> QED
    BY <2>3, <2>4
<1>9. CASE Killed
  BY <1>9, Received DEF Killed, Take
<1> QED
  BY <1>1, <1>2, <1>3, <1>4, <1>5, <1>6, <1>7, <1>8, <1>9 DEF CLStep

LEMMA TypeUser ==
  ASSUME TypeOK, User
  PROVE  TypeOK'
<1> USE DEF TypeOK, clVars, childVars, history, Moments, Ups, Downs
<1>1. CASE RunTask
  <2>1. [kind |-> "cmd", run |-> task + 1] \in Downs
    BY <1>1 DEF RunTask, Reply
  <2>2. down' \in Seq(Downs)
    BY <1>1, <2>1, Replied DEF RunTask
  <2> QED
    BY <1>1, <2>2 DEF RunTask
<1>2. CASE Type
  <2>1. \A k \in Reply : [kind |-> k, run |-> task] \in Downs
    OBVIOUS
  <2>2. down' \in Seq(Downs)
    BY <1>2, <2>1, Replied DEF Type, Reply
  <2> QED
    BY <1>2, <2>2 DEF Type
<1>3. CASE InterruptBye
  BY <1>3 DEF InterruptBye, Strike
<1>4. CASE InterruptTask
  <2>1. cl' \in {"kill", "read"} /\ struck' \subseteq Moments
    BY <1>4 DEF InterruptTask, Resume
  <2>2. strikes' \in 0 .. MaxStrikes /\ ninterrupts' \in 0 .. strikes'
    BY <1>4 DEF InterruptTask, Strike
  <2> QED
    BY <1>4, <2>1, <2>2 DEF InterruptTask, Strike, Disconnect
<1> QED
  BY <1>1, <1>2, <1>3, <1>4 DEF User

LEMMA TypeProcess ==
  ASSUME TypeOK, MainStep \/ Command \/ TaskStep
  PROVE  TypeOK'
<1> USE DEF TypeOK, clVars, childVars, history, Moments, Ups, Downs
<1>0. \A k \in Request : [kind |-> k, run |-> run] \in Ups
  OBVIOUS
<1>1. CASE Command
  <2>1. down' \in Seq(Downs) /\ down[1] \in Downs
    BY <1>1, Got DEF Command
  <2>2. up' \in Seq(Ups) /\ Len(up') <= PipeSize
    <3>1. [kind |-> "error", run |-> down[1].run] \in Ups
      BY <2>1 DEF Request
    <3> QED
      BY <1>1, <3>1, Sent DEF Command
  <2> QED
    BY <1>1, <2>1, <2>2 DEF Command
<1>2. ASSUME NEW k \in Request,
             NEW then \in {"work", "chars", "value", "ended"}, Ask(k, then)
      PROVE  TypeOK'
  <2>1. up' \in Seq(Ups) /\ Len(up') <= PipeSize
    BY <1>0, <1>2, Sent DEF Ask, Send
  <2> QED
    BY <1>2, <2>1 DEF Ask
<1>3. CASE Write \/ Read \/ GetParam \/ Bye
  BY <1>2, <1>3 DEF Write, Read, GetParam, Bye, Request
<1>4. CASE Answer
  BY <1>4, Got DEF Answer
<1>5. CASE Fail \/ Idle
  BY <1>5 DEF Fail, Idle
<1>6. CASE TakeSignal
  BY <1>6 DEF TakeSignal, Moment
<1>7. CASE Restart
  <2>1. up' \in Seq(Ups) /\ Len(up') <= PipeSize
    BY <1>0, <1>7, Sent DEF Restart, Send, Request
  <2> QED
    BY <1>7, <2>1 DEF Restart
<1> QED
  BY <1>1, <1>3, <1>4, <1>5, <1>6, <1>7 DEF MainStep, TaskStep

LEMMA TypeStep == TypeOK /\ [Next]_vars => TypeOK'
<1> SUFFICES ASSUME TypeOK, [Next]_vars PROVE TypeOK'
  OBVIOUS
<1>1. CASE UNCHANGED vars
  BY <1>1 DEF TypeOK, vars, clVars, childVars, history
<1> QED
  BY <1>1, TypeCL, TypeUser, TypeProcess DEF Next

(***************************************************************************)
(* Whoever is done said so last, and whoever executes is EXECUTING.        *)
(***************************************************************************)
LEMMA WorkingStep ==
  ASSUME TypeOK, WorkingExecutes, [Next]_vars
  PROVE  WorkingExecutes'
<1> USE DEF WorkingExecutes, Working, clVars, childVars, history
<1>1. CASE CLStep \/ User \/ UNCHANGED vars
  BY <1>1 DEF CLStep, Display, ReadTerminal, GiveValue, QueryUser, NoTerminal,
     ReadBye, PopBye, PopTask, ReadError, FlushProcess, Killed, User, RunTask,
     Type, InterruptBye, InterruptTask, vars
<1>2. CASE MainStep \/ Command \/ TaskStep
  BY <1>2 DEF MainStep, TakeSignal, Restart, Idle, Command, TaskStep, Write,
     Read, GetParam, Bye, Ask, Answer, Fail
<1> QED
  BY <1>1, <1>2 DEF Next

LEMMA TypedUp == TypeOK => /\ up \in Seq(Ups)
                           /\ up # <<>> => /\ Tail(up) # <<>> => Tail(up)[Len(Tail(up))] = up[Len(up)]
                                           /\ Tail(up) = <<>> => up[Len(up)] = up[1]
<1> SUFFICES ASSUME TypeOK, up # <<>>
             PROVE  /\ Tail(up) # <<>> => Tail(up)[Len(Tail(up))] = up[Len(up)]
                    /\ Tail(up) = <<>> => up[Len(up)] = up[1]
  BY DEF TypeOK, Ups
<1>1. up \in Seq(Ups)
  BY DEF TypeOK, Ups
<1> QED
  BY <1>1, TakenFirst

LEMMA LastStep ==
  ASSUME TypeOK, WorkingExecutes, LastIsEnd, [Next]_vars
  PROVE  LastIsEnd'
<1> USE DEF LastIsEnd, Done, clVars, childVars, history
<1>1. CASE CLStep
  <2>1. CASE up' = Tail(up) /\ up # <<>> /\ UNCHANGED <<at, state>>
    BY <2>1, TypedUp
  <2>2. CASE UNCHANGED <<up, at, state>>
    BY <2>2
  <2>3. CASE up' = <<>>
    BY <2>3
  <2> QED
    BY <1>1, <2>1, <2>2, <2>3 DEF CLStep, Display, ReadTerminal, GiveValue,
       QueryUser, NoTerminal, ReadBye, PopBye, PopTask, ReadError, FlushProcess,
       Killed, Take
<1>2. CASE User \/ UNCHANGED vars
  <2>1. UNCHANGED <<up, at, state>>
    BY <1>2 DEF User, RunTask, Type, InterruptBye, InterruptTask, vars
  <2> QED
    BY <2>1
<1>3. CASE Command
  <2>1. CASE at' = "work"
    BY <2>1
  <2>2. CASE /\ Len(up) < PipeSize
             /\ up' = Append(up, [kind |-> "error", run |-> down[1].run])
    <3>1. [kind |-> "error", run |-> down[1].run] \in Ups
      BY <1>3, Got DEF Command, Ups, Downs, Request
    <3> QED
      BY <2>2, <3>1, Sent
  <2> QED
    BY <1>3, <2>1, <2>2 DEF Command
<1>4. CASE Write \/ Read \/ GetParam \/ Answer \/ Fail
  <2>1. at' \in Working \/ (at' = "restart" /\ state' = "EXECUTING")
    BY <1>4 DEF Write, Read, GetParam, Ask, Answer, Fail, Working, WorkingExecutes
  <2> QED
    BY <2>1 DEF Working
<1>5. CASE Bye
  <2>1. [kind |-> "bye", run |-> run] \in Ups
    BY DEF TypeOK, Ups, Request
  <2> QED
    BY <1>5, <2>1, Sent DEF Bye, Ask, Send
<1>6. CASE Idle
  BY <1>6 DEF Idle
<1>7. CASE TakeSignal
  BY <1>7 DEF TakeSignal, WorkingExecutes, Working, TypeOK
<1>8. CASE Restart
  <2>1. [kind |-> "error", run |-> run] \in Ups
    BY DEF TypeOK, Ups, Request
  <2>2. CASE state = "IDLE"
    BY <1>8, <2>2 DEF Restart, Unheard
  <2>3. CASE state # "IDLE"
    BY <1>8, <2>1, <2>3, Sent DEF Restart, Unheard, Send
  <2> QED
    BY <2>2, <2>3
<1> QED
  BY <1>1, <1>2, <1>3, <1>4, <1>5, <1>6, <1>7, <1>8 DEF Next, MainStep, TaskStep

(***************************************************************************)
(* While the CL waits for a silent process a message is on its way.        *)
(***************************************************************************)
LEMMA AttendedCL ==
  ASSUME TypeOK, LastIsEnd, Attended, CLStep
  PROVE  Attended'
<1>1. CASE Display \/ ReadTerminal \/ GiveValue \/ QueryUser \/ NoTerminal
  <2>1. /\ up # <<>> /\ up' = Tail(up) /\ UNCHANGED <<at, state>>
        /\ up[1].kind \in {"xmit", "xfer", "ask"}
    BY <1>1 DEF Display, ReadTerminal, GiveValue, QueryUser, NoTerminal, Take,
       childVars
  <2>2. Done => up' # <<>>
    BY <2>1, MoreToCome
  <2>3. Silent' => Done
    BY <2>1 DEF Silent, Done
  <2> QED
    BY <2>2, <2>3 DEF Attended
<1>2. CASE ReadBye \/ PopBye \/ PopTask \/ ReadError \/ Killed
  BY <1>2 DEF ReadBye, PopBye, PopTask, ReadError, Killed, Attended, Waiting
<1> QED
  BY <1>1, <1>2 DEF CLStep

LEMMA AttendedUser ==
  ASSUME TypeOK, Attended, User
  PROVE  Attended'
<1>1. CASE RunTask
  <2>1. [kind |-> "cmd", run |-> task + 1] \in Downs
    BY <1>1 DEF RunTask, TypeOK, Downs, Reply
  <2> QED
    BY <1>1, <2>1, Replied DEF RunTask, Attended
<1>2. CASE Type
  <2>1. \A k \in Reply : [kind |-> k, run |-> task] \in Downs
    BY DEF TypeOK, Downs
  <2> QED
    BY <1>2, <2>1, Replied DEF Type, Reply, Attended
<1>3. CASE InterruptBye
  BY <1>3 DEF InterruptBye, Attended
<1>4. CASE InterruptTask
  <2>1. CASE cl = "pop"
    BY <1>4, <2>1 DEF InterruptTask, Attended
  <2>2. CASE cl # "pop"
    BY <1>4, <2>2 DEF InterruptTask, Strike, Attended, Waiting, Silent,
       childVars
  <2> QED
    BY <2>1, <2>2
<1> QED
  BY <1>1, <1>2, <1>3, <1>4 DEF User

LEMMA AttendedProcess ==
  ASSUME TypeOK, WorkingExecutes, Attended, MainStep \/ Command \/ TaskStep
  PROVE  Attended'
<1>1. CASE Command
  <2>1. CASE at' = "work"
    BY <2>1 DEF Attended, Silent
  <2>2. CASE /\ Len(up) < PipeSize
             /\ up' = Append(up, [kind |-> "error", run |-> down[1].run])
    <3>1. [kind |-> "error", run |-> down[1].run] \in Ups
      BY <1>1, Got DEF Command, Ups, Downs, Request
    <3> QED
      BY <2>2, <3>1, Sent DEF Attended
  <2> QED
    BY <1>1, <2>1, <2>2 DEF Command
<1>2. ASSUME NEW k \in Request, NEW then, Ask(k, then)
      PROVE  Attended'
  <2>1. [kind |-> k, run |-> run] \in Ups
    BY DEF TypeOK, Ups
  <2> QED
    BY <1>2, <2>1, Sent DEF Ask, Send, Attended
<1>3. CASE Write \/ Read \/ GetParam \/ Bye
  BY <1>2, <1>3 DEF Write, Read, GetParam, Bye, Request
<1>4. CASE Answer \/ Fail
  BY <1>4 DEF Answer, Fail, WorkingExecutes, Working, Attended, Silent
<1>5. CASE Idle
  BY <1>5 DEF Idle, Attended, Silent, clVars, history
<1>6. CASE TakeSignal
  <2>1. Silent' => Silent
    BY <1>6 DEF TakeSignal, Silent, WorkingExecutes, Working, TypeOK
  <2> QED
    BY <1>6, <2>1 DEF TakeSignal, Attended, clVars
<1>7. CASE Restart
  <2>1. CASE Unheard
    BY <1>7, <2>1 DEF Restart, Unheard, Attended, Silent, clVars, history
  <2>2. CASE ~Unheard
    <3>1. [kind |-> "error", run |-> run] \in Ups
      BY DEF TypeOK, Ups, Request
    <3> QED
      BY <1>7, <2>2, <3>1, Sent DEF Restart, Send, Attended
  <2> QED
    BY <2>1, <2>2
<1> QED
  BY <1>1, <1>3, <1>4, <1>5, <1>6, <1>7 DEF MainStep, TaskStep

LEMMA AttendedStep ==
  ASSUME TypeOK, WorkingExecutes, LastIsEnd, Attended, [Next]_vars
  PROVE  Attended'
<1>1. CASE UNCHANGED vars
  BY <1>1 DEF vars, clVars, childVars, history, Attended, Silent
<1> QED
  BY <1>1, AttendedCL, AttendedUser, AttendedProcess DEF Next

-----------------------------------------------------------------------------
THEOREM Invariance == Spec => []IInv
<1>1. Init => IInv
  <2> SUFFICES ASSUME Init PROVE IInv
    OBVIOUS
  <2>1. TypeOK
    BY TypeInit
  <2>2. WorkingExecutes /\ LastIsEnd /\ Attended
    BY DEF Init, WorkingExecutes, Working, LastIsEnd, Attended, Waiting
  <2> QED
    BY <2>1, <2>2 DEF IInv
<1>2. IInv /\ [Next]_vars => IInv'
  BY TypeStep, WorkingStep, LastStep, AttendedStep DEF IInv
<1> QED
  BY <1>1, <1>2, PTL DEF Spec

(***************************************************************************)
(* TypeOK: the pipes hold messages of the protocol, never more than they   *)
(* can, and the CL and the IRAF Main are in states they know.              *)
(***************************************************************************)
THEOREM TypeCorrect == Spec => []TypeOK
<1>1. IInv => TypeOK
  BY DEF IInv
<1> QED
  BY <1>1, Invariance, PTL

(***************************************************************************)
(* NoStandoff: while the CL waits for the process, in its interpreter or   *)
(* in killtask, the process does not wait for the CL, unless an interrupt  *)
(* has come between "bye" and the pop of the task.                         *)
(***************************************************************************)
THEOREM NeverStandoff == Spec => []NoStandoff
<1>1. IInv => NoStandoff
  BY DEF IInv, Attended, NoStandoff, Standoff, Waiting, Silent
<1> QED
  BY <1>1, Invariance, PTL

LEMMA CutOffStep == ASSUME TypeOK, CutOff, [Next]_vars PROVE CutOff'
<1>1. \/ ninterrupts' = 0 /\ redir' = TRUE
      \/ ninterrupts' = ninterrupts + 1 /\ redir' = FALSE
      \/ UNCHANGED <<ninterrupts, redir>>
  BY DEF Next, CLStep, MainStep, TaskStep, User, Display, ReadTerminal,
     GiveValue, QueryUser, NoTerminal, ReadBye, PopBye, PopTask, ReadError,
     Killed, TakeSignal, Restart, Idle, Command, Write, Read, GetParam,
     Answer, Bye, Fail, Ask, RunTask, Type, InterruptBye, InterruptTask,
     Disconnect, vars, clVars
<1>2. ninterrupts \in Nat
  BY DEF TypeOK
<1> QED
  BY <1>1, <1>2 DEF CutOff

(***************************************************************************)
(* Quiet: after an interrupt nothing the task still had in the pipe is     *)
(* displayed.                                                              *)
(***************************************************************************)
THEOREM OutputStops == Spec => []Quiet
<1> DEFINE QInv == TypeOK /\ CutOff /\ Quiet
<1>1. Init => QInv
  BY TypeInit DEF Init, CutOff, Quiet
<1>2. QInv /\ [Next]_vars => QInv'
  <2> SUFFICES ASSUME QInv, [Next]_vars PROVE QInv'
    OBVIOUS
  <2>1. CutOff'
    BY CutOffStep
  <2>2. Quiet'
    <3>1. CASE Display
      BY <3>1 DEF Display, Quiet, CutOff, TypeOK
    <3>2. CASE ~Display
      <4>1. shown' = shown
        BY <3>2 DEF Next, CLStep, MainStep, TaskStep, User, ReadTerminal,
           GiveValue, QueryUser, NoTerminal, ReadBye, PopBye, PopTask,
           ReadError, Killed, TakeSignal, Restart, Idle, Command, Write, Read,
           GetParam, Answer, Bye, Fail, Ask, RunTask, Type, InterruptBye,
           InterruptTask, vars, history
      <4> QED
        BY <4>1 DEF Quiet
    <3> QED
      BY <3>1, <3>2
  <2> QED
    BY <2>1, <2>2, TypeStep
<1> QED
  BY <1>1, <1>2, PTL DEF Spec
-----------------------------------------------------------------------------
(***************************************************************************)
(* The argument for InStep, while no signal has hit a moment without       *)
(* protection: the phases a task and its process go through together.      *)
(*                                                                         *)
(* Over      nothing is on the way, and the process will say nothing       *)
(* Start     the command is on the way                                     *)
(* Doomed    an ERROR is next, of a former task but after an interrupt of  *)
(*           this one: the CL will close the process                       *)
(* Work      the task executes: blocks, then at most one request           *)
(* Failing   the Main restarts: the CL will find an ERROR in the end, and  *)
(*           close the process, whatever else they say                     *)
(* Killing   so it does, but killtask will find the ERROR, and nothing     *)
(*           else, and will not close the process                          *)
(* Ending    "bye" is the last of what is on the way                       *)
(***************************************************************************)
Clean == Flpr /\ struck \cap {"answered", "unread", "hung"} = {}

Stream(s, K) ==
    \A i \in 1 .. Len(s) :
        s[i].run = task /\ (s[i].kind = "xmit" \/ (i = Len(s) /\ s[i].kind \in K))

Mixture(s, K) == \A i \in 1 .. Len(s) : s[i].run = task /\ s[i].kind \in K

Resting == at = "ended" \/ (at \in {"command", "restart"} /\ state = "IDLE")

Over ==
    /\ cl \in {"prompt", "bye", "pop", "kill", "read"}
    /\ up = <<>> /\ down = <<>>
    /\ Resting \/ (at = "command" /\ ~sig /\ cl = "prompt")

Start ==
    /\ cl = "read" /\ up = <<>>
    /\ down # <<>> /\ Tail(down) = <<>> /\ down[1].kind = "cmd" /\ down[1].run = task
    /\ Resting \/ (at = "command" /\ (sig => ninterrupts > 0))
               \/ (at = "restart" /\ ninterrupts > 0)

Doomed == cl = "read" /\ ninterrupts > 0 /\ up # <<>> /\ up[1].kind = "error"

Asking(k) ==
    \/ cl = "read" /\ Stream(up, {k}) /\ down = <<>>
    \/ cl = "read" /\ up = <<>> /\ Tail(down) = <<>>
          /\ down # <<>> /\ down[1].run = task /\ down[1].kind # "cmd"
    \/ cl \in {"tty", "query", "kill"} /\ up = <<>> /\ down = <<>>

Work ==
    /\ run = task /\ (sig => ninterrupts > 0)
    /\ \/ at = "work" /\ cl = "read" /\ Stream(up, {}) /\ down = <<>>
       \/ at = "chars" /\ Asking("xfer") /\ (cl = "tty" => ~sig) /\ (cl = "kill" => sig)
                       /\ cl # "query"
       \/ at = "value" /\ Asking("ask") /\ cl \in {"read", "query"}

Failing ==
    /\ cl \in {"read", "query"} /\ at \in {"restart", "command"} /\ run = task
    /\ Mixture(up, {"xmit", "ask", "error"}) /\ Mixture(down, {"chars", "value"})

Killing ==
    /\ cl = "kill" /\ run = task /\ state = "EXECUTING" /\ ~sig /\ down = <<>>
    /\ \/ at = "restart" /\ up = <<>>
       \/ at = "command" /\ up # <<>> /\ Tail(up) = <<>>
                         /\ up[1].kind = "error" /\ up[1].run = task

Ending == cl = "read" /\ down = <<>> /\ Stream(up, {"bye"}) /\ Resting

Phase == Over \/ Start \/ Doomed \/ Work \/ Failing \/ Killing \/ Ending

SInv == Clean => NotBlamed /\ shown.run = shown.task /\ Phase

Good == NotBlamed /\ shown.run = shown.task

Steady == TypeOK /\ WorkingExecutes /\ CutOff /\ Clean /\ Good /\ Phase
-----------------------------------------------------------------------------
(***************************************************************************)
(* The streams when a message is taken or added.                           *)
(***************************************************************************)
LEMMA OneMessage ==
  ASSUME NEW S, NEW e \in S
  PROVE  LET s == Append(<<>>, e)
         IN  s \in Seq(S) /\ s # <<>> /\ Tail(s) = <<>> /\ s[1] = e /\ Len(s) = 1
<1> DEFINE s == Append(<<>>, e)
<1>1. <<>> \in Seq(S) /\ Len(<<>>) = 0
  BY EmptySeq
<1>2. s \in Seq(S) /\ s # <<>> /\ Len(s) = 1 /\ s[Len(s)] = e
  BY <1>1, AddedLast
<1> HIDE DEF s
<1>3. Tail(s) \in Seq(S) /\ Len(Tail(s)) = 0
  BY <1>2, HeadTailProperties
<1>4. Tail(s) = <<>>
  BY <1>3, EmptySeq
<1> QED
  BY <1>2, <1>4 DEF s

LEMMA OnlyOne ==
  ASSUME NEW S, NEW s \in Seq(S), s # <<>>, Tail(s) = <<>>
  PROVE  Len(s) = 1
<1> DEFINE n == Len(s)
           t == Len(Tail(s))
<1>1. n \in Nat /\ t = n - 1
  BY HeadTailProperties, LenProperties
<1>2. t = 0
  BY EmptySeq
<1>3. n = 1
  <2> HIDE DEF n, t
  <2> QED
    BY <1>1, <1>2
<1> QED
  BY <1>3

LEMMA EmptyStream ==
  ASSUME NEW K
  PROVE  Stream(<<>>, K) /\ Mixture(<<>>, K)
<1>1. Len(<<>>) = 0
  BY EmptySeq
<1> QED
  BY <1>1 DEF Stream, Mixture

LEMMA StreamTaken ==
  ASSUME NEW S, NEW s \in Seq(S), s # <<>>, NEW K, Stream(s, K)
  PROVE  /\ s[1].run = task /\ Stream(Tail(s), K)
         /\ s[1].kind = "xmit" \/ (s[1].kind \in K /\ Tail(s) = <<>>)
<1>1. Len(s) \in Nat /\ Len(s) > 0
  BY EmptySeq, LenProperties
<1>2. /\ Tail(s) \in Seq(S) /\ Len(Tail(s)) = Len(s) - 1
      /\ \A i \in 1 .. Len(Tail(s)) : Tail(s)[i] = s[i + 1]
  BY HeadTailProperties
<1>3. 1 \in 1 .. Len(s)
  BY <1>1
<1>4. ASSUME Len(s) = 1 PROVE Tail(s) = <<>>
  <2> DEFINE n == Len(s)
             u == Tail(s)
  <2>1. n = 1 /\ u \in Seq(S) /\ Len(u) = n - 1
    BY <1>2, <1>4
  <2> HIDE DEF n, u
  <2>2. Len(u) = 0
    BY <2>1
  <2>3. u = <<>>
    BY <2>1, <2>2, EmptySeq
  <2> QED
    BY <2>3 DEF u
<1>5. ASSUME NEW i \in 1 .. Len(Tail(s))
      PROVE  /\ Tail(s)[i].run = task
             /\ Tail(s)[i].kind = "xmit" \/ (i = Len(Tail(s)) /\ Tail(s)[i].kind \in K)
  <2>1. i + 1 \in 1 .. Len(s) /\ (i + 1 = Len(s) <=> i = Len(Tail(s)))
    BY <1>1, <1>2
  <2> QED
    BY <1>2, <2>1 DEF Stream
<1> QED
  BY <1>3, <1>4, <1>5 DEF Stream

LEMMA StreamAdded ==
  ASSUME NEW S, NEW s \in Seq(S), NEW e \in S, NEW K, Stream(s, {}),
         e.run = task, e.kind \in K \cup {"xmit"}
  PROVE  Stream(Append(s, e), K)
<1>1. Len(s) \in Nat
  BY LenProperties
<1>2. /\ Len(Append(s, e)) = Len(s) + 1
      /\ \A i \in 1 .. Len(s) : Append(s, e)[i] = s[i]
      /\ Append(s, e)[Len(s) + 1] = e
  BY AppendProperties
<1>3. \A i \in 1 .. Len(s) + 1 : i \in 1 .. Len(s) \/ i = Len(s) + 1
  BY <1>1
<1> QED
  BY <1>2, <1>3 DEF Stream

LEMMA MixtureTaken ==
  ASSUME NEW S, NEW s \in Seq(S), s # <<>>, NEW K, Mixture(s, K)
  PROVE  s[1].run = task /\ s[1].kind \in K /\ Mixture(Tail(s), K)
<1>1. Len(s) \in Nat /\ Len(s) > 0
  BY EmptySeq, LenProperties
<1>2. /\ Len(Tail(s)) = Len(s) - 1
      /\ \A i \in 1 .. Len(Tail(s)) : Tail(s)[i] = s[i + 1]
  BY HeadTailProperties
<1>3. 1 \in 1 .. Len(s) /\ \A i \in 1 .. Len(Tail(s)) : i + 1 \in 1 .. Len(s)
  BY <1>1, <1>2
<1> QED
  BY <1>2, <1>3 DEF Mixture

LEMMA MixtureAdded ==
  ASSUME NEW S, NEW s \in Seq(S), NEW e \in S, NEW K, Mixture(s, K),
         e.run = task, e.kind \in K
  PROVE  Mixture(Append(s, e), K)
<1>1. Len(s) \in Nat
  BY LenProperties
<1>2. /\ Len(Append(s, e)) = Len(s) + 1
      /\ \A i \in 1 .. Len(s) : Append(s, e)[i] = s[i]
      /\ Append(s, e)[Len(s) + 1] = e
  BY AppendProperties
<1>3. \A i \in 1 .. Len(s) + 1 : i \in 1 .. Len(s) \/ i = Len(s) + 1
  BY <1>1
<1> QED
  BY <1>2, <1>3 DEF Mixture

LEMMA HeadKept ==
  ASSUME NEW S, NEW s \in Seq(S), NEW e \in S, s # <<>>
  PROVE  Append(s, e) # <<>> /\ Append(s, e)[1] = s[1]
<1>1. Len(s) \in Nat /\ Len(s) > 0
  BY EmptySeq, LenProperties
<1>2. 1 \in 1 .. Len(s)
  BY <1>1
<1> QED
  BY <1>2, AppendProperties, AddedLast

LEMMA Typed ==
  ASSUME TypeOK
  PROVE  /\ up \in Seq(Ups) /\ down \in Seq(Downs) /\ Len(up) \in Nat
         /\ ninterrupts \in Nat /\ task \in 0 .. MaxTask /\ run \in 0 .. MaxTask
         /\ state \in {"IDLE", "EXECUTING"}
         /\ \A k \in Request, r \in 0 .. MaxTask : [kind |-> k, run |-> r] \in Ups
         /\ \A k \in Reply, r \in 0 .. MaxTask : [kind |-> k, run |-> r] \in Downs
         /\ \A d \in Downs : d.kind \in Reply
<1>1. up \in Seq(Ups) /\ down \in Seq(Downs)
  BY DEF TypeOK, Ups, Downs
<1>2. Len(up) \in Nat /\ ninterrupts \in Nat
  BY <1>1, LenProperties DEF TypeOK
<1> QED
  BY <1>1, <1>2 DEF TypeOK, Ups, Downs
LEMMA GoodKept ==
  ASSUME Good, UNCHANGED <<task, ninterrupts, ended, shown>>
  PROVE  Good'
BY DEF Good, NotBlamed

-----------------------------------------------------------------------------
(***************************************************************************)
(* The steps of the CL.                                                    *)
(***************************************************************************)
LEMMA InRunTask == ASSUME Steady, RunTask PROVE Good' /\ Phase'
<1> DEFINE e == [kind |-> "cmd", run |-> task + 1]
<1>1. Over
  BY DEF Steady, RunTask, Phase, Start, Doomed, Work, Asking, Failing, Killing, Ending
<1>2. e \in Downs
  BY DEF Steady, TypeOK, RunTask, Downs, Reply
<1>3. down' = Append(<<>>, e) /\ up' = <<>> /\ cl' = "read" /\ task' = task + 1
      /\ ended' = 0 /\ UNCHANGED <<at, state, run, sig, shown>>
  BY <1>1 DEF RunTask, Over, childVars
<1>4. e.kind = "cmd" /\ e.run = task + 1
  OBVIOUS
<1> HIDE DEF e
<1>5. down' # <<>> /\ Tail(down') = <<>> /\ down'[1] = e
  BY <1>2, <1>3, OneMessage
<1>6. Start'
  BY <1>1, <1>3, <1>4, <1>5 DEF Over, Start, Resting
<1>7. Good'
  BY <1>3 DEF Steady, Good, NotBlamed
<1> QED
  BY <1>6, <1>7 DEF Phase

LEMMA InDisplay == ASSUME Steady, Display PROVE Good' /\ Phase'
<1>1. /\ up # <<>> /\ up[1].kind = "xmit" /\ up' = Tail(up) /\ cl \in {"read", "kill"}
      /\ UNCHANGED <<cl, task, redir, ninterrupts, at, state, run, down, sig, ended>>
      /\ shown' = shown \/ (shown'.task = task /\ shown'.run = up[1].run)
  BY DEF Display, Take, clVars, childVars
<1>2. up \in Seq(Ups)
  BY Typed DEF Steady
<1>3. CASE Work
  <2>1. \E K \in {{}, {"xfer"}, {"ask"}} : Stream(up, K)
    BY <1>1, <1>3 DEF Work, Asking
  <2>2. up[1].run = task /\ \A K \in {{}, {"xfer"}, {"ask"}} : Stream(up, K) => Stream(up', K)
    BY <1>1, <1>2, <2>1, StreamTaken
  <2>3. Work'
    BY <1>1, <1>3, <2>2 DEF Work, Asking, Stream
  <2> QED
    BY <1>1, <2>2, <2>3 DEF Steady, Good, NotBlamed, Phase
<1>4. CASE Failing
  <2>1. up[1].run = task /\ Mixture(up', {"xmit", "ask", "error"})
    BY <1>1, <1>2, <1>4, MixtureTaken DEF Failing
  <2>2. Failing'
    BY <1>1, <1>4, <2>1 DEF Failing, Mixture
  <2> QED
    BY <1>1, <2>1, <2>2 DEF Steady, Good, NotBlamed, Phase
<1>5. CASE Ending
  <2>1. up[1].run = task /\ Stream(up', {"bye"})
    BY <1>1, <1>2, <1>5, StreamTaken DEF Ending
  <2>2. Ending'
    BY <1>1, <1>5, <2>1 DEF Ending, Resting, Stream
  <2> QED
    BY <1>1, <2>1, <2>2 DEF Steady, Good, NotBlamed, Phase
<1> QED
  BY <1>1, <1>3, <1>4, <1>5 DEF Steady, Phase, Over, Start, Doomed, Killing

(***************************************************************************)
(* Which request can be the next, and that the pipe is empty after it.     *)
(***************************************************************************)
LEMMA NextRequest ==
  ASSUME Steady, cl \in {"read", "kill"}, up # <<>>
  PROVE  /\ up[1].kind = "xfer" => Work /\ at = "chars" /\ cl = "read"
                                    /\ down = <<>> /\ Tail(up) = <<>>
         /\ up[1].kind = "ask" => /\ cl = "read"
                                  /\ \/ Work /\ at = "value" /\ down = <<>> /\ Tail(up) = <<>>
                                     \/ Failing
         /\ up[1].kind = "bye" => Ending /\ Tail(up) = <<>> /\ up[1].run = task
         /\ up[1].kind = "error" => Doomed \/ (up[1].run = task /\ (Failing \/ Killing))
<1>1. up \in Seq(Ups)
  BY Typed DEF Steady
<1>2. CASE Work
  <2>1. \E K \in {{}, {"xfer"}, {"ask"}} :
           /\ Stream(up, K) /\ cl = "read" /\ down = <<>>
           /\ K = {"xfer"} => at = "chars"
           /\ K = {"ask"} => at = "value"
    BY <1>2 DEF Work, Asking
  <2> QED
    BY <1>1, <1>2, <2>1, StreamTaken
<1>3. CASE Failing
  BY <1>1, <1>3, MixtureTaken DEF Failing
<1>4. CASE Ending
  BY <1>1, <1>4, StreamTaken DEF Ending
<1> QED
  BY <1>2, <1>3, <1>4 DEF Steady, Phase, Over, Start, Doomed, Killing

LEMMA InReadTerminal == ASSUME Steady, ReadTerminal PROVE Good' /\ Phase'
<1>1. up # <<>> /\ up[1].kind = "xfer" /\ up' = Tail(up) /\ redir /\ cl \in {"read", "kill"}
      /\ UNCHANGED <<task, ninterrupts, at, state, run, down, sig, ended, shown>>
  BY DEF ReadTerminal, Take, childVars, history
<1>2. Work /\ at = "chars" /\ cl = "read" /\ down = <<>> /\ up' = <<>>
  BY <1>1, NextRequest
<1>3. cl' = "tty"
  BY <1>2 DEF ReadTerminal
<1>4. ~sig
  BY <1>1, <1>2 DEF Steady, CutOff, Work
<1>5. Work'
  BY <1>1, <1>2, <1>3, <1>4 DEF Work, Asking
<1> QED
  BY <1>1, <1>5, GoodKept DEF Steady, Phase

LEMMA InGiveValue == ASSUME Steady, GiveValue PROVE Good' /\ Phase'
<1> DEFINE e == [kind |-> "value", run |-> task]
<1>1. up # <<>> /\ up[1].kind = "ask" /\ up' = Tail(up) /\ cl = "read" /\ cl' = "read"
      /\ down' = Append(down, e)
      /\ UNCHANGED <<task, ninterrupts, at, state, run, sig, ended, shown>>
  BY DEF GiveValue, Take, clVars, childVars, history
<1>2. up \in Seq(Ups) /\ down \in Seq(Downs) /\ e \in Downs
  BY Typed DEF Steady, Reply
<1>3. e.kind = "value" /\ e.run = task
  OBVIOUS
<1> HIDE DEF e
<1>4. CASE Work /\ at = "value" /\ down = <<>> /\ Tail(up) = <<>>
  <2>1. down' # <<>> /\ Tail(down') = <<>> /\ down'[1] = e
    BY <1>1, <1>2, <1>4, OneMessage
  <2>2. Work'
    BY <1>1, <1>3, <1>4, <2>1 DEF Work, Asking
  <2> QED
    BY <1>1, <2>2, GoodKept DEF Steady, Phase
<1>5. CASE Failing
  <2>1. Mixture(up', {"xmit", "ask", "error"})
    BY <1>1, <1>2, <1>5, MixtureTaken DEF Failing
  <2>2. Mixture(down', {"chars", "value"})
    BY <1>1, <1>2, <1>3, <1>5, MixtureAdded DEF Failing
  <2>3. Failing'
    BY <1>1, <1>5, <2>1, <2>2 DEF Failing, Mixture
  <2> QED
    BY <1>1, <2>3, GoodKept DEF Steady, Phase
<1> QED
  BY <1>1, <1>4, <1>5, NextRequest

LEMMA InQueryUser == ASSUME Steady, QueryUser PROVE Good' /\ Phase'
<1>1. up # <<>> /\ up[1].kind = "ask" /\ up' = Tail(up) /\ cl = "read" /\ cl' = "query"
      /\ UNCHANGED <<task, ninterrupts, at, state, run, down, sig, ended, shown>>
  BY DEF QueryUser, Take, childVars, history
<1>2. up \in Seq(Ups)
  BY Typed DEF Steady
<1>3. CASE Work /\ at = "value" /\ down = <<>> /\ Tail(up) = <<>>
  <2>1. Work'
    BY <1>1, <1>3 DEF Work, Asking
  <2> QED
    BY <1>1, <2>1, GoodKept DEF Steady, Phase
<1>4. CASE Failing
  <2>1. Mixture(up', {"xmit", "ask", "error"})
    BY <1>1, <1>2, <1>4, MixtureTaken DEF Failing
  <2>2. Failing'
    BY <1>1, <1>4, <2>1 DEF Failing, Mixture
  <2> QED
    BY <1>1, <2>2, GoodKept DEF Steady, Phase
<1> QED
  BY <1>1, <1>3, <1>4, NextRequest

LEMMA InNoTerminal == ASSUME Steady, NoTerminal PROVE Good' /\ Phase'
<1>1. up # <<>> /\ up[1].kind = "xfer" /\ up' = Tail(up) /\ ~redir /\ cl \in {"read", "kill"}
      /\ cl' = "kill" /\ sig' = TRUE
      /\ UNCHANGED <<task, ninterrupts, at, state, run, down, ended, shown>>
  BY DEF NoTerminal, Take, childVars, history
<1>2. Work /\ at = "chars" /\ down = <<>> /\ up' = <<>> /\ ninterrupts > 0
  BY <1>1, NextRequest DEF Steady, CutOff
<1>3. Work'
  BY <1>1, <1>2 DEF Work, Asking
<1> QED
  BY <1>1, <1>3, GoodKept DEF Steady, Phase

LEMMA InReadBye == ASSUME Steady, ReadBye PROVE Good' /\ Phase'
<1>1. up # <<>> /\ up[1].kind = "bye" /\ up' = Tail(up) /\ cl = "read" /\ cl' = "bye"
      /\ ended' = up[1].run
      /\ UNCHANGED <<task, ninterrupts, at, state, run, down, sig, shown>>
  BY DEF ReadBye, Take, childVars
<1>2. Ending /\ up' = <<>> /\ up[1].run = task
  BY <1>1, NextRequest
<1>3. Over'
  BY <1>1, <1>2 DEF Ending, Over, Resting
<1> QED
  BY <1>1, <1>2, <1>3 DEF Steady, Good, NotBlamed, Phase

LEMMA InPop == ASSUME Steady, PopBye \/ PopTask PROVE Good' /\ Phase'
<1>1. cl \in {"bye", "pop"} /\ cl' \in {"pop", "prompt"}
      /\ UNCHANGED <<task, ninterrupts, up, down, at, state, run, sig, ended, shown>>
  BY DEF PopBye, PopTask, childVars, history
<1>2. Over
  BY <1>1 DEF Steady, Phase, Start, Doomed, Work, Asking, Failing, Killing, Ending
<1>3. Over'
  BY <1>1, <1>2 DEF Over, Resting
<1> QED
  BY <1>1, <1>3, GoodKept DEF Steady, Phase

LEMMA InReadError == ASSUME Steady, ReadError PROVE Good' /\ Phase'
<1>1. up # <<>> /\ up[1].kind = "error" /\ cl = "read" /\ cl' = "prompt"
      /\ ended' = up[1].run /\ UNCHANGED <<task, ninterrupts, shown>>
      /\ up' = <<>> /\ down' = <<>> /\ at' = "command" /\ state' = "IDLE"
  BY DEF ReadError, FlushProcess, Steady, Clean
<1>2. ninterrupts > 0 \/ up[1].run = task
  BY <1>1, NextRequest DEF Doomed
<1>3. ninterrupts \in Nat
  BY Typed DEF Steady
<1>4. Good'
  BY <1>1, <1>2, <1>3 DEF Steady, Good, NotBlamed
<1>5. Over'
  BY <1>1 DEF Over, Resting
<1> QED
  BY <1>4, <1>5 DEF Phase

LEMMA InKilled == ASSUME Steady, Killed PROVE Good' /\ Phase'
<1>1. up # <<>> /\ up[1].kind \in {"ask", "bye", "error"} /\ up' = Tail(up)
      /\ cl = "kill" /\ cl' = "prompt" /\ ended' = up[1].run
      /\ UNCHANGED <<task, ninterrupts, down, at, state, run, sig, shown>>
  BY DEF Killed, Take, childVars
<1>2. Killing
  BY <1>1, NextRequest DEF Doomed, Failing, Ending
<1>3. Over'
  BY <1>1, <1>2 DEF Killing, Over
<1>4. Good'
  BY <1>1, <1>2 DEF Killing, Steady, Good, NotBlamed
<1> QED
  BY <1>3, <1>4 DEF Phase

-----------------------------------------------------------------------------
(***************************************************************************)
(* What the user does.                                                     *)
(***************************************************************************)
LEMMA InType == ASSUME Steady, Type PROVE Good' /\ Phase'
<1>1. PICK e \in Downs :
         /\ down' = Append(down, e) /\ e.run = task
         /\ e.kind = IF cl = "query" THEN "value" ELSE "chars"
  BY Typed DEF Type, Steady, Reply
<1>2. cl \in {"tty", "query", "killtty"} /\ (cl # "killtty" => cl' = "read")
      /\ UNCHANGED <<task, ninterrupts, up, at, state, run, sig, ended, shown>>
  BY DEF Type, childVars, history
<1>3. down \in Seq(Downs)
  BY Typed DEF Steady
<1>4. CASE Work
  <2>1. down = <<>> /\ up = <<>> /\ cl # "killtty"
    BY <1>2, <1>4 DEF Work, Asking
  <2>2. down' # <<>> /\ Tail(down') = <<>> /\ down'[1] = e
    BY <1>1, <2>1, OneMessage
  <2>3. e.kind # "cmd"
    BY <1>1
  <2>4. Work'
    BY <1>1, <1>2, <1>4, <2>1, <2>2, <2>3 DEF Work, Asking
  <2> QED
    BY <1>2, <2>4, GoodKept DEF Steady, Phase
<1>5. CASE Failing
  <2>1. Mixture(down', {"chars", "value"})
    BY <1>1, <1>3, <1>5, MixtureAdded DEF Failing
  <2>2. Failing'
    BY <1>2, <1>5, <2>1 DEF Failing, Mixture
  <2> QED
    BY <1>2, <2>2, GoodKept DEF Steady, Phase
<1> QED
  BY <1>2, <1>4, <1>5 DEF Steady, Phase, Over, Start, Doomed, Killing, Ending

LEMMA InInterruptBye == ASSUME Steady, InterruptBye PROVE Good' /\ Phase'
<1>1. cl = "bye" /\ cl' = "kill"
      /\ UNCHANGED <<task, ninterrupts, up, down, at, state, run, ended, shown>>
  BY DEF InterruptBye, Strike, childVars
<1>2. Over
  BY <1>1 DEF Steady, Phase, Start, Doomed, Work, Asking, Failing, Killing, Ending
<1>3. Over'
  BY <1>1, <1>2 DEF Over, Resting
<1> QED
  BY <1>1, <1>3, GoodKept DEF Steady, Phase

(***************************************************************************)
(* An interrupt that does not end the task: the CL reads again, and knows  *)
(* that it has been interrupted.                                           *)
(***************************************************************************)
LEMMA InInterruptTask == ASSUME Steady, InterruptTask, Clean' PROVE Good' /\ Phase'
<1>1. ~Hung
  BY DEF InterruptTask, Clean
<1>2. /\ cl \in {"read", "tty", "query", "pop", "kill", "killtty"} /\ cl' = "read"
      /\ sig' = TRUE /\ ninterrupts' = ninterrupts + 1
      /\ UNCHANGED <<task, up, down, at, state, run, ended, shown>>
  BY <1>1 DEF InterruptTask, Resume, Strike, childVars
<1>3. ninterrupts' > 0 /\ ninterrupts' # 0 /\ up \in Seq(Ups)
  BY <1>2, Typed DEF Steady
<1>4. Good'
  BY <1>2, <1>3 DEF Steady, Good, NotBlamed
<1>5. Stream(<<>>, {"xfer"}) /\ Stream(<<>>, {"ask"}) /\ Mixture(<<>>, {"chars", "value"})
      /\ Mixture(<<>>, {"xmit", "ask", "error"})
  BY EmptyStream
<1>6. CASE Over
  BY <1>2, <1>4, <1>6 DEF Over, Resting, Phase
<1>7. CASE Start
  <2>1. Start'
    BY <1>2, <1>3, <1>7 DEF Start, Resting
  <2> QED
    BY <1>4, <2>1 DEF Phase
<1>8. CASE Doomed
  BY <1>2, <1>3, <1>4, <1>8 DEF Doomed, Phase
<1>9. CASE Work
  <2>1. Work'
    BY <1>2, <1>3, <1>5, <1>9 DEF Work, Asking, Stream
  <2> QED
    BY <1>4, <2>1 DEF Phase
<1>10. CASE Failing
  <2>1. Failing'
    BY <1>2, <1>10 DEF Failing, Mixture
  <2> QED
    BY <1>4, <2>1 DEF Phase
<1>11. CASE Killing
  <2>1. Mixture(up, {"xmit", "ask", "error"})
    <3>1. CASE up = <<>>
      BY <1>5, <3>1
    <3>2. CASE up # <<>>
      <4>1. Len(up) = 1 /\ up[1].kind = "error" /\ up[1].run = task
        BY <1>3, <1>11, <3>2, OnlyOne DEF Killing
      <4> QED
        BY <4>1 DEF Mixture
    <3> QED
      BY <3>1, <3>2
  <2>2. Failing'
    BY <1>2, <1>5, <1>11, <2>1 DEF Killing, Failing, Mixture
  <2> QED
    BY <1>4, <2>2 DEF Phase
<1>12. CASE Ending
  <2>1. Ending'
    BY <1>2, <1>12 DEF Ending, Resting, Stream
  <2> QED
    BY <1>4, <2>1 DEF Phase
<1> QED
  BY <1>6, <1>7, <1>8, <1>9, <1>10, <1>11, <1>12 DEF Steady, Phase
-----------------------------------------------------------------------------
(***************************************************************************)
(* The steps of the process.                                               *)
(***************************************************************************)
LEMMA DoomedStays ==
  ASSUME Steady, Doomed, UNCHANGED <<cl, ninterrupts>>,
         up' = up \/ \E m \in Ups : up' = Append(up, m)
  PROVE  Doomed'
<1>1. up \in Seq(Ups)
  BY Typed DEF Steady
<1> QED
  BY <1>1, HeadKept DEF Doomed

LEMMA InCommand == ASSUME Steady, Command PROVE Good' /\ Phase'
<1>1. /\ at = "command" /\ down # <<>> /\ ~sig /\ down' = Tail(down)
      /\ run' = down[1].run
      /\ UNCHANGED <<cl, task, redir, ninterrupts, sig, ended, shown>>
  BY DEF Command, Get, clVars, history
<1>2. \/ down[1].kind = "cmd" /\ at' = "work" /\ state' = "EXECUTING" /\ up' = up
      \/ /\ down[1].kind # "cmd" /\ at' = at /\ state' = "IDLE"
         /\ up' = Append(up, [kind |-> "error", run |-> down[1].run])
  BY DEF Command
<1>3. up \in Seq(Ups) /\ down \in Seq(Downs) /\ down[1] \in Downs
  BY <1>1, Typed, Got DEF Command, Steady
<1>4. [kind |-> "error", run |-> down[1].run] \in Ups
  BY <1>3, Typed DEF Steady, Downs, Request
<1>5. Good'
  BY <1>1, GoodKept DEF Steady
<1>6. CASE Start
  <2>1. Work'
    BY <1>1, <1>2, <1>6, EmptyStream DEF Start, Work, Stream
  <2> QED
    BY <1>5, <2>1 DEF Phase
<1>7. CASE Doomed
  <2>1. Doomed'
    BY <1>1, <1>2, <1>4, <1>7, DoomedStays
  <2> QED
    BY <1>5, <2>1 DEF Phase
<1>8. CASE Failing
  <2>1. /\ down[1].run = task /\ down[1].kind \in {"chars", "value"}
        /\ Mixture(down', {"chars", "value"})
    BY <1>1, <1>3, <1>8, MixtureTaken DEF Failing
  <2> DEFINE m == [kind |-> "error", run |-> down[1].run]
  <2>2. up' = Append(up, m) /\ at' = at /\ m.run = task /\ m.kind = "error" /\ m \in Ups
    BY <1>2, <1>4, <2>1
  <2> HIDE DEF m
  <2>3. Mixture(up', {"xmit", "ask", "error"})
    BY <1>3, <1>8, <2>2, MixtureAdded DEF Failing
  <2>4. Failing'
    BY <1>1, <1>8, <2>1, <2>2, <2>3 DEF Failing, Mixture
  <2> QED
    BY <1>5, <2>4 DEF Phase
<1> QED
  BY <1>1, <1>6, <1>7, <1>8 DEF Steady, Phase, Over, Work, Killing, Ending

LEMMA InAsk ==
  ASSUME Steady, NEW k \in {"xmit", "xfer", "ask", "bye"}, NEW then, Ask(k, then),
         \/ k = "xmit" /\ then = "work"
         \/ k = "xfer" /\ then = "chars"
         \/ k = "ask" /\ then = "value"
         \/ k = "bye" /\ then = "ended"
  PROVE  Good' /\ Phase'
<1> DEFINE m == [kind |-> k, run |-> run]
<1>1. /\ at = "work" /\ at' = then /\ up' = Append(up, m)
      /\ UNCHANGED <<cl, task, redir, ninterrupts, state, run, down, sig, ended, shown>>
  BY DEF Ask, Send, clVars, history
<1>2. m \in Ups /\ up \in Seq(Ups) /\ m.kind = k /\ m.run = run
  BY Typed DEF Steady, Request
<1> HIDE DEF m
<1>3. Good'
  BY <1>1, GoodKept DEF Steady
<1>4. CASE Work
  <2>1. Stream(up, {}) /\ run = task /\ cl = "read" /\ down = <<>>
    BY <1>1, <1>4 DEF Work
  <2>2. /\ k = "xmit" => Stream(up', {})
        /\ k # "xmit" => Stream(up', {k})
    BY <1>1, <1>2, <2>1, StreamAdded
  <2>3. Work' \/ Ending'
    BY <1>1, <1>4, <2>1, <2>2 DEF Work, Asking, Ending, Resting, Stream
  <2> QED
    BY <1>3, <2>3 DEF Phase
<1>5. CASE Doomed
  <2>1. Doomed'
    BY <1>1, <1>2, <1>5, DoomedStays
  <2> QED
    BY <1>3, <2>1 DEF Phase
<1> QED
  BY <1>1, <1>4, <1>5 DEF Steady, Phase, Over, Start, Failing, Killing, Ending, Resting

LEMMA InAnswer == ASSUME Steady, Answer PROVE Good' /\ Phase'
<1>1. /\ at \in {"chars", "value"} /\ at' = "work" /\ down # <<>> /\ ~sig /\ down' = Tail(down)
      /\ UNCHANGED <<cl, task, ninterrupts, state, run, up, sig, ended, shown>>
  BY DEF Answer, Get, clVars, history
<1>2. Good'
  BY <1>1, GoodKept DEF Steady
<1>3. CASE Work
  <2>1. cl = "read" /\ up = <<>> /\ down' = <<>>
    BY <1>1, <1>3 DEF Work, Asking
  <2>2. Work'
    BY <1>1, <1>3, <2>1, EmptyStream DEF Work, Stream
  <2> QED
    BY <1>2, <2>2 DEF Phase
<1>4. CASE Doomed
  BY <1>1, <1>2, <1>4, DoomedStays DEF Phase
<1> QED
  BY <1>1, <1>3, <1>4 DEF Steady, Phase, Over, Start, Failing, Killing, Ending, Resting

LEMMA InIdle == ASSUME Steady, Idle PROVE Good' /\ Phase'
<1>1. /\ at = "ended" /\ at' = "command" /\ state' = "IDLE"
      /\ UNCHANGED <<cl, task, ninterrupts, run, up, down, sig, ended, shown>>
  BY DEF Idle, clVars, history
<1>2. Good'
  BY <1>1, GoodKept DEF Steady
<1>3. CASE Over
  BY <1>1, <1>2, <1>3 DEF Over, Resting, Phase
<1>4. CASE Start
  <2>1. Start'
    BY <1>1, <1>4 DEF Start, Resting
  <2> QED
    BY <1>2, <2>1 DEF Phase
<1>5. CASE Doomed
  BY <1>1, <1>2, <1>5, DoomedStays DEF Phase
<1>6. CASE Ending
  <2>1. Ending'
    BY <1>1, <1>6 DEF Ending, Resting, Stream
  <2> QED
    BY <1>2, <2>1 DEF Phase
<1> QED
  BY <1>1, <1>3, <1>4, <1>5, <1>6 DEF Steady, Phase, Work, Failing, Killing

(***************************************************************************)
(* The Main restarts with what the task has said still in the pipe.        *)
(***************************************************************************)
LEMMA SaidBefore ==
  ASSUME NEW s, NEW K, Stream(s, K)
  PROVE  Mixture(s, {"xmit"} \cup K)
BY DEF Stream, Mixture

LEMMA InFail == ASSUME Steady, Fail PROVE Good' /\ Phase'
<1>1. /\ at = "work" /\ at' = "restart"
      /\ UNCHANGED <<cl, task, ninterrupts, state, run, up, down, sig, ended, shown>>
  BY DEF Fail, clVars, history
<1>2. Good'
  BY <1>1, GoodKept DEF Steady
<1>3. CASE Work
  <2>1. cl = "read" /\ run = task /\ down = <<>> /\ Stream(up, {})
    BY <1>1, <1>3 DEF Work
  <2>2. Mixture(up, {"xmit", "ask", "error"}) /\ Mixture(down, {"chars", "value"})
    BY <2>1, SaidBefore, EmptyStream DEF Mixture
  <2>3. Failing'
    BY <1>1, <2>1, <2>2 DEF Failing, Mixture
  <2> QED
    BY <1>2, <2>3 DEF Phase
<1>4. CASE Doomed
  BY <1>1, <1>2, <1>4, DoomedStays DEF Phase
<1> QED
  BY <1>1, <1>3, <1>4 DEF Steady, Phase, Over, Start, Failing, Killing, Ending, Resting

LEMMA InTakeSignal == ASSUME Steady, TakeSignal, Clean' PROVE Good' /\ Phase'
<1>1. /\ sig /\ sig' = FALSE /\ at' = "restart"
      /\ UNCHANGED <<cl, task, ninterrupts, state, run, up, down, ended, shown>>
  BY DEF TakeSignal, clVars
<1>2. at # "ended" /\ \A i \in DOMAIN up : up[i].kind # "xfer"
  BY DEF TakeSignal, Moment, Clean
<1>3. up \in Seq(Ups) /\ down \in Seq(Downs) /\ DOMAIN up = 1 .. Len(up)
  BY Typed, LenProperties DEF Steady
<1>4. Good'
  BY <1>1, GoodKept DEF Steady
<1>5. CASE Over
  BY <1>1, <1>2, <1>4, <1>5 DEF Over, Resting, Phase
<1>6. CASE Start
  <2>1. Start'
    BY <1>1, <1>2, <1>6 DEF Start, Resting
  <2> QED
    BY <1>4, <2>1 DEF Phase
<1>7. CASE Doomed
  BY <1>1, <1>4, <1>7, DoomedStays DEF Phase
<1>8. CASE Work
  <2>1. at \in Working
    BY <1>8 DEF Work, Working
  <2>2. state = "EXECUTING"
    BY <2>1 DEF Steady, WorkingExecutes
  <2>3. CASE cl = "kill"
    <3>1. up = <<>> /\ down = <<>> /\ run = task
      BY <1>8, <2>3 DEF Work, Asking
    <3> QED
      BY <1>1, <1>4, <2>2, <2>3, <3>1 DEF Killing, Phase
  <2>4. CASE cl # "kill"
    <3>1. cl \in {"read", "query"} /\ run = task
      BY <1>1, <1>8, <2>4 DEF Work, Asking
    <3>2. Mixture(up, {"xmit", "ask", "error"})
      <4>1. CASE up = <<>>
        BY <4>1, EmptyStream
      <4>2. CASE up # <<>>
        <5>1. PICK K \in {{}, {"xfer"}, {"ask"}} : Stream(up, K)
          BY <1>8, <4>2 DEF Work, Asking
        <5> QED
          BY <1>2, <1>3, <5>1 DEF Stream, Mixture
      <4> QED
        BY <4>1, <4>2
    <3>3. Mixture(down, {"chars", "value"})
      <4>1. CASE down = <<>>
        BY <4>1, EmptyStream
      <4>2. CASE down # <<>>
        <5>1. Tail(down) = <<>> /\ down[1].run = task /\ down[1].kind # "cmd"
          BY <1>8, <4>2 DEF Work, Asking
        <5>2. Len(down) = 1
          BY <1>3, <4>2, <5>1, OnlyOne
        <5>3. down[1].kind \in {"chars", "value"}
          <6>1. down[1] \in Downs
            BY <1>3, <4>2, TakenFirst
          <6> QED
            BY <5>1, <6>1 DEF Downs, Reply
        <5> QED
          BY <5>1, <5>2, <5>3 DEF Mixture
      <4> QED
        BY <4>1, <4>2
    <3>4. Failing'
      BY <1>1, <3>1, <3>2, <3>3 DEF Failing, Mixture
    <3> QED
      BY <1>4, <3>4 DEF Phase
  <2> QED
    BY <2>3, <2>4
<1>9. CASE Failing
  <2>1. Failing'
    BY <1>1, <1>9 DEF Failing, Mixture
  <2> QED
    BY <1>4, <2>1 DEF Phase
<1>10. CASE Ending
  <2>1. Ending'
    BY <1>1, <1>2, <1>10 DEF Ending, Resting, Stream
  <2> QED
    BY <1>4, <2>1 DEF Phase
<1> QED
  BY <1>1, <1>5, <1>6, <1>7, <1>8, <1>9, <1>10 DEF Steady, Phase, Killing

LEMMA InRestart == ASSUME Steady, Restart PROVE Good' /\ Phase'
<1> DEFINE m == [kind |-> "error", run |-> run]
<1>1. /\ at = "restart" /\ at' = "command"
      /\ \/ state = "IDLE" /\ up' = up
         \/ state = "EXECUTING" /\ up' = Append(up, m)
      /\ UNCHANGED <<cl, task, ninterrupts, state, run, down, sig, ended, shown>>
  BY Typed DEF Restart, Unheard, Send, clVars, history, Steady
<1>2. m \in Ups /\ up \in Seq(Ups) /\ m.kind = "error" /\ m.run = run
  BY Typed DEF Steady, Request
<1> HIDE DEF m
<1>3. Good'
  BY <1>1, GoodKept DEF Steady
<1>4. CASE Over
  BY <1>1, <1>3, <1>4 DEF Over, Resting, Phase
<1>5. CASE Start
  <2>1. CASE state = "IDLE"
    <3>1. Start'
      BY <1>1, <1>5, <2>1 DEF Start, Resting
    <3> QED
      BY <1>3, <3>1 DEF Phase
  <2>2. CASE state = "EXECUTING"
    <3>1. up' = Append(<<>>, m) /\ ninterrupts > 0 /\ cl = "read"
      BY <1>1, <1>5, <2>2 DEF Start, Resting
    <3>2. up' # <<>> /\ up'[1] = m
      BY <1>2, <3>1, OneMessage
    <3> QED
      BY <1>1, <1>2, <1>3, <3>1, <3>2 DEF Doomed, Phase
  <2> QED
    BY <1>1, <2>1, <2>2
<1>6. CASE Doomed
  BY <1>1, <1>2, <1>3, <1>6, DoomedStays DEF Phase
<1>7. CASE Failing
  <2>1. Mixture(up, {"xmit", "ask", "error"}) /\ run = task
    BY <1>7 DEF Failing
  <2>2. Mixture(up', {"xmit", "ask", "error"})
    <3>1. CASE up' = up
      BY <2>1, <3>1
    <3>2. CASE up' = Append(up, m)
      <4>1. m.run = task /\ m.kind \in {"xmit", "ask", "error"}
        BY <1>2, <2>1
      <4>2. Mixture(Append(up, m), {"xmit", "ask", "error"})
        BY <1>2, <2>1, <4>1, MixtureAdded
      <4> QED
        BY <3>2, <4>2
    <3> QED
      BY <1>1, <3>1, <3>2
  <2>3. Failing'
    BY <1>1, <1>7, <2>2 DEF Failing, Mixture
  <2> QED
    BY <1>3, <2>3 DEF Phase
<1>8. CASE Killing
  <2>1. up' = Append(<<>>, m)
    BY <1>1, <1>8 DEF Killing
  <2>2. up' # <<>> /\ Tail(up') = <<>> /\ up'[1] = m
    BY <1>2, <2>1, OneMessage
  <2>3. Killing'
    BY <1>1, <1>2, <1>8, <2>2 DEF Killing
  <2> QED
    BY <1>3, <2>3 DEF Phase
<1>9. CASE Ending
  <2>1. Ending'
    BY <1>1, <1>9 DEF Ending, Resting, Stream
  <2> QED
    BY <1>3, <2>1 DEF Phase
<1> QED
  BY <1>1, <1>4, <1>5, <1>6, <1>7, <1>8, <1>9 DEF Steady, Phase, Work

LEMMA SStep ==
  ASSUME TypeOK, WorkingExecutes, CutOff, SInv, [Next]_vars
  PROVE  SInv'
<1> SUFFICES ASSUME Clean' PROVE Good' /\ Phase'
  BY DEF SInv, Good
<1>1. Clean
  BY DEF Next, CLStep, MainStep, TaskStep, User, Display, ReadTerminal,
     GiveValue, QueryUser, NoTerminal, ReadBye, PopBye, PopTask, ReadError,
     Killed, TakeSignal, Restart, Idle, Command, Write, Read, GetParam,
     Answer, Bye, Fail, Ask, RunTask, Type, InterruptBye, InterruptTask,
     vars, history, Clean
<1>2. Steady
  BY <1>1 DEF SInv, Steady, Good
<1>3. CASE CLStep
  BY <1>2, <1>3, InDisplay, InReadTerminal, InGiveValue, InQueryUser, InNoTerminal,
     InReadBye, InPop, InReadError, InKilled DEF CLStep
<1>4. CASE MainStep
  BY <1>2, <1>4, InTakeSignal, InRestart, InIdle DEF MainStep
<1>5. CASE Command
  BY <1>2, <1>5, InCommand
<1>6. CASE TaskStep
  BY <1>2, <1>6, InAsk, InAnswer, InFail DEF TaskStep, Write, Read, GetParam, Bye
<1>7. CASE User
  BY <1>2, <1>7, InRunTask, InType, InInterruptBye, InInterruptTask DEF User
<1>8. CASE UNCHANGED vars
  BY <1>2, <1>8 DEF vars, clVars, childVars, history, Steady, Good, NotBlamed, Phase, Over,
     Start, Doomed, Work, Asking, Failing, Killing, Ending, Resting, Stream, Mixture
<1> QED
  BY <1>3, <1>4, <1>5, <1>6, <1>7, <1>8 DEF Next

(***************************************************************************)
(* InStep: with "flpr", and while no signal hits a moment without          *)
(* protection, the pipes are empty at the prompt, no task is ended by the  *)
(* message of another that has not been interrupted, and what is displayed *)
(* comes from the task that runs; however a task fails, asks, is           *)
(* interrupted and answers.                                                *)
(***************************************************************************)
THEOREM KeepsInStep == Spec => []InStep
<1>1. Init => CutOff /\ SInv
  <2> SUFFICES ASSUME Init PROVE CutOff /\ SInv
    OBVIOUS
  <2>1. Over
    BY DEF Init, Over, Resting
  <2> QED
    BY <2>1 DEF Init, CutOff, SInv, NotBlamed, Phase
<1>2. IInv /\ CutOff /\ SInv /\ [Next]_vars => CutOff' /\ SInv'
  BY CutOffStep, SStep DEF IInv
<1>3. SInv => InStep
  <2> SUFFICES ASSUME SInv, Clean PROVE InStep
    BY DEF InStep, Clean
  <2>1. NotBlamed /\ shown.run = shown.task /\ Phase
    BY DEF SInv
  <2>2. cl = "prompt" => Over
    BY <2>1 DEF Phase, Start, Doomed, Work, Asking, Failing, Killing, Ending
  <2> QED
    BY <2>1, <2>2 DEF Over, Resting, InStep
<1> QED
  BY <1>1, <1>2, <1>3, Invariance, PTL DEF Spec
=============================================================================
