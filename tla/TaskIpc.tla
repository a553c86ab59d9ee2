------------------------------ MODULE TaskIpc ------------------------------
(***************************************************************************)
(* A task in a connected subprocess, and the CL that runs it: the IRAF     *)
(* Main's interpreter loop (sys/etc/main.x), the CL's side of the          *)
(* pseudofiles (sys/etc/prpsio.x) and its handling of the keyboard         *)
(* interrupt (onint, killtask, oneof, clerror of pkg/ecl), over the pair   *)
(* of pipes of unix/os/zfiopr.c.                                           *)
(*                                                                         *)
(* A message is a request or a command with what goes with it: the         *)
(* directive and the block of an xmit, or the count and the characters     *)
(* that answer an xfer, are one message here.  The interrupt comes at any  *)
(* time but between the two, and at most MaxStrikes times.                 *)
(***************************************************************************)
EXTENDS Naturals, Sequences

CONSTANTS
    MaxTask,         \* tasks the user runs, one after the other (bound)
    PipeSize,        \* messages the pipe to the CL holds
    MaxInterrupts,   \* MAX_INTERRUPTS
    MaxStrikes,      \* interrupts from the keyboard (bound)
    Flpr             \* the option "flpr" of erract (on unless it is reset)

ASSUME TaskIpcAssumption ==
    /\ MaxTask \in Nat /\ PipeSize \in Nat \ {0}
    /\ MaxInterrupts \in Nat \ {0} /\ MaxStrikes \in Nat /\ Flpr \in BOOLEAN

VARIABLES
    cl,           \* what the CL does; "prompt": no task runs
    task,         \* the task it runs, or ran last
    redir,        \* STDIN and STDOUT of the process lead to the terminal
    ninterrupts,  \* interrupts of this task
    up, down,     \* the pipes from and to the process
    at,           \* what the process does
    state,        \* "state" of the IRAF Main
    run,          \* the task it executes, or executed last
    sig,          \* an X_INT sent to it has not arrived yet
    ended,        \* the task whose message ended this one; 0: none yet
    shown,        \* the last block that reached the terminal
    strikes,      \* interrupts so far
    struck        \* the moments without protection that they have hit

clVars    == <<cl, task, redir, ninterrupts>>
childVars == <<at, state, run>>
history   == <<ended, shown, strikes, struck>>
vars == <<clVars, childVars, up, down, sig, history>>

Task    == 1 .. MaxTask
Request == {"xmit", "xfer", "ask", "bye", "error"}
Reply   == {"cmd", "chars", "value"}
Moments == {"popping", "answered", "unread", "hung"}

TypeOK ==
    /\ cl \in {"prompt", "read", "tty", "query", "bye", "pop", "kill",
              "killtty"}
    /\ task \in 0 .. MaxTask /\ run \in 0 .. MaxTask
    /\ redir \in BOOLEAN /\ sig \in BOOLEAN
    /\ strikes \in 0 .. MaxStrikes /\ ninterrupts \in 0 .. strikes
    /\ up \in Seq([kind : Request, run : 0 .. MaxTask]) /\ Len(up) <= PipeSize
    /\ down \in Seq([kind : Reply, run : 0 .. MaxTask])
    /\ at \in {"command", "work", "chars", "value", "ended", "restart"}
    /\ state \in {"IDLE", "EXECUTING"}
    /\ ended \in 0 .. MaxTask
    /\ shown \in [task : 0 .. MaxTask, run : 0 .. MaxTask, cut : BOOLEAN]
    /\ struck \subseteq Moments

Init ==
    /\ cl = "prompt" /\ task = 0 /\ redir = TRUE /\ ninterrupts = 0
    /\ up = <<>> /\ down = <<>> /\ sig = FALSE
    /\ at = "command" /\ state = "IDLE" /\ run = 0
    /\ ended = 0
    /\ shown = [task |-> 0, run |-> 0, cut |-> FALSE]
    /\ strikes = 0 /\ struck = {}

-----------------------------------------------------------------------------
(* The CL.                                                                 *)

Take(k) == up # <<>> /\ up[1].kind = k /\ up' = Tail(up)

(* callnewtask, pr_connect: the pseudofiles are connected again and the    *)
(* startup message is sent.                                                *)
RunTask ==
    /\ cl = "prompt" /\ task < MaxTask
    /\ cl' = "read" /\ task' = task + 1 /\ ninterrupts' = 0 /\ redir' = TRUE
    /\ down' = Append(down, [kind |-> "cmd", run |-> task + 1])
    /\ ended' = 0
    /\ UNCHANGED <<childVars, up, sig, shown, strikes, struck>>

(* XMIT in pr_psio: the block goes to the terminal, or is read and thrown  *)
(* away if STDOUT has been redirected to 0.                                *)
Display ==
    /\ cl \in {"read", "kill"} /\ Take("xmit")
    /\ shown' = IF redir
                THEN [task |-> task, run |-> up[1].run,
                      cut |-> ninterrupts > 0]
                ELSE shown
    /\ UNCHANGED <<clVars, childVars, down, sig, ended, strikes, struck>>

(* XFER in pr_psio: what the user types is the answer.                     *)
ReadTerminal ==
    /\ redir /\ Take("xfer")
    /\ \/ cl = "read" /\ cl' = "tty"
       \/ cl = "kill" /\ cl' = "killtty"
    /\ UNCHANGED <<task, redir, ninterrupts, childVars, down, sig, history>>

(* A parameter the task asks for: its value is sent, or the user is asked. *)
GiveValue ==
    /\ cl = "read" /\ Take("ask")
    /\ down' = Append(down, [kind |-> "value", run |-> task])
    /\ UNCHANGED <<clVars, childVars, sig, history>>

QueryUser ==
    /\ cl = "read" /\ Take("ask")
    /\ cl' = "query"
    /\ UNCHANGED <<task, redir, ninterrupts, childVars, down, sig, history>>

Type ==
    /\ cl \in {"tty", "query", "killtty"}
    /\ cl' = IF cl = "killtty" THEN "kill" ELSE "read"
    /\ down' = Append(down, [kind |-> IF cl = "query" THEN "value" ELSE "chars",
                             run |-> task])
    /\ UNCHANGED <<task, redir, ninterrupts, childVars, up, sig, history>>

(* XFER with STDIN redirected to 0: the read fails, and cl_error unwinds   *)
(* to killtask, which interrupts the process and waits for its ERROR.      *)
NoTerminal ==
    /\ cl \in {"read", "kill"} /\ ~redir /\ Take("xfer")
    /\ cl' = "kill" /\ sig' = TRUE
    /\ UNCHANGED <<task, redir, ninterrupts, childVars, down, history>>

(* "bye": a builtin task that pops itself (clbye), and with it the task    *)
(* that sent it (oneof).                                                   *)
ReadBye ==
    /\ cl = "read" /\ Take("bye")
    /\ cl' = "bye" /\ ended' = up[1].run
    /\ UNCHANGED <<task, redir, ninterrupts, childVars, down, sig, shown,
                   strikes, struck>>

PopBye ==
    /\ cl = "bye" /\ cl' = "pop"
    /\ UNCHANGED <<task, redir, ninterrupts, childVars, up, down, sig,
                   history>>

PopTask ==
    /\ cl = "pop" /\ cl' = "prompt"
    /\ UNCHANGED <<task, redir, ninterrupts, childVars, up, down, sig,
                   history>>

(* flpr_task: the process is closed; the next task gets a new one.         *)
FlushProcess ==
    IF Flpr
    THEN /\ up' = <<>> /\ down' = <<>> /\ sig' = FALSE
         /\ at' = "command" /\ state' = "IDLE" /\ run' = 0
    ELSE up' = Tail(up) /\ UNCHANGED <<down, sig, childVars>>

(* "ERROR": clerror pops the task that sent it and flushes its process.    *)
ReadError ==
    /\ cl = "read" /\ up # <<>> /\ up[1].kind = "error"
    /\ FlushProcess
    /\ cl' = "prompt" /\ ended' = up[1].run
    /\ UNCHANGED <<task, redir, ninterrupts, shown, strikes, struck>>

(* The fgets of killtask ends at the first line that is no directive.      *)
Killed ==
    /\ cl = "kill" /\ \E k \in {"ask", "bye", "error"} : Take(k)
    /\ cl' = "prompt" /\ ended' = up[1].run
    /\ UNCHANGED <<task, redir, ninterrupts, childVars, down, sig, shown,
                   strikes, struck>>

(***************************************************************************)
(* onint.  While the builtin "bye" is the current task the CL unwinds, to  *)
(* killtask; otherwise the interrupt is passed on and the CL goes back to  *)
(* reading commands, unless the task has been interrupted too often.       *)
(***************************************************************************)
Hung == ninterrupts + 1 >= MaxInterrupts

Strike == strikes < MaxStrikes /\ strikes' = strikes + 1 /\ sig' = TRUE

InterruptBye ==
    /\ cl = "bye" /\ Strike
    /\ cl' = "kill"
    /\ struck' = struck \cup {"popping"}
    /\ UNCHANGED <<task, redir, ninterrupts, childVars, up, down, ended,
                   shown>>

DisconnectNot == redir' = redir       \* mutant: prredir is not called

Disconnect == redir' = FALSE

ResumeThere == cl' = IF Hung THEN "kill" ELSE cl       \* mutant: no longjmp

Resume == cl' = IF Hung THEN "kill" ELSE "read"

InterruptTask ==
    /\ cl \in {"read", "tty", "query", "pop", "kill", "killtty"} /\ Strike
    /\ Resume /\ Disconnect /\ ninterrupts' = ninterrupts + 1
    /\ struck' = struck \cup (IF cl = "pop" THEN {"popping"} ELSE {})
                       \cup (IF Hung THEN {"hung"} ELSE {})
    /\ UNCHANGED <<task, childVars, up, down, ended, shown>>

-----------------------------------------------------------------------------
(* The process.                                                            *)

SendAlways(k) ==             \* mutant: a full pipe takes more
    up' = Append(up, [kind |-> k, run |-> run])

Send(k) ==
    /\ Len(up) < PipeSize
    /\ up' = Append(up, [kind |-> k, run |-> run])

(* A signal arrives before a read returns.                                 *)
Get == down # <<>> /\ ~sig /\ down' = Tail(down)

(* sys_getcommand, sys_runtask.  Anything but the name of a task is        *)
(* refused.                                                                *)
Command ==
    /\ at = "command" /\ Get
    /\ run' = down[1].run
    /\ \/ /\ down[1].kind = "cmd"
          /\ at' = "work" /\ state' = "EXECUTING" /\ up' = up
       \/ /\ down[1].kind # "cmd" /\ Len(up) < PipeSize
          /\ at' = at /\ state' = "IDLE"
          /\ up' = Append(up, [kind |-> "error", run |-> down[1].run])
    /\ UNCHANGED <<clVars, sig, history>>

(* ZAWRPS, ZARDPS and CLGSTR: what the task asks of the CL.                *)
Ask(k, then) ==
    /\ at = "work" /\ Send(k) /\ at' = then
    /\ UNCHANGED <<clVars, state, run, down, sig, history>>

Write    == Ask("xmit", "work")
Read     == Ask("xfer", "chars")
GetParam == Ask("ask", "value")

Answer ==
    /\ at \in {"chars", "value"} /\ Get
    /\ at' = "work"
    /\ UNCHANGED <<clVars, state, run, up, sig, history>>

(* The task ends: "bye" is sent, then the Main is idle.                    *)
Bye == Ask("bye", "ended")

Idle ==
    /\ at = "ended" /\ at' = "command" /\ state' = "IDLE"
    /\ UNCHANGED <<clVars, run, up, down, sig, history>>

(* An error in the task restarts the Main.                                 *)
Fail ==
    /\ at = "work" /\ at' = "restart"
    /\ UNCHANGED <<clVars, state, run, up, down, sig, history>>

(* A signal that arrives when "bye" has been sent, or when the task has    *)
(* asked for input and the CL has not seen it.                             *)
Moment ==
    IF at = "ended" THEN {"answered"}
    ELSE IF \E i \in DOMAIN up : up[i].kind = "xfer" THEN {"unread"}
    ELSE {}

(* xstdexh: so does an interrupt, wherever it arrives.                     *)
TakeSignal ==
    /\ sig /\ sig' = FALSE
    /\ at' = "restart"
    /\ struck' = struck \cup Moment
    /\ UNCHANGED <<clVars, state, run, up, down, ended, shown, strikes>>

(* Error restart: the ERROR statement is sent unless the Main is idle.     *)
UnheardNever == FALSE       \* mutant: the guard is missing

UnheardAlways == TRUE       \* mutant: no ERROR statement

Unheard == state = "IDLE"

Restart ==
    /\ at = "restart" /\ at' = "command"
    /\ IF Unheard THEN up' = up ELSE Send("error")
    /\ UNCHANGED <<clVars, state, run, down, sig, history>>

-----------------------------------------------------------------------------
CLStep ==
    \/ Display \/ ReadTerminal \/ GiveValue \/ QueryUser \/ NoTerminal
    \/ ReadBye \/ PopBye \/ PopTask \/ ReadError \/ Killed

MainStep == TakeSignal \/ Restart \/ Idle

TaskStep == Write \/ Read \/ GetParam \/ Answer \/ Bye \/ Fail

User == RunTask \/ Type \/ InterruptBye \/ InterruptTask

Next == CLStep \/ MainStep \/ Command \/ TaskStep \/ User

Spec == Init /\ [][Next]_vars

(***************************************************************************)
(* Both processes run, and the kernel delivers signals.  Nothing is asked  *)
(* of the user, nor of the task: it may compute, or write, for ever.       *)
(***************************************************************************)
FairSpec == Spec /\ WF_vars(CLStep) /\ WF_vars(MainStep)

-----------------------------------------------------------------------------
(***************************************************************************)
(* "If we are connected but idle, do not send the ERROR statement because  *)
(* the CL will not read it until it executes the next task (which it will  *)
(* then mistakenly think has aborted)" (main.x:280): a task that nobody    *)
(* interrupted is ended by a message of its own.  Between the flush of     *)
(* "bye" and the assignment of IDLE the guard does not hold yet.           *)
(***************************************************************************)
NotBlamed == (ninterrupts = 0 /\ ended # 0) => ended = task

(***************************************************************************)
(* The CL and the process keep in step: back at the prompt nothing is left *)
(* in the pipes and the process waits for a command, or is about to; what  *)
(* reaches the terminal and what ends a task come from that task.  This    *)
(* takes "flpr", and no signal that arrives after "bye" has been sent,     *)
(* finds a request for input that the CL has not answered, or belongs to   *)
(* a task the CL has given up (main.x, onint, killtask, clerror).          *)
(***************************************************************************)
InStep ==
    (Flpr /\ struck \cap {"answered", "unread", "hung"} = {}) =>
        /\ NotBlamed
        /\ shown.run = shown.task
        /\ cl = "prompt" =>
             /\ up = <<>> /\ down = <<>>
             /\ at \in {"command", "restart", "ended"}

(***************************************************************************)
(* The CL waits for the process while the process waits for the CL.        *)
(***************************************************************************)
Standoff ==
    /\ cl \in {"read", "kill"} /\ up = <<>>
    /\ at = "command" /\ down = <<>> /\ ~sig

(***************************************************************************)
(* It does not happen, not even while killtask waits for the ERROR of the  *)
(* task it has signalled ("Not certain there isn't some case where this    *)
(* could cause deadlock", exec.c:1388), unless an interrupt comes after    *)
(* the CL has read "bye" and before the task is popped.                    *)
(***************************************************************************)
NoStandoff == "popping" \notin struck => ~Standoff

(***************************************************************************)
(* Once a task has been interrupted nothing it still had in the pipe is    *)
(* displayed (onint, XMIT in pr_psio).                                     *)
(***************************************************************************)
Quiet == ~shown.cut

(***************************************************************************)
(* An interrupt gets the user out of a task that is executing: the CL      *)
(* comes back to the prompt, or asks for the parameter the task had asked  *)
(* for, whether or not the task would ever end (onint, xstdexh, main.x).   *)
(***************************************************************************)
Returns ==
    \A t \in Task :
        (/\ cl # "prompt" /\ task = t
         /\ run = t /\ state = "EXECUTING" /\ sig)
            ~> (cl \in {"prompt", "query"} \/ task # t \/ "popping" \in struck)

=============================================================================
