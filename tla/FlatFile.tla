------------------------------ MODULE FlatFile ------------------------------
(***************************************************************************)
(* What FIO promises of a random access binary file: "FFAULT makes a       *)
(* binary file appear to be a contiguous array (stream) of characters"     *)
(* (sys/fio/doc/fio.hlp).  The file is its contents and a position; a      *)
(* transfer reads or overwrites the characters at the position and moves   *)
(* past them.  There are no buffers and no device here.                    *)
(*                                                                         *)
(* Once an i/o error has been reported to the program nothing more is      *)
(* promised about the contents, and failed stays set.                      *)
(***************************************************************************)
EXTENDS Integers, Sequences

CONSTANTS
    Char,       \* the values a program stores in a file
    MaxXfer     \* the most characters one transfer moves

VARIABLES
    content,    \* the characters of the file
    pos,        \* 1-indexed offset of the next transfer
    result,     \* outcome of the latest step: [st, data]
    failed      \* an i/o error has been reported

vars == <<content, pos, result, failed>>

Outcome(st, data) == [st |-> st, data |-> data]

Init == /\ content \in Seq(Char)
        /\ pos \in 1 .. Len(content) + 1
        /\ result = Outcome("ok", <<>>)
        /\ failed = FALSE

(***************************************************************************)
(* A read delivers the k characters at the position.                       *)
(***************************************************************************)
Deliver(k) ==
    /\ k \in 1 .. Len(content) - pos + 1
    /\ result' = Outcome("ok", SubSeq(content, pos, pos + k - 1))
    /\ pos' = pos + k
    /\ UNCHANGED <<content, failed>>

(***************************************************************************)
(* End of file is reported only when there is nothing left to read.        *)
(***************************************************************************)
AtEOF ==
    /\ pos > Len(content)
    /\ result' = Outcome("EOF", <<>>)
    /\ UNCHANGED <<content, pos, failed>>

(***************************************************************************)
(* A write of k copies of ch, overwriting or extending the contents.       *)
(***************************************************************************)
Store(ch, k) ==
    /\ k > 0
    /\ pos <= Len(content) + 1
    /\ LET end == pos + k - 1
           len == IF end > Len(content) THEN end ELSE Len(content)
       IN  content' = [i \in 1 .. len |->
                          IF i \in pos .. end THEN ch ELSE content[i]]
    /\ pos' = pos + k
    /\ result' = Outcome("ok", <<>>)
    /\ UNCHANGED failed

(***************************************************************************)
(* Seek, open and close choose a position; flush and the internal steps    *)
(* of a transfer change nothing a program can see.                         *)
(***************************************************************************)
Move ==
    /\ pos' \in 1 .. Len(content) + 1
    /\ result' = Outcome("ok", <<>>)
    /\ UNCHANGED <<content, failed>>

(***************************************************************************)
(* A call that lacks the permission is refused and changes nothing.        *)
(***************************************************************************)
Refuse ==
    /\ result' = Outcome("ERR", <<>>)
    /\ UNCHANGED <<content, pos, failed>>

(***************************************************************************)
(* An i/o error is reported; from then on anything goes.                   *)
(***************************************************************************)
Fail == failed' = TRUE

Next ==
    \/ \E k \in 1 .. MaxXfer : Deliver(k)
    \/ AtEOF
    \/ \E ch \in Char, k \in 1 .. MaxXfer : Store(ch, k)
    \/ Move
    \/ Refuse
    \/ Fail

Spec == Init /\ [][Next]_vars
=============================================================================
