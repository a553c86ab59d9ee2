---------------------------- MODULE PushbackFile ----------------------------
(***************************************************************************)
(* What FIO promises of a file with pushback: "Pushback is last in first   *)
(* out, i.e., the pushed back data will be read before input resumes at    *)
(* the point at which it was interrupted" (sys/fio/unread.x).  A flat file *)
(* and the characters that are read before those at its position.          *)
(***************************************************************************)
EXTENDS FlatFile

VARIABLE pending        \* what is pushed back, the next character first

pvars == <<content, pos, result, failed, pending>>

PInit == Init /\ pending = <<>>

(***************************************************************************)
(* A transfer takes what is pushed back before it touches the file.        *)
(***************************************************************************)
DeliverPending(k) ==
    /\ k \in 1 .. Len(pending)
    /\ result' = Outcome("ok", SubSeq(pending, 1, k))
    /\ pending' = SubSeq(pending, k + 1, Len(pending))
    /\ UNCHANGED <<content, pos, failed>>

Resumed ==
    /\ pending = <<>> /\ pending' = <<>>
    /\ \/ \E k \in 1 .. MaxXfer : Deliver(k)
       \/ AtEOF
       \/ \E ch \in Char, k \in 1 .. MaxXfer : Store(ch, k)

Push ==
    /\ \E s \in UNION {[1 .. k -> Char] : k \in 1 .. MaxXfer} : pending' = s \o pending
    /\ result' = Outcome("ok", <<>>)
    /\ UNCHANGED <<content, pos, failed>>

(***************************************************************************)
(* Seek, flush, open and close cancel it; the steps within a transfer and  *)
(* a call that is refused leave it alone.                                  *)
(***************************************************************************)
Cancelled == Move /\ pending' = <<>>

Quiet == /\ result' = Outcome("ok", <<>>)
         /\ UNCHANGED <<content, pos, failed, pending>>

PNext == \/ \E k \in 1 .. MaxXfer : DeliverPending(k)
         \/ Resumed \/ Push \/ Cancelled \/ Quiet
         \/ Refuse /\ UNCHANGED pending
         \/ Fail

PSpec == PInit /\ [][PNext]_pvars
=============================================================================
