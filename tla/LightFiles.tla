----------------------------- MODULE LightFiles -----------------------------
(***************************************************************************)
(* What FMIO promises of the lightweight files of a datafile               *)
(* (sys/fmio/README): each has contents of its own, a delete keeps them    *)
(* until the lfile is used again, and "a datafile should always be         *)
(* recoverable after a crash, with loss only of data written since the     *)
(* last sync".                                                             *)
(*                                                                         *)
(* Contents are counted in pages.  The promise excepts lfile data: what is *)
(* written over saved pages is in the datafile before the next sync.       *)
(***************************************************************************)
EXTENDS Integers, Sequences, FiniteSetsExt

CONSTANTS
    Lfile,        \* the lfiles a client can use
    Val,          \* what is written to a page
    MaxXfer,      \* pages a transfer may ask for
    Faults        \* transfers that may fail: "write"

VARIABLES
    now,          \* the lfiles as the program sees them
    safe          \* the lfiles as they are after a crash

svars == <<now, safe>>

Fresh == [data |-> <<>>, deleted |-> FALSE]

Init == now = [f \in Lfile |-> Fresh] /\ safe = now

(***************************************************************************)
(* What happens to one lfile, of which s and t are what the program sees   *)
(* and what a crash leaves, to become s1 and t1.                           *)
(*                                                                         *)
(* A write is over saved pages as well, as far as they go.  One that fails *)
(* has written its first pages, up to w, and may have made the lfile       *)
(* longer by all: what is in the pages that it did not write then is not   *)
(* said.                                                                   *)
(***************************************************************************)
Put(f, d, l, h, v, len) == [i \in 1 .. len |-> IF i \in l .. h THEN <<f, v>> ELSE d[i]]

Written(f, s, s1, t, t1) ==
    \E l \in 1 .. Len(s.data) + 1, n \in 1 .. MaxXfer, v \in Val :
        LET h == l + n - 1
        IN  /\ s1 = [s EXCEPT !.data = Put(f, @, l, h, v, Max({Len(@), h}))]
            /\ t1 = [t EXCEPT !.data = Put(f, @, l, h, v, Len(@))]

BegunIn(f, d, d1, l, w, v) ==
    \A i \in 1 .. Len(d1) : /\ i \in l .. w => d1[i] = <<f, v>>
                            /\ i \in 1 .. Len(d) \ l .. w => d1[i] = d[i]

PartlyWritten(f, s, s1, t, t1) ==
    /\ "write" \in Faults
    /\ s1.deleted = s.deleted
    /\ \E l \in 1 .. Len(s.data) + 1, n \in 1 .. MaxXfer, v \in Val :
       \E w \in l - 1 .. l + n - 2 :
          /\ Len(s1.data) \in {Len(s.data), Max({Len(s.data), l + n - 1})}
          /\ BegunIn(f, s.data, s1.data, l, w, v)
          /\ t1 = [t EXCEPT !.data = Put(f, @, l, w, v, Len(@))]

Reused(s1, t, t1) == s1 = Fresh /\ t1 = t

Marked(s, s1, t, t1) ==
    /\ \E del \in BOOLEAN : s1 = [s EXCEPT !.deleted = del]
    /\ t1 = t

Becomes(f, s, s1, t, t1) ==
    \/ Reused(s1, t, t1) \/ Marked(s, s1, t, t1)
    \/ Written(f, s, s1, t, t1) \/ PartlyWritten(f, s, s1, t, t1)

Change(f) ==
    /\ \A g \in Lfile \ {f} : now'[g] = now[g] /\ safe'[g] = safe[g]
    /\ Becomes(f, now[f], now'[f], safe[f], safe'[f])

(***************************************************************************)
(* What happens to all of them.                                            *)
(***************************************************************************)
Save == safe' = now /\ UNCHANGED now

Crash == now' = safe /\ UNCHANGED safe

Next == Save \/ Crash \/ \E f \in Lfile : Change(f)

Spec == Init /\ [][Next]_svars
=============================================================================
