------------------------------- MODULE MCFmio -------------------------------
(***************************************************************************)
(* Fmio implements LightFiles.                                             *)
(***************************************************************************)
EXTENDS Fmio


(***************************************************************************)
(* The contents of a file of size n whose pages are s.                     *)
(***************************************************************************)
Nth(s, l) == LET p == Segment(s, l, l) IN IF p = {} THEN 0 ELSE CHOOSE q \in p : TRUE

Contents(s, n) == [l \in 1 .. n |-> LET p == Nth(s, l) IN IF p = 0 THEN Hole ELSE page[p]]

(***************************************************************************)
(* The lfiles with file table ft whose pages are map.                      *)
(***************************************************************************)
Files(ft, map) ==
    [f \in Lfile |-> [data |-> Contents(map[f], ft[f].fsize), deleted |-> ft[f].deleted]]

InCore == Files(ftable, [f \in Owner |-> IF f \in active THEN pagemap[f] ELSE PagesOf(f)])

OnDisk == Files(header.ftable,
                [f \in Owner |->
                   {i \in 1 .. header.npte : (IF InTable(i) THEN Entry(header.ptindex, i)
                                                 ELSE PT_LFILE) = f}])

Now  == IF pc = "closed" THEN OnDisk ELSE InCore
Safe == IF pc = "table" THEN InCore ELSE OnDisk

Store == INSTANCE LightFiles WITH now <- Now, safe <- Safe

(***************************************************************************)
(* The transfers, syncs, closes, crashes and opens of a datafile have the  *)
(* effect README promises: an lfile changes by what is written to it, and  *)
(* a crash loses what came after the last sync, at most.                   *)
(***************************************************************************)
IsLightFiles == Store!Spec
=============================================================================
