---------------------------- MODULE MCFioBuffer ----------------------------
(***************************************************************************)
(* The properties of one FIO descriptor that TLC checks, and the mapping   *)
(* under which it implements FlatFile.                                     *)
(***************************************************************************)
EXTENDS FioBuffer

(***************************************************************************)
(* The file as the program sees it: the device's contents with the valid   *)
(* part of the buffer laid over them.                                      *)
(***************************************************************************)
ViewLen == IF Modified THEN Max2(Len(disk), boffset - 1 + UItop)
           ELSE Len(disk)

View == [i \in 1 .. ViewLen |->
            IF hasbuf /\ i - boffset \in 0 .. UItop - 1 THEN mem[i - boffset]
            ELSE IF i <= Len(disk) THEN disk[i] ELSE Zero]

Flat == INSTANCE FlatFile WITH content <- View, pos <- LNote

(***************************************************************************)
(* The buffered file behaves as a flat file: every character read is the   *)
(* one last written at that offset, end of file is reported only at the    *)
(* end, and seeks, flushes and closes lose nothing, as long as no i/o      *)
(* error has been reported (FFAULT, FILBUF, FLSBUF, SEEK, FLUSH, CLOSE).   *)
(***************************************************************************)
IsFlatFile == Flat!Spec

(***************************************************************************)
(* READ returns fewer characters than asked for only at the end of file.   *)
(***************************************************************************)
ShortReadMeansEOF ==
    [][ (call.op = "read" /\ call' = NoCall /\ result'.st = "ok"
           /\ call.n + Len(result'.data) < call.max)
          => LNote' > ViewLen' ]_vars

=============================================================================
