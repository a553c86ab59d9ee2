--------------------------- MODULE MCFioPushback ---------------------------
(***************************************************************************)
(* Pushback as a program sees it, and the mapping under which FioPushback  *)
(* implements PushbackFile.                                                *)
(***************************************************************************)
EXTENDS FioPushback, SequencesExt

View == [i \in 1 .. Len(disk) |->
            IF hasbuf /\ i - boffset \in 0 .. itop - 1 THEN mem[i - boffset] ELSE disk[i]]

Block(b) == [i \in 1 .. b.itop - b.iop |-> pbmem[b.iop + i - 1]]
Pending == FlattenSeq([d \in 1 .. Depth |-> Block(stack[Depth + 1 - d])])

Stream == INSTANCE PushbackFile WITH content <- View, pos <- LNote, pending <- Pending

(***************************************************************************)
(* What is pushed back is read first, last in first out, and input resumes *)
(* where it was interrupted: no character of the file is lost, repeated or *)
(* made up, as long as no i/o error has been reported (UNGETC, UNGETLINE,  *)
(* UNREAD, FILBUF, FCANPB).                                                *)
(***************************************************************************)
IsPushbackFile == Stream!PSpec
=============================================================================
