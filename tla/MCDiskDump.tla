----------------------------- MODULE MCDiskDump -----------------------------
(***************************************************************************)
(* A small disk: three sectors of eight words, EXBIT after two of them.     *)
(***************************************************************************)
EXTENDS DiskDump

(* Sixteen bits a word, of which the upper four must be dropped; the       *)
(* blocks lie at EXBIT * 4096 + TRACK.                                     *)
SmallImage == [a \in 0..32767 |->
                 [i \in 1..Words |-> (40000 + a * 977 + i * 12345) % 65536]]

(* Write a block and half a block, read half a block, go beyond the last   *)
(* cylinder.                                                               *)
SmallJobs == {[curent |-> Buffer, command |-> 2048, track |-> 1],
              [curent |-> Buffer, command |-> 2048 + 64, track |-> 1],
              [curent |-> Buffer, command |-> 64, track |-> 1],
              [curent |-> Buffer, command |-> 1, track |-> 4000]}

-----------------------------------------------------------------------------
(* A program comes to an end: a dump at FINISH with the copy done, or at   *)
(* BADSTA, although a failed read leaves the interface reading for ever    *)
(* (sd.sv:810).                                                            *)
Ends == \/ prog.pc = "FINISH" /\ rx.ended = "Done"
        \/ prog.pc \in {"BADSTA", "W-finished", "W-error"}
DumpEnds == <>[]Ends

(* A block is written whole: "interactions between the controller and the  *)
(* SD disk are always 256 words (512 bytes)" (sd.sv:37-38).                *)
WholeBlockSent == sd.state = "WRITE10" => Len(card.got) = 2 * Words
=============================================================================
