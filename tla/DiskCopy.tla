------------------------------ MODULE DiskCopy ------------------------------
(***************************************************************************)
(* What a dump is for: the copy grows by the disk's words in order, and is *)
(* called done only when it holds all of them.  The dump may fail.         *)
(***************************************************************************)
EXTENDS Integers, Sequences

CONSTANT Disk        \* all words of the disk, in order

VARIABLES copy, outcome

Init == copy = <<>> /\ outcome = "copying"

Copy == /\ outcome = "copying" /\ Len(copy) < Len(Disk)
        /\ copy' = Append(copy, Disk[Len(copy) + 1])
        /\ UNCHANGED outcome

Complete == /\ outcome = "copying" /\ copy = Disk
            /\ outcome' = "done" /\ UNCHANGED copy

Fail == /\ outcome = "copying"
        /\ outcome' = "failed" /\ UNCHANGED copy

Next == Copy \/ Complete \/ Fail

Spec == Init /\ [][Next]_<<copy, outcome>>
=============================================================================
