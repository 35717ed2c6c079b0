------------------------------ MODULE Opcodes ------------------------------
(***************************************************************************)
(* The words of the PDP-8/e and the instruction classes its Verilog modules *)
(* tell apart.  A register of the source is a natural number of its width; *)
(* a casez pattern over instruction[0:11] (bit 0 is the most significant)  *)
(* is a predicate on the word.  A "don't care" bit of a pattern is a bit   *)
(* the predicate does not look at.                                         *)
(***************************************************************************)
EXTENDS Integers

Bit == {0, 1}
Field == 0..7
Word == 0..(2 * 2048 - 1)

(* Slices of a word i: instruction[0:2], [0:3], [6:8], [6], [8:11], ... *)
Op3(i) == i \div 512
Op4(i) == i \div 256
Mid(i) == (i \div 8) % 8
Bit6(i) == (i \div 32) % 2
Low2(i) == i % 4
Low3(i) == i % 8
Low4(i) == i % 16

(* ac[5:11], the seven bits RTF loads: the user bit, the instruction field *)
(* and the data field.                                                     *)
Context(u, i, d) == [UF |-> u, IF_ |-> i, DF |-> d]
(* Faulty: the slice starts one bit too far left and is one bit too wide.  *)
ContextOfWide(w) == Context((w \div 32) % 4, Mid(w), Low3(w))

ContextOf(w) == Context((w \div 64) % 2, Mid(w), Low3(w))
Contexts == [UF : Bit, IF_ : Field, DF : Field]

(***************************************************************************)
(* Major opcodes (parameters.v).                                           *)
(***************************************************************************)
IsJMS(i) == Op3(i) = 4
IsJMP(i) == Op3(i) = 5
IsIOT(i) == Op3(i) = 6
IsOPR(i) == Op3(i) = 7
IsJMPD(i) == Op4(i) = 10
IsJMPI(i) == Op4(i) = 11

(* Operate group 2 and 3: 1111 in the four high bits. *)
IsOPR23(i) == Op4(i) = 15

(***************************************************************************)
(* What the state machine tells apart in F1, F3 and E1.                    *)
(***************************************************************************)

(* Faulty: bit 11 of the patterns is left out.                             *)
IsExtendedEAELoose(i) ==
  IsOPR23(i) /\ Low4(i) \in {2, 3, 4, 5, 6, 7, 10, 11, 12, 13, 14, 15}

(* The extended EAE operations: F1 sends them to F2A or F2B. *)
IsExtendedEAE(i) ==
  \/ i = \o7411
  \/ /\ IsOPR23(i)
     /\ \/ Bit6(i) = 0 /\ Low4(i) \in {3, 5, 7, 11, 13, 15}
        \/ Bit6(i) = 1 /\ Low4(i) \in {1, 3, 5, 9, 11, 13, 15}

(* 1111??????10: the HLT arm of F3. *)
IsHLT(i) == IsOPR23(i) /\ Low2(i) = 2

(* The other single-cycle arm of F3: OPR, IOT and direct JMP. *)
IsOneCycle(i) ==
  \/ IsOPR23(i) /\ Low2(i) # 2
  \/ Op4(i) = 14
  \/ IsJMPD(i)
  \/ IsIOT(i)

(* The indirect memory-reference instructions: F3 sends them to D0. *)
IsDefer(i) == Op4(i) \in {1, 3, 5, 7, 9, 11}

(* Mode A extended operations that F2A sends to EAE2 (EAE builds). *)
IsModeAEAE(i) ==
  \/ i = \o7411
  \/ /\ IsOPR23(i)
     /\ \/ Bit6(i) = 0 /\ Low4(i) \in {3, 5, 7, 11, 13, 15}
        \/ Bit6(i) = 1 /\ Low4(i) \in {1, 3, 5, 7, 9, 15}
        \/ (i \div 16) % 8 = 7 /\ Low4(i) \in {11, 13}

(* Mode B: the operations F2B sends to EAE2, and those with a memory       *)
(* operand, which it sends to D0.                                          *)
IsModeBShift(i) ==
  i = \o7411 \/ (IsOPR23(i) /\ Bit6(i) = 0 /\ Low4(i) \in {3, 11, 13, 15})
IsModeBMemory(i) ==
  /\ IsOPR23(i)
  /\ \/ Bit6(i) = 0 /\ Low4(i) \in {5, 7}
     \/ Bit6(i) = 1 /\ Low4(i) \in {3, 5}

(* (instruction & 7455) == 7405: multiply and divide leave E1 for EAE2. *)
IsMulDiv(i) == IsOPR23(i) /\ Bit6(i) = 0 /\ Low4(i) \in {5, 7}

(***************************************************************************)
(* What the memory extension tells apart.                                  *)
(***************************************************************************)

(* 62N1, 62N2, 62N3: change data field, instruction field, both. *)
IsCDF(i) == i \div 64 = \o62 /\ Low3(i) = 1
IsCIF(i) == i \div 64 = \o62 /\ Low3(i) = 2
IsCDI(i) == i \div 64 = \o62 /\ Low3(i) = 3

SKON == \o6000
ION  == \o6001
IOF  == \o6002
SRQ  == \o6003
RTF  == \o6005
SGT  == \o6006
CAF  == \o6007
CUI  == \o6204
RMF  == \o6244
SINT == \o6254
CUF  == \o6264
SUF  == \o6274

(* The instructions a user program may not execute: IOTs and the operate   *)
(* group 2 words with HLT or OSR and bit 11 clear.                         *)
IsTrapped(i) == IsIOT(i) \/ (IsOPR23(i) /\ Low3(i) \in {2, 4, 6})
=============================================================================
