------------------------ MODULE InstructionRegister ------------------------
(***************************************************************************)
(* The instruction register of ma/ma.v: the part of the memory address     *)
(* module that decides the course of the major states.  Its addresses and  *)
(* data are abstracted: the word fetched is a parameter.                   *)
(***************************************************************************)
EXTENDS Opcodes

VARIABLE instruction
VARIABLE int_in_prog   \* driven by state_machine.v

IRTypeOK == instruction \in Word

NOP == \o7000
InterruptJMS == \o4000

(* Only reset reaches ma.v; clear does not. *)
IRInit == instruction = NOP
IRReset == instruction' = NOP
IRKeep == UNCHANGED instruction

IRAtFW(mdtmp) == instruction' = mdtmp

(* An interrupt is executed as JMS 0: the register is overwritten in EW. *)
IRAtEW == instruction' = IF int_in_prog = 1 THEN InterruptJMS ELSE instruction
=============================================================================
