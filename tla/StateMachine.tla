---------------------------- MODULE StateMachine ----------------------------
(***************************************************************************)
(* state_machine/state_machine.v: the major-state register of the PDP-8/e. *)
(*                                                                         *)
(* The module is one always @(posedge clk) block of nonblocking            *)
(* assignments, so a step is one clock edge: the action At<S> is the arm    *)
(* of `case (state)` for state S, its guard is state = S, and its right    *)
(* hand sides read the registers as they were before the edge.  A wire     *)
(* driven by another module of the processor is either a variable of that  *)
(* module (instruction, UF, int_ena, int_inh), bound when this module is   *)
(* instantiated, or a parameter of the action that samples it.             *)
(***************************************************************************)
EXTENDS Opcodes

CONSTANTS EAE,   \* TRUE iff the build defines EAE (parameters.v)
          RK8E   \* TRUE iff the build defines RK8E

VARIABLES state,          \* the major state
          run_ff,         \* 1 while the processor runs
          int_in_prog,    \* 1 from the acceptance of an interrupt
          break_in_prog   \* 1 while a data break is served

VARIABLES instruction, UF, int_ena, int_inh   \* driven by ma.v and mem_ext.v

smVars == <<state, run_ff, int_in_prog, break_in_prog>>

States == {"F0", "FW", "F1", "F2", "F2A", "F2B", "F3",
           "D0", "DW", "D1", "D2", "D3",
           "E0", "EW", "E1", "E2", "E3", "EAE2", "EAE3",
           "HW", "H1", "H2", "H3", "DB0", "DB1", "DB2"}

SMTypeOK == /\ state \in States
            /\ run_ff \in Bit
            /\ int_in_prog \in Bit
            /\ break_in_prog \in Bit

SMInit == state = "F0" /\ run_ff = 0 /\ int_in_prog = 0 /\ break_in_prog = 0

(* reset | clear takes precedence over every arm. *)
SMReset == /\ state' = "F0"
           /\ run_ff' = 0
           /\ int_in_prog' = 0
           /\ break_in_prog' = 0

-----------------------------------------------------------------------------
(* Moves of the major state that change no other register. *)
GoTo(s) == state' = s /\ UNCHANGED <<run_ff, int_in_prog, break_in_prog>>

(* The end of an instruction, where the HALT switch is sampled. *)
Finish(halt) == /\ state' = "F0"
                /\ run_ff' = IF halt = 1 THEN 0 ELSE run_ff
                /\ UNCHANGED <<int_in_prog, break_in_prog>>

-----------------------------------------------------------------------------
(* F0: the only state in which data breaks, the CONTINUE key, the other    *)
(* keys and interrupt requests are looked at, in that order.               *)

(* Faulty: the enable is not looked at. *)
InterruptibleAlways(int_req) == int_req = 1 /\ int_inh = 0 /\ instruction # IOF

(* Faulty: not in user mode. *)
InterruptibleExecutive(int_req) ==
  int_req = 1 /\ int_ena = 1 /\ int_inh = 0 /\ instruction # IOF /\ UF = 0

(* Faulty: every instruction 600x holds the request off, not IOF alone. *)
InterruptibleAfter600x(int_req) ==
  int_req = 1 /\ int_ena = 1 /\ int_inh = 0 /\ instruction \div 8 # IOF \div 8

(* An interrupt request the processor accepts.  IOF waiting in the         *)
(* instruction register holds it off.                                      *)
Interruptible(int_req) ==
  int_req = 1 /\ int_ena = 1 /\ int_inh = 0 /\ instruction # IOF

StartBreak == /\ state' = "DB0"
              /\ break_in_prog' = 1
              /\ UNCHANGED <<run_ff, int_in_prog>>

(* Faulty: CONTINUE does not set run_ff. *)
StoppedForGood(cont, trigger) ==
  /\ run_ff = 0
  /\ state' = IF cont = 1 THEN "FW" ELSE IF trigger = 1 THEN "HW" ELSE "F0"
  /\ UNCHANGED <<run_ff, int_in_prog, break_in_prog>>

Stopped(cont, trigger) ==
  /\ run_ff = 0
  /\ state' = IF cont = 1 THEN "FW" ELSE IF trigger = 1 THEN "HW" ELSE "F0"
  /\ run_ff' = IF cont = 1 THEN 1 ELSE run_ff
  /\ UNCHANGED <<int_in_prog, break_in_prog>>

TakeInterrupt(int_req) ==
  /\ run_ff = 1
  /\ Interruptible(int_req)
  /\ state' = "E0"
  /\ int_in_prog' = 1
  /\ UNCHANGED <<run_ff, break_in_prog>>

(* Faulty: the interrupt's flag is not reset by the next fetch. *)
FetchNextFlagged(int_req) ==
  /\ run_ff = 1
  /\ ~Interruptible(int_req)
  /\ state' = "FW"
  /\ UNCHANGED <<run_ff, int_in_prog, break_in_prog>>

FetchNext(int_req) ==
  /\ run_ff = 1
  /\ ~Interruptible(int_req)
  /\ state' = "FW"
  /\ int_in_prog' = 0
  /\ UNCHANGED <<run_ff, break_in_prog>>

AtF0(data_break, cont, trigger, int_req) ==
  /\ state = "F0"
  /\ \/ RK8E /\ data_break = 1 /\ StartBreak
     \/ /\ ~(RK8E /\ data_break = 1)
        /\ \/ Stopped(cont, trigger)
           \/ TakeInterrupt(int_req)
           \/ FetchNext(int_req)

-----------------------------------------------------------------------------
(* Fetch.  Without EAE the arms of F2A and F2B are compiled out and the    *)
(* default arm returns to F0.                                              *)
AtFW == state = "FW" /\ GoTo("F1")

AtF1(EAE_mode) ==
  /\ state = "F1"
  /\ run_ff' = 1
  /\ state' = IF ~IsExtendedEAE(instruction) THEN "F2"
              ELSE IF EAE_mode = 0 THEN "F2A" ELSE "F2B"
  /\ UNCHANGED <<int_in_prog, break_in_prog>>

AtF2 == state = "F2" /\ GoTo("F3")

AtF2A == /\ state = "F2A"
         /\ GoTo(IF ~EAE THEN "F0"
                 ELSE IF IsModeAEAE(instruction) THEN "EAE2" ELSE "F3")

AtF2B == /\ state = "F2B"
         /\ GoTo(IF ~EAE THEN "F0"
                 ELSE IF IsModeBShift(instruction) THEN "EAE2"
                 ELSE IF IsModeBMemory(instruction) THEN "D0" ELSE "F3")

Halt == /\ IsHLT(instruction)
        /\ run_ff' = IF UF = 0 THEN 0 ELSE 1
        /\ state' = "F0"
        /\ UNCHANGED <<int_in_prog, break_in_prog>>

AtF3(halt) ==
  /\ state = "F3"
  /\ \/ Halt
     \/ IsOneCycle(instruction) /\ Finish(halt)
     \/ IsDefer(instruction) /\ GoTo("D0")
     \/ /\ ~(IsHLT(instruction) \/ IsOneCycle(instruction) \/ IsDefer(instruction))
        /\ GoTo("E0")

-----------------------------------------------------------------------------
(* Defer and execute.  D0 and E0 are where SINGLE STEP stops the machine   *)
(* until CONTINUE.                                                         *)
Proceeds(single_step, cont) == single_step = 0 \/ cont = 1

AtD0(single_step, cont) ==
  /\ state = "D0"
  /\ GoTo(IF Proceeds(single_step, cont) THEN "DW" ELSE "D0")

AtDW(index) == state = "DW" /\ GoTo(IF index = 1 THEN "D1" ELSE "D3")
AtD1 == state = "D1" /\ GoTo("D2")
AtD2 == state = "D2" /\ GoTo("D3")

AtD3(halt) == /\ state = "D3"
              /\ IF IsJMPI(instruction) THEN Finish(halt) ELSE GoTo("E0")

AtE0(single_step, cont) ==
  /\ state = "E0"
  /\ GoTo(IF Proceeds(single_step, cont) THEN "EW" ELSE "E0")

AtEW == state = "EW" /\ GoTo("E1")
AtE1 == /\ state = "E1"
        /\ GoTo(IF EAE /\ IsMulDiv(instruction) THEN "EAE2" ELSE "E2")
AtE2 == state = "E2" /\ GoTo("E3")
AtE3(halt) == state = "E3" /\ Finish(halt)

AtEAE2 == state = "EAE2" /\ GoTo("EAE3")
AtEAE3(EAE_loop) ==
  state = "EAE3" /\ GoTo(IF EAE_loop = 1 THEN "EAE3" ELSE "F3")

-----------------------------------------------------------------------------
(* Front panel keys and data breaks. *)
AtHW == state = "HW" /\ GoTo("H1")
AtH1 == state = "H1" /\ GoTo("H2")
AtH2 == state = "H2" /\ GoTo("H3")
AtH3 == state = "H3" /\ GoTo("F0")

AtDB0 == state = "DB0" /\ GoTo("DB1")
AtDB1 == state = "DB1" /\ GoTo("DB2")
(* Faulty: the end of the break is not signalled. *)
AtDB2Unfinished == state = "DB2" /\ GoTo("F0")

AtDB2 == /\ state = "DB2"
         /\ state' = "F0"
         /\ break_in_prog' = 0
         /\ UNCHANGED <<run_ff, int_in_prog>>
=============================================================================
