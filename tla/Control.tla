------------------------------ MODULE Control ------------------------------
(***************************************************************************)
(* The control unit of the PDP-8/e as FPGA_image/PDP8e.v wires it: the     *)
(* major state machine, the memory extension and the instruction register, *)
(* clocked together.  An action is one clock edge: the state machine's arm *)
(* for the current major state conjoined with what the other two modules   *)
(* do in that state.  What the rest of the machine drives - the word read  *)
(* from memory, the accumulator, the keys and switches, the external       *)
(* interrupt and data break requests, the EAE - is chosen at every edge.   *)
(***************************************************************************)
EXTENDS Opcodes

CONSTANTS EAE, RK8E,      \* the build options of parameters.v
          Program,        \* the words memory may deliver to a fetch
          ACs,            \* the values the accumulator may have at an RTF
          SRs,            \* the settings of the switch register
          HaltInEntry,    \* may HALT be on at the end of an interrupt's entry?
          StepInEntry     \* may SINGLE STEP hold an interrupt's entry in E0?

ASSUME ControlAssumption == /\ EAE \in BOOLEAN /\ RK8E \in BOOLEAN
                            /\ HaltInEntry \in BOOLEAN /\ StepInEntry \in BOOLEAN
                            /\ Program \subseteq Word
                            /\ ACs \subseteq Word
                            /\ SRs \subseteq Word

VARIABLES state, run_ff, int_in_prog, break_in_prog,
          IF_, IB, DF, UF, UB, UI, int_ena, int_delay, int_inh, savereg, mskip,
          instruction

SM == INSTANCE StateMachine
ME == INSTANCE MemExt
IR == INSTANCE InstructionRegister

vars == <<state, run_ff, int_in_prog, break_in_prog,
          IF_, IB, DF, UF, UB, UI, int_ena, int_delay, int_inh, savereg, mskip,
          instruction>>

TypeOK == SM!SMTypeOK /\ ME!METypeOK /\ IR!IRTypeOK

(* The machine after the reset pulse. *)
Init == SM!SMInit /\ ME!MEInit /\ IR!IRInit

Reset == SM!SMReset /\ ME!MEReset /\ IR!IRReset

(* The CLEAR key (cleard) acts at any edge, and not on the instruction     *)
(* register.                                                               *)
Clear == SM!SMReset /\ ME!MEReset /\ IR!IRKeep

-----------------------------------------------------------------------------
(* Faulty: the trap of user mode is not among the requests. *)
IrqDevices(ext) == ext

(* assign irq = s_interrupt | UI | disk_interrupt, ext standing for the    *)
(* two devices.                                                            *)
Irq(ext) == IF UI = 1 \/ ext = 1 THEN 1 ELSE 0

Still == ME!MEKeep /\ IR!IRKeep

AtF0 == /\ \E data_break, cont, trigger, ext \in Bit :
             SM!AtF0(data_break, cont, trigger, Irq(ext))
        /\ Still
AtFW == SM!AtFW /\ ME!MEKeep /\ \E mdtmp \in Program : IR!IRAtFW(mdtmp)
AtF1 == /\ \E EAE_mode \in Bit : SM!AtF1(EAE_mode)
        /\ \E ext, gtf \in Bit : ME!MEAtF1(Irq(ext), gtf)
        /\ IR!IRKeep
AtF2 == SM!AtF2 /\ ME!MEAtF2 /\ IR!IRKeep
AtF2A == SM!AtF2A /\ Still
AtF2B == SM!AtF2B /\ Still
AtF3 == /\ \E halt \in Bit : SM!AtF3(halt)
        /\ \E ac \in ACs : ME!MEAtF3(ac)
        /\ IR!IRKeep

AtD0 == (\E single_step, cont \in Bit : SM!AtD0(single_step, cont)) /\ Still
AtDW == (\E index \in Bit : SM!AtDW(index)) /\ ME!MEAtDW /\ IR!IRKeep
AtD1 == SM!AtD1 /\ Still
AtD2 == SM!AtD2 /\ Still
AtD3 == (\E halt \in Bit : SM!AtD3(halt)) /\ Still

(* The two constants about an interrupt's entry bound the operator here. *)
AtE0 == /\ \E single_step, cont \in Bit :
             /\ int_in_prog = 1 /\ ~StepInEntry => SM!Proceeds(single_step, cont)
             /\ SM!AtE0(single_step, cont)
        /\ ME!MEAtE0
        /\ IR!IRKeep
AtEW == SM!AtEW /\ ME!MEKeep /\ IR!IRAtEW
AtE1 == SM!AtE1 /\ Still
AtE2 == SM!AtE2 /\ Still
AtE3 == /\ \E halt \in Bit : /\ int_in_prog = 1 /\ ~HaltInEntry => halt = 0
                             /\ SM!AtE3(halt)
        /\ Still
AtEAE2 == SM!AtEAE2 /\ Still
AtEAE3 == (\E EAE_loop \in Bit : SM!AtEAE3(EAE_loop)) /\ Still

AtHW == SM!AtHW /\ Still
AtH1 == SM!AtH1 /\ Still
AtH2 == /\ SM!AtH2
        /\ \E extd_addrd \in Bit, sr \in SRs : ME!MEAtH2(extd_addrd, sr)
        /\ IR!IRKeep
AtH3 == SM!AtH3 /\ Still
AtDB0 == SM!AtDB0 /\ Still
AtDB1 == SM!AtDB1 /\ Still
AtDB2 == SM!AtDB2 /\ Still

Fetch == AtF0 \/ AtFW \/ AtF1 \/ AtF2 \/ AtF2A \/ AtF2B \/ AtF3
Defer == AtD0 \/ AtDW \/ AtD1 \/ AtD2 \/ AtD3
Perform == AtE0 \/ AtEW \/ AtE1 \/ AtE2 \/ AtE3 \/ AtEAE2 \/ AtEAE3
Panel == AtHW \/ AtH1 \/ AtH2 \/ AtH3
Break == AtDB0 \/ AtDB1 \/ AtDB2

Next == Reset \/ Clear \/ Fetch \/ Defer \/ Perform \/ Panel \/ Break

Spec == Init /\ [][Next]_vars

-----------------------------------------------------------------------------
(***************************************************************************)
(* Invariants.  None of the modules states them; they hold because of what *)
(* the three do together.                                                  *)
(***************************************************************************)

(* A user program can always be interrupted: int_inh is raised together    *)
(* with changes of the buffers in executive mode only (mem_ext.v F3) and   *)
(* drops in the very step that lets UF follow UB (F2, DW, E0).  A user     *)
(* program in the inhibited window would own the machine.                  *)
UserModeInterruptible == UF = 1 => UB = 1 /\ int_inh = 0

(* A user program that executed an IOT, HLT or OSR has left a pending trap *)
(* from F2 on (mem_ext.v F2, UI <= 1), whatever path the instruction takes *)
(* back to F0, and it is still there when the next one is fetched.         *)
TrapPending ==
  UF = 1 /\ IsTrapped(instruction) => UI = 1 \/ state \in {"F1", "F2"}

(* break_in_prog, by which the disk controller knows its word was taken,   *)
(* covers the three data break states exactly (state_machine.v F0, DB2).   *)
BreakHandshake == break_in_prog = 1 <=> state \in {"DB0", "DB1", "DB2"}

EntryStates == {"E0", "EW", "E1", "E2", "E3"}

(* int_in_prog is up only during the five states of an interrupt's entry,  *)
(* and in the F0 (and the data breaks taken from it) that follows, with    *)
(* the machine running.  Fails when HALT is sampled in the entry's E3:     *)
(* then the flag survives the stop and poisons the handler's first E cycle.*)
EntryFlagLocal ==
  int_in_prog = 1 => /\ run_ff = 1
                     /\ state \in EntryStates \cup {"F0", "DB0", "DB1", "DB2"}

(* An interrupt enters only with interrupts on and not inhibited, and      *)
(* leaves in field 0, executive mode, interrupts off, having executed the  *)
(* forced JMS 0 (mem_ext.v E0, ma.v EW).                                   *)
EntryContext ==
  int_in_prog = 1 =>
    /\ state = "E0" => int_ena = 1 /\ int_inh = 0
    /\ state # "E0" => IF_ = 0 /\ DF = 0 /\ UF = 0 /\ UB = 0
                       /\ int_ena = 0 /\ int_delay = 0 /\ int_inh = 0
    /\ state \in {"E1", "E2", "E3"} => instruction = IR!InterruptJMS

(* The panel's states are entered only while the machine is stopped, and   *)
(* an instruction under way keeps it running: HALT, HLT and the keys take  *)
(* effect between instructions (state_machine.v F0, F1, F3, D3, E3).       *)
PanelStates == {"HW", "H1", "H2", "H3"}
BreakStates == {"DB0", "DB1", "DB2"}

StopsBetweenInstructions ==
  /\ state \in PanelStates => run_ff = 0
  /\ state \in SM!States \ (PanelStates \cup BreakStates \cup {"F0"}) => run_ff = 1

(***************************************************************************)
(* What the invariants and the refinement need besides: the word in F1 was *)
(* fetched, the extended operations keep to their own states, and F2 has   *)
(* done what the F3 arms of a direct JMP and of CUI would do once more.    *)
(***************************************************************************)
FetchedWord == state = "F1" => instruction \in Program

ExtendedPath ==
  state \in {"F2A", "F2B", "EAE2", "EAE3"} => IsOPR23(instruction) /\ instruction % 2 = 1

DoneInF2 ==
  state = "F3" => /\ IsJMPD(instruction) => int_inh = 0
                  /\ instruction = CUI /\ UF = 0 => UI = 0

Inv == /\ TypeOK
       /\ UserModeInterruptible
       /\ TrapPending
       /\ BreakHandshake
       /\ StopsBetweenInstructions
       /\ FetchedWord
       /\ ExtendedPath
       /\ DoneInF2

EntryInv == EntryFlagLocal /\ EntryContext

-----------------------------------------------------------------------------
(***************************************************************************)
(* Action properties.                                                      *)
(***************************************************************************)

(* While user mode lasts no instruction changes the fields, their buffers, *)
(* the saved context or the inhibition, turns interrupts off or withdraws  *)
(* a trap; and user mode ends only in an interrupt's entry, by the panel's *)
(* EXTENDED ADDRESS LOAD or in a reset or clear.                           *)
Protected == /\ UNCHANGED <<IF_, IB, DF, UB, int_inh, savereg>>
             /\ int_ena = 1 => int_ena' = 1
             /\ UI = 1 => UI' = 1

UserModeIsolation ==
  [][UF = 1 => \/ UF' = 1 /\ Protected
               \/ UF' = 0 /\ state = "E0" /\ int_in_prog = 1
               \/ UF' = 0 /\ state = "H2"
               \/ UF' = 0 /\ state' = "F0" /\ run_ff' = 0]_vars

(* With interrupts on, a pending trap of user mode is taken before the     *)
(* running machine fetches again: the one exception the code makes is the  *)
(* F0 that follows a (trapped) IOF.                                        *)
TrapBeforeFetch ==
  [][/\ state = "F0" /\ state' = "FW" /\ run_ff = 1
     /\ UF = 1 /\ UI = 1 /\ int_ena = 1
     => instruction = IOF]_vars

(* The saved context is written once per interrupt: a step through E0      *)
(* changes savereg only while interrupts are still on.  The handler's only *)
(* record of where it came from depends on it.                             *)
SavedOnce ==
  [][state = "E0" /\ state' # "F0" /\ savereg' # savereg => int_ena = 1]_vars

-----------------------------------------------------------------------------
(***************************************************************************)
(* Liveness.  The clock ticks; SINGLE STEP does not hold the machine for   *)
(* ever, the EAE loop ends, the disk (one word in some 280 clocks,         *)
(* state_machine/README) leaves F0 free again and again, and memory does   *)
(* not deliver IOF for ever.                                               *)
(***************************************************************************)
Fairness == /\ WF_vars(Next)
            /\ WF_vars(AtD0 /\ state' = "DW")
            /\ WF_vars(AtE0 /\ state' = "EW")
            /\ WF_vars(AtEAE3 /\ state' = "F3")
            /\ SF_vars(AtF0 /\ state' # "DB0")
            /\ SF_vars(AtFW /\ instruction' # IOF)

FairSpec == Spec /\ Fairness

(* A trap of a running user program is served: with interrupts on it ends  *)
(* in an interrupt's entry, unless the operator stops the machine or takes *)
(* it out of user mode.                                                    *)
TrapServed ==
  (UF = 1 /\ UI = 1 /\ int_ena = 1) ~> (int_in_prog = 1 \/ run_ff = 0 \/ UF = 0)

-----------------------------------------------------------------------------
(***************************************************************************)
(* The control unit implements ProgramInterrupt.  An instruction begins on *)
(* the edge that leaves F1 and is over on the edge that makes its effect:  *)
(* F2 for most, F3 for an executive IOT, DW for JMP I, and for JMS the     *)
(* first edge of E0 when the fields are about to change, the edge into E0  *)
(* otherwise.                                                              *)
(***************************************************************************)
InExecution ==
  \/ state \in {"F2", "F2A", "F2B"}
  \/ state = "F3" /\ \/ IsIOT(instruction) /\ instruction # CUI /\ UF = 0
                     \/ IsJMPI(instruction) \/ IsJMS(instruction)
  \/ state \in {"D0", "DW"} /\ (IsJMPI(instruction) \/ IsJMS(instruction))
  \/ state \in {"D1", "D2", "D3"} /\ IsJMS(instruction)
  \/ state = "E0" /\ int_in_prog = 0 /\ IsJMS(instruction) /\ int_inh = 1

current == IF InExecution THEN {instruction} ELSE {}

ion == IF int_ena = 1 \/ (int_delay = 1 /\ state = "F2") THEN "on"
       ELSE IF int_delay = 1 THEN "pending" ELSE "off"

PI == INSTANCE ProgramInterrupt WITH
        inhibited <- int_inh = 1, fieldI <- IF_, bufferI <- IB, fieldD <- DF,
        user <- UF, bufferU <- UB, trap <- UI, saved <- savereg

(* Interrupts, fields and user mode behave as the programmer is promised.  *)
ImplementsProgramInterrupt == PI!Spec
=============================================================================
