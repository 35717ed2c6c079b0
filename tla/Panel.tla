------------------------------- MODULE Panel -------------------------------
(***************************************************************************)
(* The keys of the stopped machine, as FPGA_image/PDP8e.v wires them: the  *)
(* panel's key sequencer, its debounce timer, the major state machine, the *)
(* instruction and data field registers of the memory extension and the    *)
(* memory.  One action is one clock edge of all of them, plus what the     *)
(* operator and the disk controller do.  CONTINUE, which starts the        *)
(* machine, is not pressed here.                                           *)
(***************************************************************************)
EXTENDS Opcodes

CONSTANTS RK8E,
          Fields, Size,                 \* the memory (MemoryAddress)
          oneK_cnt, sw_dbnc, sd_delay,  \* the timers (PanelClock)
          PressedKeys,     \* the keys the operator uses
          SRs, SWs,        \* the settings of the switches
          Values,          \* the words deposited and transferred
          DmaCells,        \* the addresses the disk transfers to or from
          HoldsKeys,       \* may a key be down when its debounce time is over?
          BreaksDuringKeys \* may a data break meet the pulse of a key?

VARIABLES trig_state, switchl, triggerd, asserted, sw_active, fp_trigger, rsr, swr, dsel,
          oneK_cntr, oneKHz, fp_cntr, fp_cont, sd_cntr, sd_reset,
          state, run_ff, int_in_prog, break_in_prog,
          IF_, IB, DF,
          eaddr, pc, mdin, write_en, mdout, mem2disk, memory, mdtmp,
          key,               \* the operator's finger: {} or one key
          data_break, dma,   \* the disk controller's request, and what it is about
          elapsed            \* history: periods of 1 kHz since sw_active rose

FP == INSTANCE FrontPanel
PC == INSTANCE PanelClock
SM == INSTANCE StateMachine WITH
        EAE <- FALSE, instruction <- 0, UF <- 0, int_ena <- 0, int_inh <- 0
ME == INSTANCE MemExt WITH
        UF <- 0, UB <- 0, UI <- 0, int_ena <- 0, int_delay <- 0, int_inh <- 0,
        savereg <- Context(0, 0, 0), mskip <- 0, instruction <- 0
MA == INSTANCE MemoryAddress

ASSUME PanelAssumption == /\ RK8E \in BOOLEAN
                          /\ Fields \subseteq Field /\ Size \in Nat \ {0}
                          /\ oneK_cnt \in Nat
                          /\ sw_dbnc \in Nat \ {0} /\ sw_dbnc < 1023
                          /\ sd_delay \in Nat /\ sd_delay < 1023
                          /\ PressedKeys \subseteq FP!Keys \ {"cont"}
                          /\ SRs \subseteq Word /\ SWs \subseteq Bit
                          /\ Values \subseteq Word
                          /\ DmaCells \subseteq MA!Populated
                          /\ HoldsKeys \in BOOLEAN /\ BreaksDuringKeys \in BOOLEAN

regVars == <<SM!smVars, IF_, IB, DF>>
vars == <<FP!fpVars, PC!pcVars, regVars, MA!maVars, key, data_break, dma, elapsed>>

Dma == [cell : DmaCells, data : Values, to_disk : Bit]
NoDma == [cell |-> [f |-> 0, w |-> 0], data |-> 0, to_disk |-> 0]

TypeOK == /\ FP!FPTypeOK /\ PC!PCTypeOK /\ SM!SMTypeOK /\ MA!MATypeOK
          /\ IF_ \in Field /\ IB \in Field /\ DF \in Field
          /\ key \subseteq PressedKeys
          /\ data_break \in Bit
          /\ dma \in Dma \cup {NoDma}
          /\ elapsed \in 0..sw_dbnc

Init == /\ FP!FPInit /\ PC!PCInit /\ SM!SMInit /\ ME!MEInit /\ MA!MAInit
        /\ key = {} /\ data_break = 0 /\ dma = NoDma /\ elapsed = 0

-----------------------------------------------------------------------------
(* The panel and its timer. *)
Sequencer == \/ \E sr \in SRs, sw \in SWs : FP!AtLATCH(key, sr, sw)
             \/ FP!AtWAIT
             \/ FP!AtTRIG1
             \/ FP!AtTRIG2
             \/ FP!AtTRIG3
             \/ FP!AtDELAY(fp_cont)
             \/ FP!AtREENABLE

Timer == PC!ClockEdge

(* The processor: cleard overrides the state machine and the fields, not   *)
(* the memory address module.                                              *)
Cleared == "clear" \in asserted

contd == IF "cont" \in asserted THEN 1 ELSE 0

Obey == \/ SM!AtF0(data_break, contd, triggerd, 0) /\ ME!MEKeep
        \/ SM!AtHW /\ ME!MEKeep
        \/ SM!AtH1 /\ ME!MEKeep
        \/ SM!AtH2 /\ ME!MEAtH2(IF "extd_addr" \in asserted THEN 1 ELSE 0, rsr)
        \/ SM!AtH3 /\ ME!MEKeep
        \/ SM!AtDB0 /\ ME!MEKeep
        \/ SM!AtDB1 /\ ME!MEKeep
        \/ SM!AtDB2 /\ ME!MEKeep

Control == IF Cleared THEN SM!SMReset /\ ME!MEReset ELSE Obey

Memory == \/ state = "F0" /\ MA!MAAtF0(data_break, dma.cell, dma.data)
          \/ state = "HW" /\ MA!MAAtHW
          \/ state = "H1" /\ MA!MAAtH1(asserted, rsr, swr)
          \/ state = "H2" /\ MA!MAAtH2(asserted)
          \/ state \in {"H3", "DB0"} /\ MA!MAIdle
          \/ state = "DB1" /\ MA!MAAtDB1(dma.to_disk, dma.data)
          \/ state = "DB2" /\ MA!MAAtDB2(dma.to_disk)

-----------------------------------------------------------------------------
(* The disk controller (rk8e.sv): a request is up until DB1 and its word   *)
(* and address stay put; CLEAR resets it.  The constant BreaksDuringKeys   *)
(* keeps requests away from the clocks on which the processor might miss a *)
(* key because of them: from the one before a key is seen to TRIG1.        *)
KeyImminent == \/ trig_state' \in {"WAIT", "TRIG1"}
               \/ trig_state' = "LATCH" /\ (switchl' # {} \/ key' # {})

Raise == /\ RK8E
         /\ data_break = 0 /\ break_in_prog = 0
         /\ ~BreaksDuringKeys => ~KeyImminent
         /\ data_break' = 1
         /\ dma' \in Dma

Withdraw == state = "DB1" /\ data_break' = 0 /\ UNCHANGED dma

Quiescent == state # "DB1" /\ UNCHANGED <<data_break, dma>>

Disk == IF Cleared THEN data_break' = 0 /\ dma' = NoDma
        ELSE Raise \/ Withdraw \/ Quiescent

(* The operator: one finger, which lets go of a key before it presses the  *)
(* next; with HoldsKeys false it is off the keys while fp_cont is up.      *)
Operator == /\ \/ key' = {}
               \/ key # {} /\ key' = key
               \/ key = {} /\ \E k \in PressedKeys : key' = {k}
            /\ ~HoldsKeys /\ fp_cont' = 1 => key' = {}

History == elapsed' = IF sw_active = 0 THEN 0
                      ELSE IF oneKHz' > oneKHz /\ elapsed < sw_dbnc THEN elapsed + 1
                      ELSE elapsed

Next == Sequencer /\ Timer /\ Control /\ Memory /\ Operator /\ Disk /\ History

Spec == Init /\ [][Next]_vars
FairSpec == Spec /\ WF_vars(Next)

-----------------------------------------------------------------------------
(***************************************************************************)
(* Properties.                                                             *)
(***************************************************************************)

(* A press is obeyed on the edge that changes the address: out of H1 for   *)
(* the two loads, out of H2 for DEP and EXAM.  While a data break has the  *)
(* address register, the operator's address is the one DB2 will restore.   *)
request == IF state = "H2" /\ asserted \cap {"dep", "exam"} = {} THEN {}
           ELSE asserted \cap {"extd_addr", "addr_load", "dep", "exam"}

address == IF state \in {"DB0", "DB1", "DB2"} THEN [f |-> IF_, w |-> pc] ELSE eaddr

ST == INSTANCE Store WITH store <- memory

(* Every press of a key of the stopped machine is obeyed exactly once and  *)
(* in one piece, and transfers leave the operator's address alone: the     *)
(* four clocks of the pulse are just those from F0 to H2.  The comment in  *)
(* front_panel.v counts on the state machine for it ("every processed      *)
(* switch press is validated for the proper state elsewhere").             *)
ImplementsStore == ST!Spec

(* A word written to the disk is the word at the address of the transfer:  *)
(* the RAM's registered output is the right one by DB2 (ma.v).             *)
BreakReadsWord ==
  [][state = "DB2" /\ dma.to_disk = 1 /\ ~Cleared
     => mem2disk' = memory[dma.cell]]_vars

(* When the key sequence is over the display has the word at the address   *)
(* the key left, two clocks of RAM and F0 behind it.  Data breaks, whose   *)
(* word is on display for a clock or two, are excepted by the run.         *)
DisplayShowsWord ==
  trig_state = "REENABLE" /\ eaddr \in DOMAIN memory => mdout = memory[eaddr]

(* The panel comes back to LATCH after every key. *)
KeyCycleEnds == trig_state = "DELAY" ~> trig_state = "LATCH"

(* README: "when in halt state and a control switch is toggled the run LED *)
(* comes on for the debounce time".  sw_active, which lights it (D_mux.v), *)
(* stays up for at least sw_dbnc periods of the 1 kHz clock.               *)
LedForDebounceTime ==
  [][sw_active = 1 /\ sw_active' = 0 => elapsed >= sw_dbnc]_vars
=============================================================================
