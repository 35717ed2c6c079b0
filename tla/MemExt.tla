------------------------------- MODULE MemExt -------------------------------
(***************************************************************************)
(* mem_ext/mem_ext.v: extended memory control, time-share option (user     *)
(* mode) and the interrupt enable.  One action per state of the major      *)
(* state machine in which the block changes a register; in every other     *)
(* state it leaves all of them alone (MEKeep).  me_bus, a data path that   *)
(* ac.v reads in F3, carries no control and is left out.                   *)
(***************************************************************************)
EXTENDS Opcodes

VARIABLES IF_, IB,   \* instruction field and its buffer (IF is a TLA+ word)
          DF,        \* data field
          UF, UB,    \* user flag and its buffer
          UI,        \* user interrupt: a trap is pending
          int_ena,   \* interrupts are on
          int_delay, \* ION was executed: on after the next instruction
          int_inh,   \* interrupts inhibited from CIF to the next JMP or JMS
          savereg,   \* UF, IF and DF of the interrupted program
          mskip      \* the current IOT skips

VARIABLES instruction, int_in_prog   \* driven by ma.v and state_machine.v

meVars == <<IF_, IB, DF, UF, UB, UI, int_ena, int_delay, int_inh, savereg, mskip>>

METypeOK == /\ IF_ \in Field /\ IB \in Field /\ DF \in Field
            /\ UF \in Bit /\ UB \in Bit /\ UI \in Bit
            /\ int_ena \in Bit /\ int_delay \in Bit /\ int_inh \in Bit
            /\ savereg \in Contexts
            /\ mskip \in Bit

Cleared == Context(0, 0, 0)

(* Neither reset nor clear touches mskip. *)
MEInit == /\ IF_ = 0 /\ IB = 0 /\ DF = 0
          /\ UF = 0 /\ UB = 0 /\ UI = 0
          /\ int_ena = 0 /\ int_delay = 0 /\ int_inh = 0
          /\ savereg = Cleared
          /\ mskip \in Bit

MEReset == /\ IF_' = 0 /\ IB' = 0 /\ DF' = 0
           /\ UF' = 0 /\ UB' = 0 /\ UI' = 0
           /\ int_ena' = 0 /\ int_delay' = 0 /\ int_inh' = 0
           /\ savereg' = Cleared
           /\ UNCHANGED mskip

MEKeep == UNCHANGED meVars

-----------------------------------------------------------------------------
(* F1: the skip IOTs of this module.  SGT is not limited to executive mode. *)
Skips(irq, gtf) ==
  \/ instruction = SRQ /\ UF = 0 /\ irq = 1
  \/ instruction = SGT /\ gtf = 1
  \/ instruction = SKON /\ UF = 0 /\ int_ena = 1
  \/ instruction = SINT /\ UF = 0 /\ UI = 1

MEAtF1(irq, gtf) ==
  /\ mskip' = IF Skips(irq, gtf) THEN 1 ELSE mskip
  /\ UNCHANGED <<IF_, IB, DF, UF, UB, UI, int_ena, int_delay, int_inh, savereg>>

-----------------------------------------------------------------------------
(* Faulty: the inhibition is not lifted. *)
LoadFieldsInhibited == /\ IF int_inh = 1
                          THEN IF_' = IB /\ UF' = UB
                          ELSE UNCHANGED <<IF_, UF>>
                       /\ UNCHANGED int_inh

(* The buffered fields take effect: at a JMP or JMS while interrupts are   *)
(* inhibited.                                                              *)
LoadFields == IF int_inh = 1
              THEN IF_' = IB /\ UF' = UB /\ int_inh' = 0
              ELSE UNCHANGED <<IF_, UF, int_inh>>

(* F2: direct JMP and CUI, or the trap of user mode; and ION takes effect. *)
PromoteION == /\ int_ena' = IF int_delay = 1 THEN 1 ELSE int_ena
              /\ int_delay' = 0

ExecutiveAtF2 ==
  /\ UF = 0
  /\ IF IsJMPD(instruction) THEN LoadFields ELSE UNCHANGED <<IF_, UF, int_inh>>
  /\ UI' = IF instruction = CUI THEN 0 ELSE UI

(* Faulty: HLT and OSR do not trap. *)
UserAtF2Lenient ==
  /\ UF = 1
  /\ UI' = IF IsIOT(instruction) THEN 1 ELSE UI
  /\ UNCHANGED <<IF_, UF, int_inh>>

(* Faulty: the trap follows the current instruction instead of waiting. *)
UserAtF2Fleeting ==
  /\ UF = 1
  /\ UI' = IF IsTrapped(instruction) THEN 1 ELSE 0
  /\ UNCHANGED <<IF_, UF, int_inh>>

UserAtF2 ==
  /\ UF = 1
  /\ UI' = IF IsTrapped(instruction) THEN 1 ELSE UI
  /\ UNCHANGED <<IF_, UF, int_inh>>

MEAtF2 == /\ ExecutiveAtF2 \/ UserAtF2
          /\ PromoteION
          /\ UNCHANGED <<IB, DF, UB, savereg, mskip>>

-----------------------------------------------------------------------------
(* F3: the IOTs of executive mode. *)
InterruptOff == /\ int_ena' = 0
                /\ int_delay' = 0
                /\ UNCHANGED <<IF_, IB, DF, UF, UB, UI, int_inh>>

(* Faulty: ION does not wait for the next instruction. *)
InterruptOnAtOnce == /\ int_ena' = 1
                     /\ UNCHANGED <<IF_, IB, DF, UF, UB, UI, int_delay, int_inh>>

InterruptOn == /\ int_delay' = 1
               /\ UNCHANGED <<IF_, IB, DF, UF, UB, UI, int_ena, int_inh>>

RestoreFlags(ac) == LET c == ContextOf(ac) IN
  /\ UB' = c.UF /\ IB' = c.IF_ /\ DF' = c.DF
  /\ int_delay' = 1
  /\ int_inh' = 1
  /\ UNCHANGED <<IF_, UF, UI, int_ena>>

ClearAllFlags == /\ int_ena' = 0 /\ int_delay' = 0 /\ UF' = 0 /\ UI' = 0
                 /\ UNCHANGED <<IF_, IB, DF, UB, int_inh>>

ChangeField(df, if) ==
  /\ DF' = IF df THEN Mid(instruction) ELSE DF
  /\ IB' = IF if THEN Mid(instruction) ELSE IB
  /\ int_inh' = IF if THEN 1 ELSE int_inh
  /\ UNCHANGED <<IF_, UF, UB, UI, int_ena, int_delay>>

RestoreMemoryField ==
  /\ UB' = savereg.UF /\ IB' = savereg.IF_ /\ DF' = savereg.DF
  /\ int_inh' = 1
  /\ UNCHANGED <<IF_, UF, UI, int_ena, int_delay>>

SetUserBuffer(u) ==
  /\ UB' = u
  /\ int_inh' = IF u = 1 THEN 1 ELSE int_inh
  /\ UNCHANGED <<IF_, IB, DF, UF, UI, int_ena, int_delay>>

ClearUserInterrupt ==
  UI' = 0 /\ UNCHANGED <<IF_, IB, DF, UF, UB, int_ena, int_delay, int_inh>>

JumpAtF3 == LoadFields /\ UNCHANGED <<IB, DF, UB, UI, int_ena, int_delay>>

NoEffect == UNCHANGED <<IF_, IB, DF, UF, UB, UI, int_ena, int_delay, int_inh>>

(* The instructions with an arm in F3. *)
HasF3Effect(i) ==
  \/ i \in {SKON, ION, IOF, RTF, CAF, CUI, RMF, CUF, SUF}
  \/ IsCDF(i) \/ IsCIF(i) \/ IsCDI(i) \/ IsJMPD(i)

(* Faulty: RTF, RMF and the changes of field ignore the mode. *)
ExecutiveAtF3AnyMode(ac) ==
  \/ instruction = RTF /\ RestoreFlags(ac)
  \/ instruction = RMF /\ RestoreMemoryField
  \/ IsCDF(instruction) /\ ChangeField(TRUE, FALSE)
  \/ IsCIF(instruction) /\ ChangeField(FALSE, TRUE)
  \/ UF = 0 /\ IsJMPD(instruction) /\ JumpAtF3
  \/ UF = 0 /\ instruction = ION /\ InterruptOn
  \/ UF = 0 /\ instruction = SUF /\ SetUserBuffer(1)
  \/ UF = 0 /\ ~HasF3Effect(instruction) /\ NoEffect

ExecutiveAtF3(ac) ==
  /\ UF = 0
  /\ \/ instruction \in {SKON, IOF} /\ InterruptOff
     \/ instruction = ION /\ InterruptOn
     \/ instruction = RTF /\ RestoreFlags(ac)
     \/ instruction = CAF /\ ClearAllFlags
     \/ IsCDF(instruction) /\ ChangeField(TRUE, FALSE)
     \/ IsCIF(instruction) /\ ChangeField(FALSE, TRUE)
     \/ IsCDI(instruction) /\ ChangeField(TRUE, TRUE)
     \/ instruction = CUI /\ ClearUserInterrupt
     \/ instruction = RMF /\ RestoreMemoryField
     \/ instruction = CUF /\ SetUserBuffer(0)
     \/ instruction = SUF /\ SetUserBuffer(1)
     \/ IsJMPD(instruction) /\ JumpAtF3
     \/ ~HasF3Effect(instruction) /\ NoEffect

MEAtF3(ac) == /\ \/ ExecutiveAtF3(ac)
                 \/ UF = 1 /\ NoEffect
              /\ mskip' = 0
              /\ UNCHANGED savereg

-----------------------------------------------------------------------------
(* DW: indirect JMP.  E0: the interrupt's change of context, or a JMS.     *)
(* The block runs on every clock the machine spends in E0.                 *)
MEAtDW == /\ IF IsJMPI(instruction) THEN LoadFields ELSE UNCHANGED <<IF_, UF, int_inh>>
          /\ UNCHANGED <<IB, DF, UB, UI, int_ena, int_delay, savereg, mskip>>

(* Faulty: the data field of the interrupted program stays. *)
SaveContextKeepingDF ==
  /\ savereg' = Context(UF, IF_, DF)
  /\ IF_' = 0 /\ UF' = 0 /\ UB' = 0
  /\ int_ena' = 0 /\ int_delay' = 0
  /\ UNCHANGED <<IB, DF, UI, int_inh, mskip>>

SaveContext == /\ savereg' = Context(UF, IF_, DF)
               /\ IF_' = 0 /\ DF' = 0 /\ UF' = 0 /\ UB' = 0
               /\ int_ena' = 0 /\ int_delay' = 0
               /\ UNCHANGED <<IB, UI, int_inh, mskip>>

MEAtE0 ==
  \/ int_in_prog = 1 /\ SaveContext
  \/ /\ int_in_prog = 0
     /\ IF IsJMS(instruction) THEN LoadFields ELSE UNCHANGED <<IF_, UF, int_inh>>
     /\ UNCHANGED <<IB, DF, UB, UI, int_ena, int_delay, savereg, mskip>>

(* H2: the EXTENDED ADDRESS LOAD key takes both fields from the switches.  *)
(* The arm's test of clear never holds: clear was tested first.            *)
MEAtH2(extd_addrd, sr) ==
  IF extd_addrd = 1
  THEN /\ IF_' = Mid(sr) /\ IB' = Mid(sr) /\ DF' = Low3(sr)
       /\ UF' = 0 /\ UB' = 0
       /\ UNCHANGED <<UI, int_ena, int_delay, int_inh, savereg, mskip>>
  ELSE MEKeep
=============================================================================
