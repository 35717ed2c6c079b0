--------------------------- MODULE ControlProofs ---------------------------
(***************************************************************************)
(* Proofs about the control unit, for every build option, program, switch  *)
(* setting and value of the accumulator.  Inv is inductive as it stands;   *)
(* EntryInv is inductive relative to Inv when the operator does not touch  *)
(* HALT and SINGLE STEP during an interrupt's entry.  Word is never        *)
(* expanded where its elements are many: what the proofs need of it is     *)
(* that its elements are integers.                                         *)
(***************************************************************************)
EXTENDS Control, TLAPS

(* The instances carry their own copies of the sets of Opcodes.            *)
LEMMA SameSets ==
  /\ Bit = {0, 1} /\ SM!Bit = {0, 1} /\ ME!Bit = {0, 1}
  /\ ME!Field = Field
  /\ IR!Word = Word
  /\ ME!Contexts = [UF : {0, 1}, IF_ : Field, DF : Field]
  BY DEF Bit, SM!Bit, ME!Bit, Field, ME!Field, Word, IR!Word, ME!Contexts

(* Three slices of a word that become registers.                           *)
LEMMA Slices == ASSUME NEW i \in Word
                PROVE /\ ME!Mid(i) \in Field /\ ME!Low3(i) \in Field
                      /\ (i \div 64) % 2 \in {0, 1}
  BY DEF Word, Field, ME!Mid, ME!Low3

(* The constants a reset or an interrupt puts in the registers.            *)
LEMMA FixedValues ==
  /\ 0 \in Field
  /\ IR!NOP \in Word /\ IR!InterruptJMS \in Word
  /\ ME!Cleared = [UF |-> 0, IF_ |-> 0, DF |-> 0]
  BY DEF Field, Word, IR!NOP, IR!InterruptJMS, ME!Cleared, ME!Context

(* The F3 arms of mem_ext.v keep every register within its width.          *)
LEMMA MEAtF3Typing ==
  ASSUME TypeOK, NEW ac \in Word, ME!MEAtF3(ac)
  PROVE  ME!METypeOK'
<1> USE SameSets DEF TypeOK, ME!METypeOK, IR!IRTypeOK
<1>1. CASE ME!ExecutiveAtF3(ac)
  <2>1. CASE instruction = ME!RTF /\ ME!RestoreFlags(ac)
    <3>1. ME!ContextOf(ac) \in [UF : {0, 1}, IF_ : Field, DF : Field]
      BY Slices DEF ME!ContextOf, ME!Context
    <3> QED BY <2>1, <3>1 DEF ME!MEAtF3, ME!RestoreFlags
  <2>2. CASE \E df, if \in BOOLEAN : ME!ChangeField(df, if)
    BY <2>2, Slices DEF ME!MEAtF3, ME!ChangeField
  <2>3. CASE ME!RestoreMemoryField
    BY <2>3 DEF ME!MEAtF3, ME!RestoreMemoryField
  <2>4. CASE ME!JumpAtF3
    BY <2>4 DEF ME!MEAtF3, ME!JumpAtF3, ME!LoadFields
  <2>5. CASE ME!SetUserBuffer(0) \/ ME!SetUserBuffer(1)
    BY <2>5 DEF ME!MEAtF3, ME!SetUserBuffer
  <2>6. CASE \/ ME!InterruptOff \/ ME!InterruptOn \/ ME!ClearAllFlags
             \/ ME!ClearUserInterrupt \/ ME!NoEffect
    BY <2>6 DEF ME!MEAtF3, ME!InterruptOff, ME!InterruptOn, ME!ClearAllFlags,
                ME!ClearUserInterrupt, ME!NoEffect
  <2> QED BY <1>1, <2>1, <2>2, <2>3, <2>4, <2>5, <2>6 DEF ME!ExecutiveAtF3
<1>2. CASE ME!NoEffect
  BY <1>2 DEF ME!MEAtF3, ME!NoEffect
<1> QED BY <1>1, <1>2 DEF ME!MEAtF3

(* The reset values are within the widths of the registers.                *)
LEMMA TypingInit == Init => TypeOK
  BY FixedValues, SameSets
     DEF Init, SM!SMInit, ME!MEInit, IR!IRInit, TypeOK, SM!SMTypeOK, ME!METypeOK, IR!IRTypeOK,
         SM!States

(* Every edge keeps every register within its width.                       *)
LEMMA TypingStep ==
  ASSUME TypeOK, [Next]_vars PROVE TypeOK'
<1> USE SameSets, ControlAssumption
    DEF TypeOK, SM!SMTypeOK, ME!METypeOK, IR!IRTypeOK, SM!States
<1> USE DEF Still, ME!MEKeep, ME!meVars, IR!IRKeep, SM!GoTo, SM!Finish
<1>1. CASE Reset \/ Clear
  BY <1>1, FixedValues DEF Reset, Clear, SM!SMReset, ME!MEReset, IR!IRReset
<1>2. CASE AtF0
  BY <1>2 DEF AtF0, SM!AtF0, SM!StartBreak, SM!Stopped, SM!TakeInterrupt, SM!FetchNext
<1>3. CASE AtFW
  BY <1>3 DEF AtFW, SM!AtFW, IR!IRAtFW
<1>4. CASE AtF1
  BY <1>4 DEF AtF1, SM!AtF1, ME!MEAtF1
<1>5. CASE AtF2
  BY <1>5 DEF AtF2, SM!AtF2, ME!MEAtF2, ME!ExecutiveAtF2, ME!UserAtF2,
                    ME!PromoteION, ME!LoadFields
<1>6. CASE AtF2A \/ AtF2B
  BY <1>6 DEF AtF2A, SM!AtF2A, AtF2B, SM!AtF2B
<1>7. CASE AtF3
  <2>1. ME!METypeOK'
    BY <1>7, MEAtF3Typing DEF AtF3
  <2>2. SM!SMTypeOK' /\ IR!IRTypeOK'
    BY <1>7 DEF AtF3, SM!AtF3, SM!Halt
  <2> QED BY <2>1, <2>2
<1>8. CASE AtD0 \/ AtD1 \/ AtD2 \/ AtD3
  BY <1>8 DEF AtD0, SM!AtD0, AtD1, SM!AtD1, AtD2, SM!AtD2, AtD3, SM!AtD3
<1>9. CASE AtDW
  BY <1>9 DEF AtDW, SM!AtDW, ME!MEAtDW, ME!LoadFields
<1>10. CASE AtE0
  BY <1>10, FixedValues DEF AtE0, SM!AtE0, ME!MEAtE0, ME!LoadFields, ME!SaveContext, ME!Context
<1>11. CASE AtEW
  BY <1>11, FixedValues DEF AtEW, SM!AtEW, IR!IRAtEW
<1>12. CASE AtE1 \/ AtE2 \/ AtE3 \/ AtEAE2 \/ AtEAE3
  BY <1>12 DEF AtE1, SM!AtE1, AtE2, SM!AtE2, AtE3, SM!AtE3, AtEAE2, SM!AtEAE2,
                     AtEAE3, SM!AtEAE3
<1>13. CASE AtHW \/ AtH1 \/ AtH3 \/ AtDB0 \/ AtDB1 \/ AtDB2
  BY <1>13 DEF AtHW, SM!AtHW, AtH1, SM!AtH1, AtH3, SM!AtH3,
                     AtDB0, SM!AtDB0, AtDB1, SM!AtDB1, AtDB2, SM!AtDB2
<1>14. CASE AtH2
  BY <1>14, Slices, FixedValues DEF AtH2, SM!AtH2, ME!MEAtH2
<1>15. CASE UNCHANGED vars
  BY <1>15 DEF vars
<1> QED
  BY <1>1, <1>2, <1>3, <1>4, <1>5, <1>6, <1>7, <1>8, <1>9, <1>10, <1>11, <1>12,
     <1>13, <1>14, <1>15 DEF Next, Fetch, Defer, Perform, Panel, Break

(* Type correctness: no slice, increment or transfer of the three modules  *)
(* leaves the width of its register.                                       *)
THEOREM Typing == Spec => []TypeOK
  BY TypingInit, TypingStep, PTL DEF Spec

(* The instances' copies of the instruction classes agree with Opcodes.    *)
LEMMA SamePredicates ==
  ASSUME NEW i
  PROVE  /\ ME!IsJMPD(i) <=> IsJMPD(i)
         /\ ME!IsJMPI(i) <=> Op4(i) = 11
         /\ ME!IsJMS(i) <=> Op3(i) = 4
         /\ ME!IsTrapped(i) <=> IsTrapped(i)
  BY DEF ME!IsJMPD, IsJMPD, ME!IsJMPI, ME!IsJMS, ME!IsTrapped, IsTrapped, ME!IsIOT, IsIOT,
         ME!IsOPR23, IsOPR23, ME!Op3, Op3, ME!Op4, Op4, ME!Low3, Low3

(* A jump or a subroutine call never traps in user mode.                   *)
LEMMA JumpsAreNotTrapped ==
  ASSUME NEW i \in Word, IsJMPD(i) \/ Op4(i) = 11 \/ Op3(i) = 4
  PROVE  ~IsTrapped(i)
  BY DEF IsJMPD, Op3, Op4, IsTrapped, IsIOT, IsOPR23, Word

(* The words that F1 and E1 send into the EAE states are odd operate words, *)
(* and so are neither trapped in user mode nor jumps.                      *)
LEMMA ExtendedWords ==
  ASSUME NEW i \in Word
  PROVE  /\ SM!IsExtendedEAE(i) => IsOPR23(i) /\ i % 2 = 1
         /\ SM!IsMulDiv(i) => IsOPR23(i) /\ i % 2 = 1
         /\ IsOPR23(i) /\ i % 2 = 1 => ~IsTrapped(i) /\ ~IsJMPD(i)
<1>1. i \in Int
  BY DEF Word
<1>2. (i % 16) % 2 = i % 2 /\ (i % 8) % 2 = i % 2
  BY <1>1
<1>3. SM!IsExtendedEAE(i) => IsOPR23(i) /\ i % 2 = 1
  BY <1>1, <1>2 DEF SM!IsExtendedEAE, SM!IsOPR23, SM!Op4, SM!Low4, IsOPR23, Op4
<1>4. SM!IsMulDiv(i) => IsOPR23(i) /\ i % 2 = 1
  BY <1>1, <1>2 DEF SM!IsMulDiv, SM!IsOPR23, SM!Op4, SM!Low4, IsOPR23, Op4
<1>5. IsOPR23(i) /\ i % 2 = 1 => ~IsTrapped(i) /\ ~IsJMPD(i)
  BY <1>1, <1>2 DEF IsTrapped, IsJMPD, IsIOT, IsOPR23, Op3, Op4, Low3
<1> QED BY <1>3, <1>4, <1>5

(* What reset and an interrupt put in the instruction register traps nothing. *)
LEMMA ForcedJMS ==
  ~IsTrapped(IR!InterruptJMS) /\ ~IsTrapped(IR!NOP) /\ ~IsOPR23(IR!InterruptJMS)
  BY DEF IR!InterruptJMS, IR!NOP, IsTrapped, IsIOT, IsOPR23, Op3, Op4, Low3


-----------------------------------------------------------------------------
(* Abbreviations for the groups of edges on which the memory extension and *)
(* the instruction register keep still.                                    *)
Quiet == \/ AtF0 \/ AtF2A \/ AtF2B \/ AtD0 \/ AtD1 \/ AtD2 \/ AtD3
         \/ AtE1 \/ AtE2 \/ AtE3 \/ AtEAE2 \/ AtEAE3
         \/ AtHW \/ AtH1 \/ AtH3 \/ AtDB0 \/ AtDB1 \/ AtDB2

Busy == AtFW \/ AtF1 \/ AtF2 \/ AtF3 \/ AtDW \/ AtE0 \/ AtEW \/ AtH2

(* On a quiet edge mem_ext.v and the instruction register change nothing.  *)
LEMMA QuietEdges ==
  ASSUME Quiet
  PROVE  UNCHANGED <<IF_, IB, DF, UF, UB, UI, int_ena, int_delay, int_inh, savereg, mskip,
                     instruction>>
  BY DEF Quiet, Still, ME!MEKeep, ME!meVars, IR!IRKeep, AtF0, AtF2A, AtF2B, AtD0, AtD1, AtD2,
         AtD3, AtE1, AtE2, AtE3, AtEAE2, AtEAE3, AtHW, AtH1, AtH3, AtDB0, AtDB1, AtDB2

(* Every edge is a reset, a clear, a quiet or a busy one.                  *)
LEMMA Edges == Next => Reset \/ Clear \/ Quiet \/ Busy
  BY DEF Next, Fetch, Defer, Perform, Panel, Break, Quiet, Busy

(* Every edge keeps user mode interruptible: the edges that let UF follow UB *)
(* lower the inhibition, and only executive mode raises it.                *)
LEMMA UserModeStep ==
  ASSUME Inv, [Next]_vars PROVE UserModeInterruptible'
<1> USE SameSets DEF Inv, TypeOK, ME!METypeOK, UserModeInterruptible, ME!LoadFields
<1>1. CASE Reset \/ Clear
  BY <1>1 DEF Reset, Clear, ME!MEReset
<1>2. CASE Quiet \/ UNCHANGED vars
  BY <1>2, QuietEdges DEF vars
<1>3. CASE AtFW \/ AtF1 \/ AtEW
  BY <1>3 DEF AtFW, AtF1, AtEW, ME!MEKeep, ME!meVars, ME!MEAtF1
<1>4. CASE AtF2
  BY <1>4 DEF AtF2, ME!MEAtF2, ME!ExecutiveAtF2, ME!UserAtF2
<1>5. CASE AtF3
  BY <1>5 DEF AtF3, ME!MEAtF3, ME!ExecutiveAtF3, ME!InterruptOff, ME!InterruptOn,
              ME!RestoreFlags, ME!ClearAllFlags, ME!ChangeField, ME!ClearUserInterrupt,
              ME!RestoreMemoryField, ME!SetUserBuffer, ME!JumpAtF3, ME!NoEffect
<1>6. CASE AtDW \/ AtE0
  BY <1>6 DEF AtDW, AtE0, ME!MEAtDW, ME!MEAtE0, ME!SaveContext
<1>7. CASE AtH2
  BY <1>7 DEF AtH2, ME!MEAtH2, ME!MEKeep, ME!meVars
<1> QED BY Edges, <1>1, <1>2, <1>3, <1>4, <1>5, <1>6, <1>7 DEF Busy

(* Every edge keeps the break flag equal to the break states, and the      *)
(* machine stopped in the panel's states and running inside an instruction. *)
LEMMA StateStep ==
  ASSUME Inv, [Next]_vars PROVE BreakHandshake' /\ StopsBetweenInstructions'
<1> USE SameSets DEF Inv, TypeOK, SM!SMTypeOK, SM!States, BreakHandshake, StopsBetweenInstructions,
        PanelStates, BreakStates, SM!GoTo, SM!Finish
<1>1. CASE Reset \/ Clear
  BY <1>1 DEF Reset, Clear, SM!SMReset
<1>2. CASE AtF0
  BY <1>2 DEF AtF0, SM!AtF0, SM!StartBreak, SM!Stopped, SM!TakeInterrupt, SM!FetchNext
<1>3. CASE AtFW \/ AtF1 \/ AtF2 \/ AtF2A \/ AtF2B
  BY <1>3 DEF AtFW, AtF1, AtF2, AtF2A, AtF2B, SM!AtFW, SM!AtF1, SM!AtF2, SM!AtF2A, SM!AtF2B
<1>4. CASE AtF3
  BY <1>4 DEF AtF3, SM!AtF3, SM!Halt
<1>5. CASE Defer
  BY <1>5 DEF Defer, AtD0, AtDW, AtD1, AtD2, AtD3, SM!AtD0, SM!AtDW, SM!AtD1, SM!AtD2, SM!AtD3
<1>6. CASE Perform
  BY <1>6 DEF Perform, AtE0, AtEW, AtE1, AtE2, AtE3, AtEAE2, AtEAE3, SM!AtE0, SM!AtEW,
              SM!AtE1, SM!AtE2, SM!AtE3, SM!AtEAE2, SM!AtEAE3
<1>7. CASE Panel
  BY <1>7 DEF Panel, AtHW, AtH1, AtH2, AtH3, SM!AtHW, SM!AtH1, SM!AtH2, SM!AtH3
<1>8. CASE Break
  BY <1>8 DEF Break, AtDB0, AtDB1, AtDB2, SM!AtDB0, SM!AtDB1, SM!AtDB2
<1>9. CASE UNCHANGED vars
  BY <1>9 DEF vars
<1> QED BY <1>1, <1>2, <1>3, <1>4, <1>5, <1>6, <1>7, <1>8, <1>9 DEF Next, Fetch


(* The instruction register holds an odd operate word throughout the states *)
(* of the extended operations.                                             *)
LEMMA ExtendedPathStep ==
  ASSUME Inv, [Next]_vars PROVE ExtendedPath'
<1> USE DEF Inv, ExtendedPath, SM!GoTo, SM!Finish
<1>1. CASE Reset \/ Clear
  BY <1>1 DEF Reset, Clear, SM!SMReset
<1>2. CASE AtF1
  <2>1. instruction \in Word /\ instruction' = instruction
    BY <1>2, SameSets DEF TypeOK, IR!IRTypeOK, AtF1, IR!IRKeep
  <2> QED BY <1>2, <2>1, ExtendedWords DEF AtF1, SM!AtF1
<1>3. CASE AtF2A \/ AtF2B
  BY <1>3, QuietEdges DEF AtF2A, AtF2B, SM!AtF2A, SM!AtF2B, Quiet
<1>4. CASE AtE1 \/ AtEAE2 \/ AtEAE3
  <2>1. instruction \in Word
    BY SameSets DEF TypeOK, IR!IRTypeOK
  <2> QED BY <1>4, <2>1, QuietEdges, ExtendedWords
          DEF AtE1, AtEAE2, AtEAE3, SM!AtE1, SM!AtEAE2, SM!AtEAE3, Quiet
<1>5. CASE AtF0 \/ AtFW \/ AtF2
  BY <1>5 DEF AtF0, AtFW, AtF2, SM!AtF0, SM!StartBreak, SM!Stopped, SM!TakeInterrupt,
              SM!FetchNext, SM!AtFW, SM!AtF2
<1>6. CASE AtF3
  BY <1>6 DEF AtF3, SM!AtF3, SM!Halt
<1>7. CASE Defer
  BY <1>7 DEF Defer, AtD0, AtDW, AtD1, AtD2, AtD3, SM!AtD0, SM!AtDW, SM!AtD1, SM!AtD2, SM!AtD3
<1>8. CASE AtE0 \/ AtEW \/ AtE2 \/ AtE3
  BY <1>8 DEF AtE0, AtEW, AtE2, AtE3, SM!AtE0, SM!AtEW, SM!AtE2, SM!AtE3
<1>9. CASE Panel \/ Break
  BY <1>9 DEF Panel, AtHW, AtH1, AtH2, AtH3, SM!AtHW, SM!AtH1, SM!AtH2, SM!AtH3,
              Break, AtDB0, AtDB1, AtDB2, SM!AtDB0, SM!AtDB1, SM!AtDB2
<1>10. CASE UNCHANGED vars
  BY <1>10 DEF vars
<1> QED BY <1>1, <1>2, <1>3, <1>4, <1>5, <1>6, <1>7, <1>8, <1>9, <1>10
        DEF Next, Fetch, Perform

(* The word in the instruction register during F1 is the word just fetched. *)
LEMMA FetchedWordStep ==
  ASSUME Inv, [Next]_vars PROVE FetchedWord'
<1> USE DEF Inv, FetchedWord, SM!GoTo, SM!Finish
<1>1. CASE Reset \/ Clear
  BY <1>1 DEF Reset, Clear, SM!SMReset
<1>2. CASE AtFW
  BY <1>2 DEF AtFW, IR!IRAtFW
<1>3. CASE AtF0 \/ AtF1 \/ AtF2 \/ AtF2A \/ AtF2B
  BY <1>3 DEF AtF0, AtF1, AtF2, AtF2A, AtF2B, SM!AtF0, SM!StartBreak, SM!Stopped,
              SM!TakeInterrupt, SM!FetchNext, SM!AtF1, SM!AtF2, SM!AtF2A, SM!AtF2B
<1>4. CASE AtF3
  BY <1>4 DEF AtF3, SM!AtF3, SM!Halt
<1>5. CASE Defer
  BY <1>5 DEF Defer, AtD0, AtDW, AtD1, AtD2, AtD3, SM!AtD0, SM!AtDW, SM!AtD1, SM!AtD2, SM!AtD3
<1>6. CASE Perform
  BY <1>6 DEF Perform, AtE0, AtEW, AtE1, AtE2, AtE3, AtEAE2, AtEAE3, SM!AtE0, SM!AtEW,
              SM!AtE1, SM!AtE2, SM!AtE3, SM!AtEAE2, SM!AtEAE3
<1>7. CASE Panel \/ Break
  BY <1>7 DEF Panel, AtHW, AtH1, AtH2, AtH3, SM!AtHW, SM!AtH1, SM!AtH2, SM!AtH3,
              Break, AtDB0, AtDB1, AtDB2, SM!AtDB0, SM!AtDB1, SM!AtDB2
<1>8. CASE UNCHANGED vars
  BY <1>8 DEF vars
<1> QED BY <1>1, <1>2, <1>3, <1>4, <1>5, <1>6, <1>7, <1>8 DEF Next, Fetch

(* F2 leaves nothing for the F3 arms of a direct JMP and of CUI to do.     *)
LEMMA DoneInF2Step ==
  ASSUME Inv, [Next]_vars PROVE DoneInF2'
<1> USE DEF Inv, DoneInF2, SM!GoTo, SM!Finish
<1>1. CASE Reset \/ Clear
  BY <1>1 DEF Reset, Clear, SM!SMReset
<1>2. CASE AtF2
  <2>1. ~IsJMPD(CUI) /\ CUI = ME!CUI
    BY DEF IsJMPD, Op4, CUI, ME!CUI
  <2> QED BY <1>2, <2>1, SameSets, SamePredicates
     DEF AtF2, ME!MEAtF2, ME!ExecutiveAtF2, ME!UserAtF2, ME!LoadFields, IR!IRKeep,
         UserModeInterruptible, TypeOK, ME!METypeOK
<1>3. CASE AtF2A \/ AtF2B \/ AtEAE3
  <2>1. instruction \in Word /\ instruction' = instruction
    BY <1>3, SameSets, QuietEdges DEF TypeOK, IR!IRTypeOK, Quiet
  <2>2. IsOPR23(instruction) /\ ~IsJMPD(instruction)
    BY <1>3, <2>1, ExtendedWords DEF ExtendedPath, AtF2A, AtF2B, AtEAE3, SM!AtF2A, SM!AtF2B,
                                     SM!AtEAE3
  <2>3. ~IsOPR23(CUI)
    BY DEF IsOPR23, Op4, CUI
  <2> QED BY <2>1, <2>2, <2>3
<1>4. CASE AtF0 \/ AtFW \/ AtF1
  BY <1>4 DEF AtF0, AtFW, AtF1, SM!AtF0, SM!StartBreak, SM!Stopped, SM!TakeInterrupt,
              SM!FetchNext, SM!AtFW, SM!AtF1
<1>5. CASE AtF3
  BY <1>5 DEF AtF3, SM!AtF3, SM!Halt
<1>6. CASE Defer
  BY <1>6 DEF Defer, AtD0, AtDW, AtD1, AtD2, AtD3, SM!AtD0, SM!AtDW, SM!AtD1, SM!AtD2, SM!AtD3
<1>7. CASE AtE0 \/ AtEW \/ AtE1 \/ AtE2 \/ AtE3 \/ AtEAE2
  BY <1>7 DEF AtE0, AtEW, AtE1, AtE2, AtE3, AtEAE2, SM!AtE0, SM!AtEW, SM!AtE1, SM!AtE2,
              SM!AtE3, SM!AtEAE2
<1>8. CASE Panel \/ Break
  BY <1>8 DEF Panel, AtHW, AtH1, AtH2, AtH3, SM!AtHW, SM!AtH1, SM!AtH2, SM!AtH3,
              Break, AtDB0, AtDB1, AtDB2, SM!AtDB0, SM!AtDB1, SM!AtDB2
<1>9. CASE UNCHANGED vars
  BY <1>9 DEF vars
<1> QED BY <1>1, <1>2, <1>3, <1>4, <1>5, <1>6, <1>7, <1>8, <1>9 DEF Next, Fetch, Perform

(* Every edge keeps the trap of a user program's IOT, HLT or OSR pending.  *)
LEMMA TrapPendingStep ==
  ASSUME Inv, [Next]_vars PROVE TrapPending'
<1> USE DEF Inv, TrapPending
<1>1. instruction \in Word
  BY SameSets DEF TypeOK, IR!IRTypeOK
<1>2. CASE Reset \/ Clear
  BY <1>2 DEF Reset, Clear, ME!MEReset
<1>3. CASE Quiet
  <2>1. state' \in {"F1", "F2"} \/ state \notin {"F1", "F2"}
    BY <1>3 DEF Quiet, AtF0, AtF2A, AtF2B, AtD0, AtD1, AtD2, AtD3, AtE1, AtE2, AtE3, AtEAE2,
                AtEAE3, AtHW, AtH1, AtH3, AtDB0, AtDB1, AtDB2, SM!AtF0, SM!AtF2A, SM!AtF2B,
                SM!AtD0, SM!AtD1, SM!AtD2, SM!AtD3, SM!AtE1, SM!AtE2, SM!AtE3, SM!AtEAE2,
                SM!AtEAE3, SM!AtHW, SM!AtH1, SM!AtH3, SM!AtDB0, SM!AtDB1, SM!AtDB2
  <2> QED BY <1>3, <2>1, QuietEdges
<1>4. CASE AtFW
  BY <1>4 DEF AtFW, SM!AtFW, SM!GoTo
<1>5. CASE AtF1
  <2>1. instruction' = instruction /\ state' \in {"F2", "F2A", "F2B"}
    BY <1>5 DEF AtF1, SM!AtF1, IR!IRKeep
  <2>2. state' # "F2" => ~IsTrapped(instruction)
    BY <1>1, <1>5, ExtendedWords DEF AtF1, SM!AtF1
  <2> QED BY <2>1, <2>2
<1>6. CASE AtF2
  BY <1>1, <1>6, SameSets, SamePredicates, JumpsAreNotTrapped
     DEF AtF2, ME!MEAtF2, ME!ExecutiveAtF2, ME!UserAtF2, ME!LoadFields, IR!IRKeep, TypeOK,
         ME!METypeOK
<1>7. CASE AtF3
  <2>1. instruction' = instruction
    BY <1>7 DEF AtF3, IR!IRKeep
  <2>2. PICK ac \in ACs : ME!MEAtF3(ac)
    BY <1>7 DEF AtF3
  <2>3. CASE UF = 1
    BY <2>1, <2>2, <2>3, <1>7 DEF ME!MEAtF3, ME!ExecutiveAtF3, ME!NoEffect, AtF3, SM!AtF3
  <2>4. CASE UF = 0 /\ ~ME!IsJMPD(instruction)
    <3>1. UF' = 0
      BY <2>2, <2>4, SameSets
         DEF ME!MEAtF3, ME!ExecutiveAtF3, ME!InterruptOff, ME!InterruptOn, ME!RestoreFlags,
             ME!ClearAllFlags, ME!ChangeField, ME!ClearUserInterrupt, ME!RestoreMemoryField,
             ME!SetUserBuffer, ME!NoEffect
    <3> QED BY <3>1
  <2>5. CASE ME!IsJMPD(instruction)
    BY <1>1, <2>1, <2>5, SamePredicates, JumpsAreNotTrapped
  <2> QED BY <2>3, <2>4, <2>5, SameSets DEF TypeOK, ME!METypeOK
<1>8. CASE AtDW \/ AtE0
  BY <1>1, <1>8, SameSets, SamePredicates, JumpsAreNotTrapped
     DEF AtDW, AtE0, SM!AtDW, SM!AtE0, ME!MEAtDW, ME!MEAtE0, ME!LoadFields, ME!SaveContext,
         IR!IRKeep
<1>9. CASE AtEW
  BY <1>9, ForcedJMS DEF AtEW, SM!AtEW, ME!MEKeep, ME!meVars, IR!IRAtEW
<1>10. CASE AtH2
  BY <1>10 DEF AtH2, SM!AtH2, ME!MEAtH2, ME!MEKeep, ME!meVars, IR!IRKeep
<1>11. CASE UNCHANGED vars
  BY <1>11 DEF vars
<1> QED BY Edges, <1>2, <1>3, <1>4, <1>5, <1>6, <1>7, <1>8, <1>9, <1>10, <1>11 DEF Busy


-----------------------------------------------------------------------------
(* The inductive invariant of the control unit: user mode is interruptible, *)
(* a trap stays pending, the break flag and the run flag agree with the    *)
(* major state.                                                            *)
THEOREM ControlInvariant == Spec => []Inv
<1>1. Init => Inv
  <2>1. Init => ~IsTrapped(instruction)
    BY ForcedJMS DEF Init, IR!IRInit
  <2> QED BY <2>1, TypingInit
          DEF Init, SM!SMInit, ME!MEInit, Inv, UserModeInterruptible, TrapPending,
              BreakHandshake, StopsBetweenInstructions, PanelStates, FetchedWord,
              ExtendedPath, DoneInF2
<1>2. Inv /\ [Next]_vars => Inv'
  BY TypingStep, UserModeStep, TrapPendingStep, StateStep, FetchedWordStep, ExtendedPathStep,
     DoneInF2Step DEF Inv
<1> QED BY <1>1, <1>2, PTL DEF Spec

(* A user program can always be interrupted (int_inh and UF, mem_ext.v F2, *)
(* F3, DW and E0).                                                         *)
THEOREM UserModeNeverInhibited == Spec => []UserModeInterruptible
<1>1. Inv => UserModeInterruptible
  BY DEF Inv
<1> QED BY <1>1, ControlInvariant, PTL

(* The trap of a user program is never lost on the way to the next fetch   *)
(* (mem_ext.v F2, and the paths of state_machine.v that lead back to F0).  *)
THEOREM TrapsStayPending == Spec => []TrapPending
<1>1. Inv => TrapPending
  BY DEF Inv
<1> QED BY <1>1, ControlInvariant, PTL

(* The disk sees break_in_prog exactly while its word is transferred       *)
(* (state_machine.v F0 and DB2).                                           *)
THEOREM BreaksAreSignalled == Spec => []BreakHandshake
<1>1. Inv => BreakHandshake
  BY DEF Inv
<1> QED BY <1>1, ControlInvariant, PTL

(* HALT, HLT and the keys take effect between instructions only            *)
(* (state_machine.v F0, F1, F3, D3, E3).                                   *)
THEOREM StopsAreBetweenInstructions == Spec => []StopsBetweenInstructions
<1>1. Inv => StopsBetweenInstructions
  BY DEF Inv
<1> QED BY <1>1, ControlInvariant, PTL

(* Every edge keeps an interrupt's entry what EntryInv says, as long as the *)
(* operator leaves HALT and SINGLE STEP alone during the entry.            *)
LEMMA EntryStep ==
  ASSUME ~HaltInEntry, ~StepInEntry, Inv, EntryInv, [Next]_vars
  PROVE  EntryInv'
<1> USE SameSets DEF EntryInv, EntryFlagLocal, EntryContext, EntryStates, SM!GoTo, SM!Finish,
        Inv, TypeOK, SM!SMTypeOK, ME!METypeOK
<1>1. CASE Reset \/ Clear
  BY <1>1 DEF Reset, Clear, SM!SMReset
<1>2. CASE AtF0
  BY <1>2, QuietEdges DEF Quiet, AtF0, SM!AtF0, SM!StartBreak, SM!Stopped, SM!TakeInterrupt,
              SM!Interruptible, SM!FetchNext
<1>3. CASE AtFW \/ AtF1 \/ AtF2 \/ AtF2A \/ AtF2B
  BY <1>3 DEF AtFW, AtF1, AtF2, AtF2A, AtF2B, SM!AtFW, SM!AtF1, SM!AtF2, SM!AtF2A, SM!AtF2B
<1>4. CASE AtF3
  BY <1>4 DEF AtF3, SM!AtF3, SM!Halt
<1>5. CASE Defer
  BY <1>5 DEF Defer, AtD0, AtDW, AtD1, AtD2, AtD3, SM!AtD0, SM!AtDW, SM!AtD1, SM!AtD2, SM!AtD3
<1>6. CASE AtE0
  BY <1>6 DEF AtE0, SM!AtE0, ME!MEAtE0, ME!SaveContext, StopsBetweenInstructions, PanelStates,
              BreakStates
<1>7. CASE AtEW
  BY <1>7 DEF AtEW, SM!AtEW, ME!MEKeep, ME!meVars, IR!IRAtEW
<1>8. CASE AtE1
  <2>1. int_in_prog = 1 => ~SM!IsMulDiv(instruction)
    BY <1>8, FixedValues, ForcedJMS, ExtendedWords DEF AtE1, SM!AtE1
  <2> QED BY <1>8, <2>1, QuietEdges DEF Quiet, AtE1, SM!AtE1
<1>9. CASE AtE2 \/ AtE3
  BY <1>9, QuietEdges DEF Quiet, AtE2, AtE3, SM!AtE2, SM!AtE3
<1>10. CASE AtEAE2 \/ AtEAE3
  BY <1>10 DEF AtEAE2, AtEAE3, SM!AtEAE2, SM!AtEAE3
<1>11. CASE Panel
  BY <1>11 DEF Panel, AtHW, AtH1, AtH2, AtH3, SM!AtHW, SM!AtH1, SM!AtH2, SM!AtH3
<1>12. CASE Break
  BY <1>12, QuietEdges DEF Quiet, Break, AtDB0, AtDB1, AtDB2, SM!AtDB0, SM!AtDB1, SM!AtDB2
<1>13. CASE UNCHANGED vars
  BY <1>13 DEF vars
<1> QED BY <1>1, <1>2, <1>3, <1>4, <1>5, <1>6, <1>7, <1>8, <1>9, <1>10, <1>11, <1>12, <1>13
        DEF Next, Fetch, Perform

(* If the operator leaves the entry of an interrupt alone, int_in_prog is  *)
(* local to it and the handler starts in field 0, executive mode, interrupts *)
(* off (state_machine.v F0 and E3, mem_ext.v E0, ma.v EW).                 *)
THEOREM EntryInvariant ==
  ASSUME ~HaltInEntry, ~StepInEntry PROVE Spec => []EntryInv
<1>1. Init => EntryInv
  BY DEF Init, SM!SMInit, EntryInv, EntryFlagLocal, EntryContext
<1>2. Inv /\ EntryInv /\ [Next]_vars => EntryInv'
  BY EntryStep
<1> QED BY <1>1, <1>2, ControlInvariant, PTL DEF Spec

(* Under the same assumption int_in_prog never outlives the entry: the stop *)
(* that HALT would make in E3 is the only way it could (state_machine.v    *)
(* F0, E3).                                                                *)
THEOREM EntryFlagIsLocal ==
  ASSUME ~HaltInEntry, ~StepInEntry PROVE Spec => []EntryFlagLocal
<1>1. EntryInv => EntryFlagLocal
  BY DEF EntryInv
<1> QED BY <1>1, EntryInvariant, PTL

(* Under the same assumption a handler starts with interrupts off, in      *)
(* field 0 and executive mode, by the forced JMS 0 (mem_ext.v E0, ma.v EW). *)
THEOREM EntryContextIsFresh ==
  ASSUME ~HaltInEntry, ~StepInEntry PROVE Spec => []EntryContext
<1>1. EntryInv => EntryContext
  BY DEF EntryInv
<1> QED BY <1>1, EntryInvariant, PTL

(* If the operator leaves the entry of an interrupt alone, savereg is      *)
(* written once per interrupt (mem_ext.v E0).                              *)
THEOREM ContextSavedOnce ==
  ASSUME ~HaltInEntry, ~StepInEntry PROVE Spec => SavedOnce
<1>1. ASSUME Inv, EntryInv, [Next]_vars, state = "E0", state' # "F0", savereg' # savereg
      PROVE  int_ena = 1
  <2>1. Next
    BY <1>1 DEF vars
  <2>2. AtE0
    BY <1>1, <2>1, QuietEdges, Edges
       DEF Busy, Reset, Clear, SM!SMReset, AtFW, AtF1, AtF2, AtF3, AtDW, AtEW, AtH2, SM!AtFW,
           SM!AtF1, SM!AtF2, SM!AtF3, SM!AtDW, SM!AtEW, SM!AtH2
  <2>3. int_in_prog = 1
    BY <1>1, <2>2 DEF AtE0, ME!MEAtE0
  <2> QED BY <1>1, <2>3 DEF EntryInv, EntryContext
<1>2. Inv /\ EntryInv /\ [Next]_vars
        => [state = "E0" /\ state' # "F0" /\ savereg' # savereg => int_ena = 1]_vars
  BY <1>1
<1> QED BY <1>2, ControlInvariant, EntryInvariant, PTL DEF Spec, SavedOnce

(* With interrupts on a pending trap is taken at the next F0 of the running *)
(* machine, IOF excepted (state_machine.v F0).                             *)
THEOREM TrapsBeforeFetches == Spec => TrapBeforeFetch
<1>1. ASSUME Inv, [Next]_vars, state = "F0", state' = "FW", run_ff = 1, UF = 1, UI = 1, int_ena = 1
      PROVE  instruction = IOF
  <2>1. AtF0
    BY <1>1 DEF vars, Next, Fetch, Defer, Perform, Panel, Break, Reset, Clear, SM!SMReset,
       AtFW, AtF1, AtF2, AtF2A, AtF2B, AtF3, AtD0, AtDW, AtD1, AtD2, AtD3, AtE0, AtEW, AtE1,
       AtE2, AtE3, AtEAE2, AtEAE3, AtHW, AtH1, AtH2, AtH3, AtDB0, AtDB1, AtDB2, SM!AtFW,
       SM!AtF1, SM!AtF2, SM!AtF2A, SM!AtF2B, SM!AtF3, SM!AtD0, SM!AtDW, SM!AtD1, SM!AtD2,
       SM!AtD3, SM!AtE0, SM!AtEW, SM!AtE1, SM!AtE2, SM!AtE3, SM!AtEAE2, SM!AtEAE3, SM!AtHW,
       SM!AtH1, SM!AtH2, SM!AtH3, SM!AtDB0, SM!AtDB1, SM!AtDB2
  <2>2. PICK data_break, cont, trigger, ext \in Bit :
          SM!AtF0(data_break, cont, trigger, Irq(ext))
    BY <2>1 DEF AtF0
  <2>3. Irq(ext) = 1
    BY <1>1 DEF Irq
  <2>4. ~SM!Interruptible(Irq(ext))
    BY <1>1, <2>2 DEF SM!AtF0, SM!StartBreak, SM!Stopped, SM!TakeInterrupt, SM!FetchNext
  <2> QED BY <1>1, <2>3, <2>4 DEF SM!Interruptible, Inv, UserModeInterruptible, IOF, SM!IOF
<1>2. Inv /\ [Next]_vars
        => [/\ state = "F0" /\ state' = "FW" /\ run_ff = 1
            /\ UF = 1 /\ UI = 1 /\ int_ena = 1
            => instruction = IOF]_vars
  BY <1>1
<1> QED BY <1>2, ControlInvariant, PTL DEF Spec, TrapBeforeFetch

(* Every edge out of user mode is one of those that may end it, and every  *)
(* other edge keeps the protected registers.                               *)
LEMMA IsolationStep ==
  ASSUME Inv, [Next]_vars, UF = 1
  PROVE  \/ UF' = 1 /\ Protected
         \/ UF' = 0 /\ state = "E0" /\ int_in_prog = 1
         \/ UF' = 0 /\ state = "H2"
         \/ UF' = 0 /\ state' = "F0" /\ run_ff' = 0
<1> USE SameSets DEF Inv, UserModeInterruptible, Protected, ME!LoadFields, TypeOK, ME!METypeOK
<1>1. CASE Reset \/ Clear
  BY <1>1 DEF Reset, Clear, SM!SMReset, ME!MEReset
<1>2. CASE Quiet \/ UNCHANGED vars
  BY <1>2, QuietEdges DEF vars
<1>3. CASE AtFW \/ AtF1 \/ AtEW
  BY <1>3 DEF AtFW, AtF1, AtEW, ME!MEKeep, ME!meVars, ME!MEAtF1
<1>4. CASE AtF2
  BY <1>4 DEF AtF2, ME!MEAtF2, ME!ExecutiveAtF2, ME!UserAtF2, ME!PromoteION
<1>5. CASE AtF3
  BY <1>5 DEF AtF3, ME!MEAtF3, ME!ExecutiveAtF3, ME!NoEffect
<1>6. CASE AtDW
  BY <1>6 DEF AtDW, ME!MEAtDW
<1>7. CASE AtE0
  BY <1>7 DEF AtE0, SM!AtE0, ME!MEAtE0, ME!SaveContext
<1>8. CASE AtH2
  BY <1>8 DEF AtH2, SM!AtH2, ME!MEAtH2, ME!MEKeep, ME!meVars
<1> QED BY Edges, <1>1, <1>2, <1>3, <1>4, <1>5, <1>6, <1>7, <1>8 DEF Busy

(* A user program cannot change the fields, their buffers, the saved context *)
(* or the inhibition, nor withdraw a trap, nor leave user mode by itself   *)
(* (mem_ext.v F2, F3, DW, E0).                                             *)
THEOREM UserModeIsolated == Spec => UserModeIsolation
<1>1. Inv /\ [Next]_vars
        => [UF = 1 => \/ UF' = 1 /\ Protected
                      \/ UF' = 0 /\ state = "E0" /\ int_in_prog = 1
                      \/ UF' = 0 /\ state = "H2"
                      \/ UF' = 0 /\ state' = "F0" /\ run_ff' = 0]_vars
  BY IsolationStep
<1> QED BY <1>1, ControlInvariant, PTL DEF Spec, UserModeIsolation

-----------------------------------------------------------------------------
(* The control unit implements ProgramInterrupt, one lemma per group of    *)
(* edges.  An abstract instruction spans several edges; InExecution of     *)
(* Control says where it begins and where it has had its effect.           *)

(* The three instances read an instruction word alike.                     *)
LEMMA SameWords ==
  ASSUME NEW i
  PROVE  /\ PI!Mid(i) = ME!Mid(i) /\ PI!Low3(i) = ME!Low3(i)
         /\ PI!IsCDF(i) <=> ME!IsCDF(i)
         /\ PI!IsCIF(i) <=> ME!IsCIF(i)
         /\ PI!IsCDI(i) <=> ME!IsCDI(i)
         /\ PI!IsTrapped(i) <=> IsTrapped(i)
         /\ PI!IsExtendedEAE(i) <=> SM!IsExtendedEAE(i)
         /\ PI!IsJMS(i) <=> IsJMS(i)
         /\ ME!IsJMS(i) <=> IsJMS(i)
         /\ ME!IsJMPI(i) <=> IsJMPI(i)
         /\ SM!IsJMPI(i) <=> IsJMPI(i)
  BY DEF PI!Mid, ME!Mid, PI!Low3, ME!Low3, PI!IsCDF, ME!IsCDF, PI!IsCIF, ME!IsCIF, PI!IsCDI,
         ME!IsCDI, PI!IsTrapped, IsTrapped, PI!IsIOT, IsIOT, PI!IsOPR23, IsOPR23, PI!Op3, Op3,
         PI!Op4, Op4, Low3, PI!IsExtendedEAE, SM!IsExtendedEAE, SM!IsOPR23, SM!Op4, PI!Bit6,
         SM!Bit6, PI!Low4, SM!Low4, PI!IsJMS, IsJMS, ME!IsJMS, ME!Op3, ME!IsJMPI, IsJMPI, ME!Op4,
         SM!IsJMPI

(* The three instances name the same words.                                *)
LEMMA SameCodes ==
  /\ PI!ION = ME!ION /\ PI!IOF = ME!IOF /\ PI!SKON = ME!SKON /\ PI!RTF = ME!RTF
  /\ PI!CAF = ME!CAF /\ PI!CUI = ME!CUI /\ PI!RMF = ME!RMF /\ PI!CUF = ME!CUF /\ PI!SUF = ME!SUF
  /\ CUI = ME!CUI
  BY DEF PI!ION, ME!ION, PI!IOF, ME!IOF, PI!SKON, ME!SKON, PI!RTF, ME!RTF, PI!CAF, ME!CAF,
         PI!CUI, ME!CUI, PI!RMF, ME!RMF, PI!CUF, ME!CUF, PI!SUF, ME!SUF, CUI

(* The classes of instructions that end in different states are disjoint.  *)
LEMMA Classes ==
  ASSUME NEW i \in Word
  PROVE  /\ PI!IsJMP(i) <=> IsJMPD(i) \/ IsJMPI(i)
         /\ IsJMPI(i) => /\ ~IsJMPD(i) /\ ~IsJMS(i) /\ ~IsIOT(i) /\ ~IsTrapped(i)
                         /\ SM!IsDefer(i) /\ ~SM!IsHLT(i) /\ ~SM!IsOneCycle(i)
         /\ IsJMPD(i) => ~IsJMS(i) /\ ~IsIOT(i) /\ ~IsTrapped(i)
         /\ IsJMS(i) => /\ ~IsJMPD(i) /\ ~IsIOT(i) /\ ~IsTrapped(i)
                        /\ ~SM!IsHLT(i) /\ ~SM!IsOneCycle(i)
         /\ IsIOT(i) => ~SM!IsHLT(i) /\ SM!IsOneCycle(i) /\ ~SM!IsDefer(i) /\ IsTrapped(i)
<1>1. i \in Int /\ 0 <= i
  BY DEF Word
<1>2. i \div 512 = (i \div 256) \div 2
  BY <1>1
<1> QED BY <1>1, <1>2
  DEF PI!IsJMP, PI!Op3, IsJMPD, IsJMPI, IsJMS, IsIOT, IsTrapped, IsOPR23, Op3, Op4, Low3,
      SM!IsDefer, SM!IsHLT, SM!IsOneCycle, SM!IsOPR23, SM!Op4, SM!IsJMPD, SM!IsIOT, SM!Op3

(* The instructions with an arm in F3, JMP excepted, are IOTs.             *)
LEMMA Iots ==
  /\ \A i \in Word : ME!IsCDF(i) \/ ME!IsCIF(i) \/ ME!IsCDI(i) => IsIOT(i)
  /\ \A i \in {ME!SKON, ME!ION, ME!IOF, ME!RTF, ME!CAF, ME!CUI, ME!RMF, ME!CUF, ME!SUF} : IsIOT(i)
<1>1. ASSUME NEW i \in Word, ME!IsCDF(i) \/ ME!IsCIF(i) \/ ME!IsCDI(i) PROVE IsIOT(i)
  <2>1. i \in Int /\ i \div 512 = (i \div 64) \div 8
    BY DEF Word
  <2> QED BY <1>1, <2>1 DEF ME!IsCDF, ME!IsCIF, ME!IsCDI, IsIOT, Op3
<1>2. \A i \in {ME!SKON, ME!ION, ME!IOF, ME!RTF, ME!CAF, ME!CUI, ME!RMF, ME!CUF, ME!SUF} : IsIOT(i)
  BY DEF ME!SKON, ME!ION, ME!IOF, ME!RTF, ME!CAF, ME!CUI, ME!RMF, ME!CUF, ME!SUF, IsIOT, Op3
<1> QED BY <1>1, <1>2

(* What the inductive invariant says of the registers the mapping reads.   *)
LEMMA Facts ==
  ASSUME Inv
  PROVE  /\ instruction \in Word
         /\ UF \in {0, 1} /\ int_inh \in {0, 1} /\ int_ena \in {0, 1} /\ int_delay \in {0, 1}
         /\ UF = 1 => int_inh = 0
         /\ PI!Contexts = ME!Contexts /\ PI!Field = Field
  BY SameSets DEF Inv, TypeOK, ME!METypeOK, IR!IRTypeOK, UserModeInterruptible, PI!Contexts,
                  ME!Contexts, PI!Bit, ME!Bit, PI!Field, ME!Field, Field

(* The reset state is the initial state of the abstract specification.     *)
LEMMA RefinesInit == Init => PI!Init
  BY DEF Init, SM!SMInit, ME!MEInit, ME!Cleared, ME!Context, PI!Init, PI!Context, current,
         InExecution, ion

(* Reset and the CLEAR key are the abstract Clear.                         *)
LEMMA RefinesClear ==
  ASSUME Reset \/ Clear PROVE PI!Clear
  BY DEF Reset, Clear, SM!SMReset, ME!MEReset, ME!Cleared, ME!Context, PI!Clear, PI!Context,
         current, InExecution, ion

(* Edges that the abstract specification does not see. *)
LEMMA RefinesStutter ==
  ASSUME UNCHANGED <<IF_, IB, DF, UF, UB, UI, int_ena, int_delay, int_inh, savereg>>,
         ~InExecution, ~InExecution', state # "F2", state' # "F2"
  PROVE  UNCHANGED PI!piVars
  BY DEF PI!piVars, current, ion

(* The edge out of F0 is invisible: an interrupt is accepted here, but it  *)
(* happens in E0.                                                          *)
LEMMA RefinesF0 ==
  ASSUME Inv, EntryInv, AtF0 PROVE UNCHANGED PI!piVars
<1>1. state = "F0" /\ state' \in {"F0", "FW", "HW", "DB0", "E0"}
  BY DEF AtF0, SM!AtF0, SM!StartBreak, SM!Stopped, SM!TakeInterrupt, SM!FetchNext
<1>2. state' = "E0" => int_in_prog' = 1
  BY DEF AtF0, SM!AtF0, SM!StartBreak, SM!Stopped, SM!TakeInterrupt, SM!FetchNext
<1> QED BY <1>1, <1>2, QuietEdges, RefinesStutter DEF Quiet, InExecution

(* The edge out of F1 begins an instruction, and takes ION into account.   *)
LEMMA RefinesFetch ==
  ASSUME Inv, AtFW \/ AtF1 PROVE [PI!Next]_(PI!piVars)
<1>1. CASE AtFW
  BY <1>1, RefinesStutter
     DEF AtFW, SM!AtFW, SM!GoTo, ME!MEKeep, ME!meVars, InExecution
<1>2. CASE AtF1
  <2>1. current = {} /\ current' = {instruction} /\ instruction \in Program
    BY <1>2 DEF current, InExecution, AtF1, SM!AtF1, IR!IRKeep, Inv, FetchedWord
  <2>2. ion' = IF ion = "pending" /\ ~PI!IsExtendedEAE(instruction) THEN "on" ELSE ion
    BY <1>2, SameWords DEF ion, AtF1, SM!AtF1, ME!MEAtF1
  <2>3. PI!Begin
    BY <1>2, <2>1, <2>2 DEF PI!Begin, AtF1, ME!MEAtF1
  <2> QED BY <2>3 DEF PI!Next
<1> QED BY <1>1, <1>2

(* The edge out of F2 ends every instruction but an executive IOT, JMP I   *)
(* and JMS.                                                                *)
LEMMA RefinesF2 ==
  ASSUME Inv, AtF2 PROVE [PI!Next]_(PI!piVars)
<1> DEFINE i == instruction
<1>1. /\ state = "F2" /\ state' = "F3"
      /\ current = {i} /\ instruction' = i
      /\ current' = IF \/ IsIOT(i) /\ i # CUI /\ UF' = 0
                       \/ IsJMPI(i) \/ IsJMS(i) THEN {i} ELSE {}
  BY DEF AtF2, SM!AtF2, SM!GoTo, IR!IRKeep, current, InExecution
<1>2. ion' = ion /\ UNCHANGED <<IB, DF, UB, savereg>>
  BY Facts DEF AtF2, SM!AtF2, SM!GoTo, ME!MEAtF2, ME!PromoteION, ion
<1>3. CASE UF = 1
  <2>1. /\ UI' = IF IsTrapped(i) THEN 1 ELSE UI
        /\ UNCHANGED <<IF_, UF, int_inh>>
    BY <1>3, Facts, SamePredicates DEF AtF2, ME!MEAtF2, ME!ExecutiveAtF2, ME!UserAtF2
  <2>2. CASE IsJMPI(i) \/ IsJMS(i)
    <3>1. UNCHANGED PI!piVars
      BY <1>1, <1>2, <2>1, <2>2, Facts, Classes DEF PI!piVars
    <3> QED BY <3>1
  <2>3. CASE ~(IsJMPI(i) \/ IsJMS(i))
    <3>1. current' = {}
      BY <1>1, <1>3, <2>1, <2>3
    <3>2. PI!User(i)
      BY <1>2, <2>1, SameWords DEF PI!User, PI!Trap
    <3>3. PI!Execute
      BY <1>1, <1>2, <1>3, <3>1, <3>2 DEF PI!Execute
    <3> QED BY <3>3 DEF PI!Next
  <2> QED BY <2>2, <2>3
<1>4. CASE UF = 0
  <2>1. /\ IF IsJMPD(i) THEN ME!LoadFields ELSE UNCHANGED <<IF_, UF, int_inh>>
        /\ UI' = IF i = CUI THEN 0 ELSE UI
    BY <1>4, SamePredicates, SameCodes DEF AtF2, ME!MEAtF2, ME!ExecutiveAtF2, ME!UserAtF2
  <2>2. CASE IsJMPD(i)
    <3>1. current' = {}
      BY <1>1, <2>2, Facts, Classes
    <3>2. UI' = UI
      BY <2>1, <2>2, Facts, Classes, Iots, SameCodes
    <3>3. PI!Jump
      BY <1>2, <2>1, <2>2, <3>2, Facts DEF PI!Jump, ME!LoadFields
    <3>4. PI!Executive(i)
      BY <2>2, <3>3, Facts, Classes DEF PI!Executive
    <3>5. PI!Execute
      BY <1>1, <1>2, <1>4, <3>1, <3>4 DEF PI!Execute
    <3> QED BY <3>5 DEF PI!Next
  <2>3. CASE i = CUI
    <3>1. ~IsJMPD(i) /\ ~IsJMPI(i) /\ ~IsJMS(i)
      BY <2>3, Facts, Classes, Iots, SameCodes
    <3>2. current' = {} /\ PI!Trap(0)
      BY <1>1, <1>2, <2>1, <2>3, <3>1 DEF PI!Trap
    <3>3. PI!Executive(i)
      BY <2>3, <3>2, SameCodes DEF PI!Executive
    <3>4. PI!Execute
      BY <1>1, <1>2, <1>4, <3>2, <3>3 DEF PI!Execute
    <3> QED BY <3>4 DEF PI!Next
  <2>4. CASE i # CUI /\ (IsIOT(i) \/ IsJMPI(i) \/ IsJMS(i))
    <3>1. ~IsJMPD(i)
      BY <2>4, Facts, Classes
    <3>2. UNCHANGED PI!piVars
      BY <1>1, <1>2, <1>4, <2>1, <2>4, <3>1, Facts DEF PI!piVars
    <3> QED BY <3>2
  <2>5. CASE ~(IsJMPD(i) \/ IsIOT(i) \/ IsJMPI(i) \/ IsJMS(i))
    <3>1. i # CUI
      BY <2>5, Facts, Iots, SameCodes
    <3>2. current' = {} /\ PI!Nothing
      BY <1>1, <1>2, <2>1, <2>5, <3>1 DEF PI!Nothing
    <3>3. ~(PI!ChangesFields(i) \/ PI!IsJMP(i) \/ PI!IsJMS(i)
             \/ i \in {PI!ION, PI!IOF, PI!SKON, PI!CUI, PI!CAF})
      BY <2>5, Facts, Classes, Iots, SameCodes, SameWords DEF PI!ChangesFields
    <3>4. PI!Executive(i)
      BY <3>2, <3>3 DEF PI!Executive
    <3>5. PI!Execute
      BY <1>1, <1>2, <1>4, <3>2, <3>4 DEF PI!Execute
    <3> QED BY <3>5 DEF PI!Next
  <2> QED BY <2>2, <2>3, <2>4, <2>5
<1> QED BY <1>3, <1>4, Facts

(* An extended operation ends on the edge out of F2A or F2B. *)
LEMMA RefinesExtended ==
  ASSUME Inv, AtF2A \/ AtF2B PROVE [PI!Next]_(PI!piVars)
<1> DEFINE i == instruction
<1>1. /\ state \in {"F2A", "F2B"} /\ state' \in {"F0", "F3", "EAE2", "D0"}
      /\ UNCHANGED <<IF_, IB, DF, UF, UB, UI, int_ena, int_delay, int_inh, savereg, instruction>>
  BY QuietEdges DEF Quiet, AtF2A, AtF2B, SM!AtF2A, SM!AtF2B, SM!GoTo
<1>2. IsOPR23(i) /\ i % 2 = 1 /\ ~IsTrapped(i)
  BY <1>1, Facts, ExtendedWords DEF Inv, ExtendedPath
<1>3. ~IsIOT(i) /\ ~IsJMPD(i) /\ ~IsJMPI(i) /\ ~IsJMS(i)
  <2>1. i \in Word
    BY Facts
  <2>2. i \in Int
    BY <2>1 DEF Word
  <2>3. i \div 512 = (i \div 256) \div 2
    BY <2>2
  <2> QED BY <1>2, <2>2, <2>3 DEF IsOPR23, IsIOT, IsJMPD, IsJMPI, IsJMS, Op3, Op4
<1>4. current = {i} /\ current' = {} /\ ion' = ion
  BY <1>1, <1>3 DEF current, InExecution, ion
<1>5. PI!Nothing /\ PI!Trap(UI)
  BY <1>1, <1>4 DEF PI!Nothing, PI!Trap
<1>6. ~(PI!ChangesFields(i) \/ PI!IsJMP(i) \/ PI!IsJMS(i)
         \/ i \in {PI!ION, PI!IOF, PI!SKON, PI!CUI, PI!CAF})
  BY <1>3, Facts, Classes, Iots, SameCodes, SameWords DEF PI!ChangesFields
<1>7. PI!Executive(i) /\ PI!User(i)
  BY <1>2, <1>5, <1>6, SameWords DEF PI!Executive, PI!User
<1>8. PI!Execute
  BY <1>1, <1>4, <1>7, Facts DEF PI!Execute
<1> QED BY <1>8 DEF PI!Next

(* The effect of an executive IOT is the same in both specifications. *)
LEMMA ExecutiveIOT ==
  ASSUME Inv, state = "F3", state' = "F0", UF = 0, IsIOT(instruction), instruction # CUI,
         NEW ac \in Word, ME!ExecutiveAtF3(ac), savereg' = savereg
  PROVE  PI!Executive(instruction)
<1> DEFINE i == instruction
<1> USE Facts, SameCodes, SameWords DEF PI!Executive, ion
<1>1. ~IsJMPD(i) /\ ~PI!IsJMP(i) /\ ~PI!IsJMS(i)
  BY Classes
<1>2. CASE i \in {ME!SKON, ME!IOF} /\ ME!InterruptOff
  BY <1>2 DEF ME!InterruptOff, PI!Enable
<1>3. CASE i = ME!ION /\ ME!InterruptOn
  BY <1>3 DEF ME!InterruptOn, PI!Enable
<1>4. CASE i = ME!RTF /\ ME!RestoreFlags(ac)
  <2>1. ME!ContextOf(ac) \in PI!Contexts
    BY Slices, SameSets DEF ME!ContextOf, ME!Context
  <2>2. PI!FieldEffect(i)
    BY <1>4, <2>1 DEF ME!RestoreFlags, PI!FieldEffect, PI!Buffer
  <2> QED BY <2>2
<1>5. CASE i = ME!CAF /\ ME!ClearAllFlags
  BY <1>5 DEF ME!ClearAllFlags
<1>6. CASE ME!IsCDF(i) /\ ME!ChangeField(TRUE, FALSE)
  BY <1>6 DEF ME!ChangeField, PI!FieldEffect, PI!Buffer
<1>7. CASE ME!IsCIF(i) /\ ME!ChangeField(FALSE, TRUE)
  BY <1>7 DEF ME!ChangeField, PI!FieldEffect, PI!Buffer
<1>8. CASE ME!IsCDI(i) /\ ME!ChangeField(TRUE, TRUE)
  BY <1>8 DEF ME!ChangeField, PI!FieldEffect, PI!Buffer
<1>9. CASE i = ME!RMF /\ ME!RestoreMemoryField
  BY <1>9 DEF ME!RestoreMemoryField, PI!FieldEffect, PI!Buffer
<1>10. CASE i = ME!CUF /\ ME!SetUserBuffer(0)
  BY <1>10 DEF ME!SetUserBuffer, PI!FieldEffect, PI!Buffer
<1>11. CASE i = ME!SUF /\ ME!SetUserBuffer(1)
  BY <1>11 DEF ME!SetUserBuffer, PI!FieldEffect, PI!Buffer
<1>12. CASE ~ME!HasF3Effect(i) /\ ME!NoEffect
  <2>1. ~(PI!ChangesFields(i) \/ PI!IsJMP(i) \/ PI!IsJMS(i)
           \/ i \in {PI!ION, PI!IOF, PI!SKON, PI!CUI, PI!CAF})
    BY <1>1, <1>12 DEF ME!HasF3Effect, PI!ChangesFields
  <2>2. PI!Nothing
    BY <1>12 DEF ME!NoEffect, PI!Nothing
  <2> QED BY <2>1, <2>2
<1>13. ~ME!IsJMPD(i) /\ i # ME!CUI
  BY <1>1, SamePredicates
<1> QED BY <1>2, <1>3, <1>4, <1>5, <1>6, <1>7, <1>8, <1>9, <1>10, <1>11, <1>12, <1>13
        DEF ME!ExecutiveAtF3

(* A jump that finds the inhibition down changes nothing, in either mode.  *)
LEMMA IdleJump ==
  ASSUME Inv, IsJMPI(instruction) \/ IsJMS(instruction), int_inh = 0,
         UNCHANGED <<IF_, IB, DF, UF, UB, UI, int_inh, ion, savereg>>,
         current = {instruction}, current' = {}
  PROVE  PI!Next
<1> DEFINE i == instruction
<1>1. UF = 0 => PI!Executive(i)
  BY SameWords, Classes, Facts DEF PI!Executive, PI!Jump
<1>2. UF = 1 => PI!User(i)
  BY SameWords, Classes, Facts DEF PI!User, PI!Trap
<1>3. PI!Execute
  BY <1>1, <1>2, Facts DEF PI!Execute
<1> QED BY <1>3 DEF PI!Next

(* The edge out of F3 ends the executive IOTs, and a direct JMS that finds *)
(* the inhibition down.                                                    *)
LEMMA RefinesF3 ==
  ASSUME Inv, EntryInv, AtF3 PROVE [PI!Next]_(PI!piVars)
<1> DEFINE i == instruction
<1>1. PICK ac \in ACs : ME!MEAtF3(ac)
  BY DEF AtF3
<1>2. /\ state = "F3" /\ instruction' = i /\ savereg' = savereg
      /\ int_in_prog' = int_in_prog /\ ac \in Word
  BY <1>1, ControlAssumption
     DEF AtF3, SM!AtF3, SM!Halt, SM!Finish, SM!GoTo, IR!IRKeep, ME!MEAtF3
<1>3. /\ IsIOT(i) => state' = "F0"
      /\ IsJMPI(i) => state' = "D0"
      /\ IsJMS(i) => state' = IF SM!IsDefer(i) THEN "D0" ELSE "E0"
      /\ state' \in {"F0", "D0", "E0"}
      /\ state' = "D0" => SM!IsDefer(i)
  BY Facts, Classes DEF AtF3, SM!AtF3, SM!Halt, SM!Finish, SM!GoTo
<1>4. CASE IsIOT(i) /\ i # CUI /\ UF = 0
  <2>1. ME!ExecutiveAtF3(ac)
    BY <1>1, <1>4 DEF ME!MEAtF3
  <2>2. PI!Executive(i)
    BY <1>2, <1>3, <1>4, <2>1, ExecutiveIOT
  <2>3. current = {i} /\ current' = {}
    BY <1>2, <1>3, <1>4 DEF current, InExecution
  <2>4. PI!Execute
    BY <1>2, <1>4, <2>2, <2>3 DEF PI!Execute
  <2> QED BY <2>4 DEF PI!Next
<1>5. CASE ~(IsIOT(i) /\ i # CUI /\ UF = 0)
  <2>1. UNCHANGED <<IF_, IB, DF, UF, UB, UI, int_ena, int_delay, int_inh>>
    <3>1. CASE UF = 1
      BY <1>1, <3>1 DEF ME!MEAtF3, ME!ExecutiveAtF3, ME!NoEffect
    <3>2. CASE UF = 0 /\ i = CUI
      <4>1. ~IsJMPD(i)
        BY <3>2, Facts, Classes, Iots, SameCodes
      <4>2. UI = 0
        BY <1>2, <3>2 DEF Inv, DoneInF2
      <4>3. ME!ClearUserInterrupt \/ ME!NoEffect
        BY <1>1, <3>2, <4>1, SamePredicates, SameCodes
           DEF ME!MEAtF3, ME!ExecutiveAtF3, ME!SKON, ME!IOF, ME!ION, ME!RTF, ME!CAF, ME!CUI,
               ME!RMF, ME!CUF, ME!SUF, ME!IsCDF, ME!IsCIF, ME!IsCDI, ME!Low3
      <4> QED BY <4>2, <4>3 DEF ME!ClearUserInterrupt, ME!NoEffect
    <3>3. CASE UF = 0 /\ ~IsIOT(i)
      <4>1. (ME!JumpAtF3 /\ IsJMPD(i)) \/ ME!NoEffect
        BY <1>1, <3>3, Facts, Iots, SamePredicates DEF ME!MEAtF3, ME!ExecutiveAtF3
      <4> QED BY <1>2, <4>1 DEF ME!JumpAtF3, ME!LoadFields, ME!NoEffect, Inv, DoneInF2
    <3> QED BY <1>5, <3>1, <3>2, <3>3, Facts
  <2>2. ion' = ion
    BY <1>2, <1>3, <2>1 DEF ion
  <2>3. current = IF IsJMPI(i) \/ IsJMS(i) THEN {i} ELSE {}
    BY <1>2, <1>5 DEF current, InExecution
  <2>4. current' = IF \/ state' = "D0" /\ (IsJMPI(i) \/ IsJMS(i))
                      \/ state' = "E0" /\ int_in_prog = 0 /\ IsJMS(i) /\ int_inh = 1
                   THEN {i} ELSE {}
    BY <1>2, <1>3, <2>1 DEF current, InExecution
  <2>5. CASE current' = current
    <3>1. UNCHANGED PI!piVars
      BY <1>2, <2>1, <2>2, <2>5 DEF PI!piVars
    <3> QED BY <3>1
  <2>6. CASE current' # current
    <3>1. IsJMS(i) /\ state' = "E0" /\ current = {i} /\ current' = {}
      BY <1>3, <2>3, <2>4, <2>6
    <3>2. int_in_prog = 0
      BY <1>2, SameSets
         DEF EntryInv, EntryFlagLocal, EntryStates, Inv, TypeOK, SM!SMTypeOK
    <3>3. int_inh = 0
      BY <2>4, <3>1, <3>2, Facts
    <3> QED BY <1>2, <2>1, <2>2, <3>1, <3>3, IdleJump
  <2> QED BY <2>5, <2>6
<1> QED BY <1>4, <1>5

(* Quiet edges between states of which neither can hold an instruction in *)
(* the abstract sense.                                                     *)
LEMMA RefinesQuiet ==
  ASSUME Quiet, ~InExecution, ~InExecution', state # "F2", state' # "F2"
  PROVE  UNCHANGED PI!piVars
  BY QuietEdges, RefinesStutter

(* JMP I is over on the edge out of DW, JMS I on the edge out of D3 when it *)
(* finds the inhibition down.                                              *)
LEMMA RefinesDefer ==
  ASSUME Inv, EntryInv, Defer PROVE [PI!Next]_(PI!piVars)
<1> DEFINE i == instruction
<1>1. int_in_prog = 0 /\ int_in_prog' = 0 /\ instruction' = i
  <2>1. state \in {"D0", "DW", "D1", "D2", "D3"}
    BY DEF Defer, AtD0, AtDW, AtD1, AtD2, AtD3, SM!AtD0, SM!AtDW, SM!AtD1, SM!AtD2, SM!AtD3
  <2>2. int_in_prog = 0
    BY <2>1, SameSets
       DEF EntryInv, EntryFlagLocal, EntryStates, Inv, TypeOK, SM!SMTypeOK
  <2> QED BY <2>2, QuietEdges
       DEF Quiet, Defer, AtD0, AtDW, AtD1, AtD2, AtD3, SM!AtD0, SM!AtDW, SM!AtD1, SM!AtD2,
           SM!AtD3, SM!GoTo, SM!Finish, IR!IRKeep
<1>2. CASE AtD0
  <2>1. state = "D0" /\ state' \in {"D0", "DW"}
    BY <1>2 DEF AtD0, SM!AtD0, SM!GoTo
  <2>2. UNCHANGED PI!piVars
    BY <1>1, <1>2, <2>1, QuietEdges DEF Quiet, PI!piVars, current, InExecution, ion
  <2> QED BY <2>2
<1>3. CASE AtDW
  <2>1. /\ state = "DW" /\ state' \in {"D1", "D3"}
        /\ UNCHANGED <<IB, DF, UB, UI, int_ena, int_delay, savereg>>
        /\ IF IsJMPI(i) THEN ME!LoadFields ELSE UNCHANGED <<IF_, UF, int_inh>>
    BY <1>3, SameWords DEF AtDW, SM!AtDW, SM!GoTo, ME!MEAtDW
  <2>2. ion' = ion
    BY <2>1 DEF ion
  <2>3. CASE IsJMPI(i)
    <3>1. current = {i} /\ current' = {} /\ ~IsJMS(i)
      BY <1>1, <2>1, <2>3, Facts, Classes DEF current, InExecution
    <3>2. CASE int_inh = 0
      <4>1. UNCHANGED <<IF_, UF, int_inh>>
        BY <2>1, <2>3, <3>2 DEF ME!LoadFields
      <4> QED BY <2>1, <2>2, <2>3, <3>1, <3>2, <4>1, IdleJump
    <3>3. CASE int_inh = 1
      <4>1. UF = 0
        BY <3>3, Facts
      <4>2. PI!Jump
        BY <2>1, <2>2, <2>3, <3>3 DEF PI!Jump, ME!LoadFields
      <4>3. PI!Execute
        BY <2>1, <2>3, <3>1, <4>1, <4>2, Facts, Classes DEF PI!Execute, PI!Executive
      <4> QED BY <4>3 DEF PI!Next
    <3> QED BY <3>2, <3>3, Facts
  <2>4. CASE ~IsJMPI(i)
    <3>1. UNCHANGED PI!piVars
      BY <1>1, <2>1, <2>2, <2>4 DEF PI!piVars, current, InExecution
    <3> QED BY <3>1
  <2> QED BY <2>3, <2>4
<1>4. CASE AtD1 \/ AtD2
  <2>1. state \in {"D1", "D2"} /\ state' \in {"D2", "D3"}
    BY <1>4 DEF AtD1, AtD2, SM!AtD1, SM!AtD2, SM!GoTo
  <2>2. UNCHANGED PI!piVars
    BY <1>1, <1>4, <2>1, QuietEdges DEF Quiet, PI!piVars, current, InExecution, ion
  <2> QED BY <2>2
<1>5. CASE AtD3
  <2>1. state = "D3" /\ state' = IF IsJMPI(i) THEN "F0" ELSE "E0"
    BY <1>5, SameWords DEF AtD3, SM!AtD3, SM!GoTo, SM!Finish
  <2>2. UNCHANGED <<IF_, IB, DF, UF, UB, UI, int_ena, int_delay, int_inh, savereg>> /\ ion' = ion
    BY <1>5, <2>1, QuietEdges DEF Quiet, ion
  <2>3. CASE IsJMS(i) /\ int_inh = 0
    <3>1. current = {i} /\ current' = {}
      BY <1>1, <2>1, <2>2, <2>3, Facts, Classes DEF current, InExecution
    <3> QED BY <2>2, <2>3, <3>1, IdleJump
  <2>4. CASE ~(IsJMS(i) /\ int_inh = 0)
    <3>1. UNCHANGED PI!piVars
      BY <1>1, <2>1, <2>2, <2>4, Facts, Classes DEF PI!piVars, current, InExecution
    <3> QED BY <3>1
  <2> QED BY <2>3, <2>4
<1> QED BY <1>2, <1>3, <1>4, <1>5 DEF Defer

(* The first edge of E0 is the interrupt, or the effect of a JMS that was  *)
(* waiting for the fields.                                                 *)
LEMMA RefinesE0 ==
  ASSUME ~StepInEntry, Inv, EntryInv, AtE0 PROVE [PI!Next]_(PI!piVars)
<1> DEFINE i == instruction
<1>1. /\ state = "E0" /\ state' \in {"E0", "EW"} /\ instruction' = i
      /\ int_in_prog' = int_in_prog
      /\ int_in_prog = 1 => state' = "EW"
      /\ int_in_prog \in {0, 1}
  BY SameSets DEF AtE0, SM!AtE0, SM!GoTo, IR!IRKeep, Inv, TypeOK, SM!SMTypeOK
<1>2. CASE int_in_prog = 1
  <2>1. ME!SaveContext /\ int_ena = 1 /\ int_inh = 0
    BY <1>1, <1>2 DEF AtE0, ME!MEAtE0, EntryInv, EntryContext
  <2>2. current = {} /\ current' = {} /\ ion = "on" /\ ion' = "off"
    BY <1>1, <1>2, <2>1 DEF current, InExecution, ion, ME!SaveContext
  <2>3. PI!Interrupt
    BY <2>1, <2>2 DEF PI!Interrupt, ME!SaveContext, PI!Context, ME!Context
  <2> QED BY <2>3 DEF PI!Next
<1>3. CASE int_in_prog = 0
  <2>1. /\ UNCHANGED <<IB, DF, UB, UI, int_ena, int_delay, savereg>>
        /\ IF IsJMS(i) THEN ME!LoadFields ELSE UNCHANGED <<IF_, UF, int_inh>>
    BY <1>3, SameWords DEF AtE0, ME!MEAtE0
  <2>2. ion' = ion
    BY <1>1, <2>1 DEF ion
  <2>3. CASE IsJMS(i) /\ int_inh = 1
    <3>1. current = {i} /\ current' = {} /\ UF = 0
      BY <1>1, <1>3, <2>1, <2>3, Facts DEF current, InExecution, ME!LoadFields
    <3>2. PI!Jump
      BY <2>1, <2>2, <2>3 DEF PI!Jump, ME!LoadFields
    <3>3. PI!Execute
      BY <2>1, <2>3, <3>1, <3>2, SameWords DEF PI!Execute, PI!Executive
    <3> QED BY <3>3 DEF PI!Next
  <2>4. CASE ~(IsJMS(i) /\ int_inh = 1)
    <3>1. UNCHANGED <<IF_, UF, int_inh>>
      BY <2>1, <2>4, Facts DEF ME!LoadFields
    <3>2. UNCHANGED PI!piVars
      BY <1>1, <2>1, <2>2, <2>4, <3>1 DEF PI!piVars, current, InExecution
    <3> QED BY <3>2
  <2> QED BY <2>3, <2>4
<1> QED BY <1>1, <1>2, <1>3

(* The execute states after E0 are invisible.                              *)
LEMMA RefinesPerform ==
  ASSUME AtEW \/ AtE1 \/ AtE2 \/ AtE3 \/ AtEAE2 \/ AtEAE3, Inv
  PROVE  [PI!Next]_(PI!piVars)
<1>1. CASE AtEW
  BY <1>1, RefinesStutter DEF AtEW, SM!AtEW, SM!GoTo, ME!MEKeep, ME!meVars, InExecution
<1>2. CASE AtE1 \/ AtE2 \/ AtE3 \/ AtEAE2
  BY <1>2, RefinesQuiet
     DEF Quiet, AtE1, AtE2, AtE3, AtEAE2, SM!AtE1, SM!AtE2, SM!AtE3, SM!AtEAE2, SM!GoTo,
         SM!Finish, InExecution
<1>3. CASE AtEAE3
  <2>1. state = "EAE3" /\ state' \in {"EAE3", "F3"} /\ instruction' = instruction
    BY <1>3, QuietEdges DEF Quiet, AtEAE3, SM!AtEAE3, SM!GoTo
  <2>2. IsOPR23(instruction) /\ instruction \in Word
    BY <2>1, Facts DEF Inv, ExtendedPath
  <2>3. ~IsIOT(instruction) /\ ~IsJMPI(instruction) /\ ~IsJMS(instruction)
    <3>1. instruction \in Int
      BY <2>2 DEF Word
    <3>2. instruction \div 512 = (instruction \div 256) \div 2
      BY <3>1
    <3> QED BY <2>2, <3>1, <3>2 DEF IsOPR23, IsIOT, IsJMPI, IsJMS, Op3, Op4
  <2> QED BY <1>3, <2>1, <2>3, RefinesQuiet DEF Quiet, InExecution
<1> QED BY <1>1, <1>2, <1>3

(* The EXTENDED ADDRESS LOAD key is the panel's only visible edge.         *)
LEMMA RefinesPanel ==
  ASSUME Panel \/ Break PROVE [PI!Next]_(PI!piVars)
<1>1. CASE AtHW \/ AtH1 \/ AtH3 \/ Break
  BY <1>1, RefinesQuiet
     DEF Quiet, AtHW, AtH1, AtH3, Break, AtDB0, AtDB1, AtDB2, SM!AtHW, SM!AtH1, SM!AtH3,
         SM!AtDB0, SM!AtDB1, SM!AtDB2, SM!GoTo, InExecution
<1>2. CASE AtH2
  <2>1. PICK extd_addrd \in Bit, sr \in SRs : ME!MEAtH2(extd_addrd, sr)
    BY <1>2 DEF AtH2
  <2>2. sr \in Word
    BY ControlAssumption
  <2>3. ~InExecution /\ ~InExecution' /\ state = "H2" /\ state' = "H3"
    BY <1>2 DEF AtH2, SM!AtH2, SM!GoTo, InExecution
  <2>4. CASE extd_addrd = 1
    <3>1. current = {} /\ current' = {} /\ ion' = ion
      BY <2>1, <2>3, <2>4 DEF current, ion, ME!MEAtH2
    <3>2. ME!Mid(sr) \in PI!Field /\ ME!Low3(sr) \in PI!Field
      BY <2>2, Slices DEF PI!Field, Field
    <3>3. PI!LoadExtended
      BY <2>1, <2>4, <3>1, <3>2 DEF PI!LoadExtended, ME!MEAtH2
    <3> QED BY <3>3 DEF PI!Next
  <2>5. CASE extd_addrd # 1
    BY <2>1, <2>3, <2>5, RefinesStutter DEF ME!MEAtH2, ME!MEKeep, ME!meVars
  <2> QED BY <2>4, <2>5
<1> QED BY <1>1, <1>2 DEF Panel

(* The control unit implements the interrupt system of the programmer's    *)
(* manual, provided the operator leaves an interrupt's entry alone         *)
(* (state_machine.v, mem_ext.v and the instruction register of ma.v).      *)
THEOREM ControlImplementsProgramInterrupt ==
  ASSUME ~HaltInEntry, ~StepInEntry PROVE Spec => ImplementsProgramInterrupt
<1>1. Inv /\ EntryInv /\ [Next]_vars => [PI!Next]_(PI!piVars)
  <2> SUFFICES ASSUME Inv, EntryInv, [Next]_vars PROVE [PI!Next]_(PI!piVars)
    OBVIOUS
  <2>1. CASE UNCHANGED vars
    BY <2>1 DEF vars, PI!piVars, current, InExecution, ion
  <2>2. CASE Reset \/ Clear
    BY <2>2, RefinesClear DEF PI!Next
  <2>3. CASE Fetch
    BY <2>3, RefinesF0, RefinesFetch, RefinesF2, RefinesExtended, RefinesF3 DEF Fetch
  <2>4. CASE Defer
    BY <2>4, RefinesDefer
  <2>5. CASE Perform
    BY <2>5, RefinesE0, RefinesPerform DEF Perform
  <2>6. CASE Panel \/ Break
    BY <2>6, RefinesPanel
  <2> QED BY <2>1, <2>2, <2>3, <2>4, <2>5, <2>6 DEF Next
<1> QED BY <1>1, RefinesInit, ControlInvariant, EntryInvariant, PTL
        DEF Spec, ImplementsProgramInterrupt, PI!Spec

-----------------------------------------------------------------------------
(* How far an instruction, an interrupt's entry, a key or a data break is  *)
(* from its end, in states of the longest way there.  An extended          *)
(* operation that has come to F3 is over on the next edge.                 *)
Extended == IsOPR23(instruction) /\ instruction % 2 = 1

Ahead ==
  CASE state = "F0" -> 0
    [] state = "FW" -> 20
    [] state = "F1" -> 19
    [] state \in {"F2", "F2A", "F2B"} -> 18
    [] state = "F3" -> IF Extended THEN 1 ELSE 17
    [] state = "D0" -> 16
    [] state = "DW" -> 15
    [] state = "D1" -> 14
    [] state = "D2" -> 13
    [] state = "D3" -> 12
    [] state = "E0" -> 11
    [] state = "EW" -> 10
    [] state = "E1" -> 9
    [] state = "E2" -> 8
    [] state = "E3" -> 7
    [] state = "EAE2" -> 6
    [] state = "EAE3" -> 5
    [] state = "HW" -> 4
    [] state \in {"H1", "DB0"} -> 3
    [] state \in {"H2", "DB1"} -> 2
    [] state \in {"H3", "DB2"} -> 1

(* The three states that can hold the machine: SINGLE STEP and the loop of *)
(* a shift, a multiplication or a division.                                *)
Held == state \in {"D0", "E0", "EAE3"} /\ UNCHANGED state

EveryEdgeAdvances == [][state # "F0" => Held \/ Ahead' < Ahead]_vars

(* The step of the theorem below, one group of edges at a time.            *)
LEMMA AdvanceStep ==
  ASSUME Inv, Next, state # "F0", ~Held
  PROVE  Ahead \in 1..20 /\ Ahead' < Ahead
<1> USE DEF Ahead, SM!GoTo, SM!Finish
<1>1. Ahead \in 1..20
  BY DEF Inv, TypeOK, SM!SMTypeOK, SM!States
<1>2. CASE Reset \/ Clear
  <2>1. Ahead' = 0
    BY <1>2 DEF Reset, Clear, SM!SMReset
  <2> HIDE DEF Ahead
  <2> QED BY <1>1, <2>1
<1>3. CASE AtFW \/ AtF1 \/ AtF2
  BY <1>3 DEF AtFW, AtF1, AtF2, SM!AtFW, SM!AtF1, SM!AtF2
<1>4. CASE AtF2A \/ AtF2B
  <2>1. Extended /\ instruction' = instruction
    BY <1>4, QuietEdges DEF Inv, ExtendedPath, Extended, AtF2A, AtF2B, SM!AtF2A, SM!AtF2B, Quiet
  <2>2. Extended'
    BY <2>1 DEF Extended
  <2> QED BY <1>4, <2>2 DEF AtF2A, AtF2B, SM!AtF2A, SM!AtF2B
<1>5. CASE AtF3
  <2>1. CASE Extended
    <3>1. SM!IsOneCycle(instruction) \/ SM!IsHLT(instruction)
      BY <2>1 DEF Extended, IsOPR23, Op4, SM!IsOneCycle, SM!IsHLT, SM!IsOPR23, SM!Op4
    <3>2. ~SM!IsDefer(instruction)
      BY <2>1 DEF Extended, IsOPR23, Op4, SM!IsDefer, SM!Op4
    <3> QED BY <1>5, <2>1, <3>1, <3>2 DEF AtF3, SM!AtF3, SM!Halt
  <2>2. CASE ~Extended
    BY <1>5, <2>2 DEF AtF3, SM!AtF3, SM!Halt
  <2> QED BY <2>1, <2>2
<1>6. CASE Defer
  BY <1>6 DEF Held, Defer, AtD0, AtDW, AtD1, AtD2, AtD3, SM!AtD0, SM!AtDW, SM!AtD1, SM!AtD2,
              SM!AtD3
<1>7. CASE AtE0 \/ AtEW \/ AtE1 \/ AtE2 \/ AtE3 \/ AtEAE2
  BY <1>7 DEF Held, AtE0, AtEW, AtE1, AtE2, AtE3, AtEAE2, SM!AtE0, SM!AtEW, SM!AtE1, SM!AtE2,
              SM!AtE3, SM!AtEAE2
<1>8. CASE AtEAE3
  <2>1. Extended /\ instruction' = instruction
    BY <1>8, QuietEdges DEF Inv, ExtendedPath, Extended, AtEAE3, SM!AtEAE3, Quiet
  <2>2. Extended'
    BY <2>1 DEF Extended
  <2> QED BY <1>8, <2>2 DEF Held, AtEAE3, SM!AtEAE3
<1>9. CASE Panel \/ Break
  BY <1>9 DEF Panel, AtHW, AtH1, AtH2, AtH3, SM!AtHW, SM!AtH1, SM!AtH2, SM!AtH3,
              Break, AtDB0, AtDB1, AtDB2, SM!AtDB0, SM!AtDB1, SM!AtDB2
<1>10. ~AtF0
  BY DEF AtF0, SM!AtF0
<1> QED BY <1>1, <1>2, <1>3, <1>4, <1>5, <1>6, <1>7, <1>8, <1>9, <1>10 DEF Next, Fetch, Perform

(* Every edge outside F0 that SINGLE STEP or the EAE's loop does not spend *)
(* in place brings the state machine nearer to F0, whatever the build: no  *)
(* instruction, key, entry or data break goes round in a circle, a         *)
(* multiplication that leaves E1 for the EAE states included, and within   *)
(* twenty such edges F0 looks at interrupts, keys and breaks again.  The   *)
(* argument that TrapServed, a liveness property, rests on.                *)
THEOREM InstructionsEnd == Spec => EveryEdgeAdvances
<1>1. Inv /\ [Next]_vars => [state # "F0" => Held \/ Ahead' < Ahead]_vars
  BY AdvanceStep
<1> QED BY <1>1, ControlInvariant, PTL DEF Spec, EveryEdgeAdvances
====
