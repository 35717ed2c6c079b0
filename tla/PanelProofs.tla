---------------------------- MODULE PanelProofs ----------------------------
(***************************************************************************)
(* Proofs about the keys of the stopped machine, for every size of memory, *)
(* every divider and debounce time, and every setting of the switches.     *)
(* Word and Counter are never expanded where their elements are many.      *)
(*                                                                         *)
(* The keys implement Store: every press is obeyed exactly once and in one *)
(* piece.  Four invariants carry that proof: the pulse of a key is that of *)
(* the one key pressed (PulseInv), the debounce timer is clear when a key  *)
(* is latched and cannot end within the pulse (CountInv), the four clocks  *)
(* of the pulse meet the state machine from F0 to H2 (StepInv), and the    *)
(* address register then holds the operator's address (AddressInv).        *)
(***************************************************************************)
EXTENDS Boot, TLAPS

(* The instances carry their own copies of the sets of Opcodes.            *)
LEMMA SameSets ==
  /\ Bit = {0, 1} /\ FP!Bit = {0, 1} /\ PC!Bit = {0, 1} /\ SM!Bit = {0, 1} /\ MA!Bit = {0, 1}
  /\ FP!Word = Word /\ MA!Word = Word
  /\ MA!Field = Field /\ ME!Field = Field
  BY DEF Bit, FP!Bit, PC!Bit, SM!Bit, MA!Bit, Word, FP!Word, MA!Word, Field, MA!Field, ME!Field

LEMMA Slices ==
  ASSUME NEW i \in Word
  PROVE  ME!Mid(i) \in Field /\ ME!Low3(i) \in Field /\ MA!Mid(i) = ME!Mid(i)
  BY DEF Word, Field, ME!Mid, ME!Low3, MA!Mid

(* 0 is a word, a field and the first cell.                                *)
LEMMA Zeros ==
  /\ 0 \in Word /\ 0 \in Field
  /\ 0 \in 0..(Size - 1) /\ Size - 1 \in 0..(Size - 1)
  /\ [f |-> 0, w |-> 0] \in MA!Cell
  BY PanelAssumption DEF Word, Field, MA!Cell, MA!Field

LEMMA Remainder == ASSUME NEW i \in Word PROVE i % Size \in 0..(Size - 1)
<1>1. i \in Int
  BY DEF Word
<1> QED BY <1>1, PanelAssumption

-----------------------------------------------------------------------------
(* The debounce timer stops one past the debounce time, the start-up timer *)
(* one past the delay: no counter overflows.                               *)
TimerInv ==
  /\ oneK_cntr \in 0..oneK_cnt /\ oneKHz \in {0, 1}
  /\ fp_cntr \in Nat /\ fp_cont \in {0, 1}
  /\ fp_cont = 0 => fp_cntr <= sw_dbnc
  /\ fp_cont = 1 => fp_cntr = sw_dbnc + 1
  /\ sd_cntr \in Nat /\ sd_reset \in {0, 1}
  /\ sd_reset = 1 => sd_cntr <= sd_delay
  /\ sd_cntr <= sd_delay + 1

LEMMA TimerStep == ASSUME TimerInv, Timer PROVE TimerInv'
<1> USE PanelAssumption DEF TimerInv
<1>1. CASE PC!Divide
  BY <1>1 DEF PC!Divide
<1>2. CASE PC!Fall
  BY <1>2 DEF PC!Fall
<1>3. CASE PC!Rise
  <2>1. /\ sd_cntr' \in Nat /\ sd_reset' \in {0, 1}
        /\ sd_reset' = 1 => sd_cntr' <= sd_delay
        /\ sd_cntr' <= sd_delay + 1
    BY <1>3 DEF PC!Rise, PC!StartUp
  <2>2. /\ fp_cntr' \in Nat /\ fp_cont' \in {0, 1}
        /\ fp_cont' = 0 => fp_cntr' <= sw_dbnc
        /\ fp_cont' = 1 => fp_cntr' = sw_dbnc + 1
    BY <1>3 DEF PC!Rise, PC!Debounce
  <2> QED BY <1>3, <2>1, <2>2 DEF PC!Rise
<1> QED BY <1>1, <1>2, <1>3 DEF Timer, PC!ClockEdge

LEMMA TimerTyping == TimerInv => PC!PCTypeOK
  BY PanelAssumption, SameSets DEF TimerInv, PC!PCTypeOK, PC!Counter

-----------------------------------------------------------------------------
Typed == TypeOK /\ TimerInv

LEMMA TypingInit == Init => Typed
<1> SUFFICES ASSUME Init PROVE Typed
  OBVIOUS
<1> USE SameSets, Zeros, PanelAssumption DEF Init
<1>1. TimerInv
  BY DEF PC!PCInit, TimerInv
<1>2. FP!FPTypeOK
  BY DEF FP!FPInit, FP!FPTypeOK, FP!TrigStates, FP!Keys
<1>3. SM!SMTypeOK
  BY DEF SM!SMInit, SM!SMTypeOK, SM!States
<1>4. MA!MATypeOK
  BY DEF MA!MAInit, MA!MATypeOK
<1>5. IF_ \in Field /\ IB \in Field /\ DF \in Field
  BY DEF ME!MEInit
<1>6. key \subseteq PressedKeys /\ data_break \in Bit /\ dma \in Dma \cup {NoDma}
      /\ elapsed \in 0..sw_dbnc
  OBVIOUS
<1> QED BY <1>1, <1>2, <1>3, <1>4, <1>5, <1>6, TimerTyping DEF Typed, TypeOK

LEMMA PanelTyping ==
  ASSUME Typed, Sequencer PROVE FP!FPTypeOK'
<1> USE SameSets, PanelAssumption DEF Typed, TypeOK, FP!FPTypeOK, FP!TrigStates, FP!Keys
<1>1. CASE \E sr \in SRs, sw \in SWs : FP!AtLATCH(key, sr, sw)
  BY <1>1 DEF FP!AtLATCH
<1>2. CASE FP!AtTRIG2
  BY <1>2 DEF FP!AtTRIG2
<1>3. CASE FP!AtWAIT \/ FP!AtTRIG1 \/ FP!AtTRIG3 \/ FP!AtDELAY(fp_cont) \/ FP!AtREENABLE
  BY <1>3 DEF FP!AtWAIT, FP!AtTRIG1, FP!AtTRIG3, FP!AtDELAY, FP!AtREENABLE
<1> QED BY <1>1, <1>2, <1>3 DEF Sequencer

LEMMA ControlTyping ==
  ASSUME Typed, Control
  PROVE  SM!SMTypeOK' /\ IF_' \in Field /\ IB' \in Field /\ DF' \in Field
<1> USE SameSets, Zeros DEF Typed, TypeOK, SM!SMTypeOK, SM!States
<1>1. CASE Cleared
  BY <1>1 DEF Control, SM!SMReset, ME!MEReset
<1>2. CASE Obey
  <2>1. SM!SMTypeOK'
    BY <1>2 DEF Obey, SM!AtF0, SM!StartBreak, SM!Stopped, SM!TakeInterrupt, SM!FetchNext,
       SM!GoTo, SM!AtHW, SM!AtH1, SM!AtH2, SM!AtH3, SM!AtDB0, SM!AtDB1, SM!AtDB2
  <2>2. ME!Mid(rsr) \in Field /\ ME!Low3(rsr) \in Field
    BY Slices DEF FP!FPTypeOK
  <2>3. IF_' \in Field /\ IB' \in Field /\ DF' \in Field
    BY <1>2, <2>2 DEF Obey, ME!MEKeep, ME!meVars, ME!MEAtH2
  <2> QED BY <2>1, <2>3
<1> QED BY <1>1, <1>2 DEF Control

(* A transfer in the making has a cell, a word and a direction.            *)
LEMMA DmaTyping ==
  ASSUME TypeOK
  PROVE  dma.cell \in MA!Cell /\ dma.data \in Word /\ dma.to_disk \in Bit
<1>1. MA!Populated \subseteq MA!Cell
  BY PanelAssumption, SameSets DEF MA!Populated, MA!Cell
<1> QED BY <1>1, Zeros, PanelAssumption, SameSets DEF TypeOK, Dma, NoDma

LEMMA RAMTyping ==
  ASSUME TypeOK, MA!RAM
  PROVE  mdtmp' \in Word /\ memory' \in [MA!Populated -> Word]
<1> USE SameSets, Zeros DEF TypeOK, MA!MATypeOK
<1>1. CASE write_en = 1
  <2>1. MA!Written \in [MA!Populated -> Word]
    BY DEF MA!Written
  <2> QED BY <1>1, <2>1 DEF MA!RAM
<1>2. CASE write_en # 1
  <2>1. MA!Read \subseteq Word
    BY DEF MA!Read
  <2> QED BY <1>2, <2>1 DEF MA!RAM
<1> QED BY <1>1, <1>2

LEMMA MemoryTyping ==
  ASSUME TypeOK, Memory
  PROVE  MA!MATypeOK'
<1> USE SameSets, Zeros, DmaTyping DEF TypeOK, MA!MATypeOK
<1>1. MA!RAM
  BY DEF Memory, MA!MAAtF0, MA!MAAtHW, MA!MAAtH1, MA!MAAtH2, MA!MAIdle, MA!MAAtDB1, MA!MAAtDB2
<1>2. mdtmp' \in Word /\ memory' \in [MA!Populated -> Word]
  BY <1>1, RAMTyping
<1>3. eaddr.w \in 0..(Size - 1) /\ eaddr.f \in Field
  BY DEF MA!Cell
<1>4. ASSUME NEW w \in 0..(Size - 1) PROVE [eaddr EXCEPT !.w = w] \in MA!Cell
  BY <1>3 DEF MA!Cell
<1>5. ASSUME NEW f \in Field PROVE [eaddr EXCEPT !.f = f] \in MA!Cell
  BY <1>3 DEF MA!Cell
<1>6. rsr \in Word /\ MA!Mid(rsr) \in Field /\ rsr % Size \in 0..(Size - 1)
  <2>1. rsr \in Word
    BY DEF FP!FPTypeOK
  <2>2. rsr % Size \in 0..(Size - 1)
    BY <2>1, Remainder
  <2> QED BY <2>1, <2>2, Slices
<1>7. MA!Next12(eaddr.w) \in 0..(Size - 1)
  BY <1>3, PanelAssumption DEF MA!Next12
<1> QED
  <2>1. CASE MA!MAAtF0(data_break, dma.cell, dma.data)
    BY <1>2, <1>3, <2>1 DEF MA!MAAtF0
  <2>2. CASE MA!MAAtHW \/ MA!MAIdle
    BY <1>2, <2>2 DEF MA!MAAtHW, MA!MAIdle
  <2>3. CASE MA!MAAtH1(asserted, rsr, swr)
    <3>1. eaddr' \in MA!Cell
      BY <1>4, <1>5, <1>6, <2>3 DEF MA!MAAtH1
    <3> QED BY <1>2, <1>6, <2>3, <3>1 DEF MA!MAAtH1
  <2>4. CASE MA!MAAtH2(asserted)
    <3>1. eaddr' \in MA!Cell
      BY <1>4, <1>7, <2>4 DEF MA!MAAtH2
    <3> QED BY <1>2, <2>4, <3>1 DEF MA!MAAtH2
  <2>5. CASE MA!MAAtDB1(dma.to_disk, dma.data)
    BY <1>2, <2>5 DEF MA!MAAtDB1
  <2>6. CASE MA!MAAtDB2(dma.to_disk)
    <3>1. [f |-> IF_, w |-> pc] \in MA!Cell
      BY DEF MA!Cell
    <3> QED BY <1>2, <2>6, <3>1 DEF MA!MAAtDB2
  <2> QED BY <2>1, <2>2, <2>3, <2>4, <2>5, <2>6 DEF Memory

LEMMA TypingStep == ASSUME Typed, [Next]_vars PROVE Typed'
<1> USE SameSets DEF Typed, TypeOK
<1>1. CASE Next
  <2>1. key' \subseteq PressedKeys
    BY <1>1 DEF Next, Operator
  <2>2. data_break' \in Bit /\ dma' \in Dma \cup {NoDma}
    BY <1>1 DEF Next, Disk, Raise, Withdraw, Quiescent
  <2>3. elapsed' \in 0..sw_dbnc
    BY <1>1, PanelAssumption DEF Next, History
  <2>4. TimerInv' /\ PC!PCTypeOK'
    BY <1>1, TimerStep, TimerTyping, PTL DEF Next
  <2> QED BY <1>1, <2>1, <2>2, <2>3, <2>4, PanelTyping, ControlTyping, MemoryTyping DEF Next
<1>2. CASE UNCHANGED vars
  BY <1>2 DEF vars, regVars, FP!fpVars, PC!pcVars, SM!smVars, MA!maVars, TimerInv, PC!PCTypeOK,
     FP!FPTypeOK, SM!SMTypeOK, MA!MATypeOK
<1> QED BY <1>1, <1>2

(* Every register of panel, timers, state machine and memory address       *)
(* module keeps its width; the ten-bit timers never overflow (HX_clock.v). *)
THEOREM Typing == Spec => []TypeOK
<1>1. Typed => TypeOK
  BY DEF Typed
<1> QED BY <1>1, TypingInit, TypingStep, PTL DEF Spec

-----------------------------------------------------------------------------
(* A data break holds the address of its transfer, writes nothing before   *)
(* DB1 and has read its word by DB2; the controller keeps what it asked    *)
(* for until then.                                                         *)
Breaks == {"DB0", "DB1", "DB2"}

HoldInv ==
  /\ data_break = 1 => dma \in Dma
  /\ state \in Breaks => break_in_prog = 1 /\ dma \in Dma /\ eaddr = dma.cell
  /\ state \in {"DB0", "DB1"} => write_en = 0 /\ data_break = 1

ReadInv == state = "DB2" => mdtmp = memory[dma.cell]

(* While a break is served the request is the same.                        *)
LEMMA RequestStands ==
  ASSUME Typed, HoldInv, Disk, ~Cleared, data_break = 1 \/ break_in_prog = 1
  PROVE  UNCHANGED dma /\ (state # "DB1" => UNCHANGED data_break)
  BY DEF Disk, Raise, Withdraw, Quiescent

(* How the stopped machine moves: one way from every state but F0.         *)
LEMMA Moves ==
  ASSUME Obey
  PROVE  /\ state = "F0" /\ RK8E /\ data_break = 1 => state' = "DB0" /\ break_in_prog' = 1
         /\ state = "F0" => state' = "DB0" \/ state' \notin Breaks
         /\ state' = "DB0" => state = "F0" /\ RK8E /\ data_break = 1 /\ break_in_prog' = 1
         /\ state = "DB0" => state' = "DB1" /\ UNCHANGED break_in_prog
         /\ state = "DB1" => state' = "DB2" /\ UNCHANGED break_in_prog
         /\ state = "DB2" => state' = "F0" /\ break_in_prog' = 0
         /\ state \in Breaks \cup {"F0", "HW", "H1", "H2", "H3"}
         /\ state \in {"HW", "H1", "H2", "H3"} => state' \notin Breaks /\ UNCHANGED break_in_prog
  BY DEF Obey, Breaks, SM!AtF0, SM!StartBreak, SM!Stopped, SM!TakeInterrupt, SM!FetchNext,
         SM!GoTo, SM!AtHW, SM!AtH1, SM!AtH2, SM!AtH3, SM!AtDB0, SM!AtDB1, SM!AtDB2

LEMMA HoldStep ==
  ASSUME Typed, HoldInv, Next
  PROVE  HoldInv'
<1> USE SameSets DEF HoldInv
<1>1. data_break' = 1 => dma' \in Dma
  BY DEF Next, Disk, Raise, Withdraw, Quiescent
<1>2. CASE Cleared
  BY <1>1, <1>2 DEF Next, Control, SM!SMReset, Breaks
<1>3. CASE ~Cleared
  <2>1. Obey /\ Memory /\ Disk
    BY <1>3 DEF Next, Control
  <2>2. CASE state' = "DB0"
    <3>1. state = "F0" /\ data_break = 1 /\ break_in_prog' = 1
      BY <2>1, <2>2, Moves
    <3>2. UNCHANGED <<dma, data_break>>
      BY <1>3, <2>1, <3>1, RequestStands
    <3>3. eaddr' = dma.cell /\ write_en' = 0
      BY <2>1, <3>1 DEF Memory, MA!MAAtF0
    <3> QED BY <1>1, <2>2, <3>1, <3>2, <3>3 DEF Breaks
  <2>3. CASE state = "DB0"
    <3>1. state' = "DB1" /\ UNCHANGED break_in_prog
      BY <2>1, <2>3, Moves
    <3>2. UNCHANGED <<dma, data_break>>
      BY <1>3, <2>1, <2>3, RequestStands DEF Breaks
    <3>3. eaddr' = eaddr /\ write_en' = 0
      BY <2>1, <2>3 DEF Memory, MA!MAIdle
    <3> QED BY <1>1, <2>3, <3>1, <3>2, <3>3 DEF Breaks
  <2>4. CASE state = "DB1"
    <3>1. state' = "DB2" /\ UNCHANGED break_in_prog
      BY <2>1, <2>4, Moves
    <3>2. UNCHANGED dma
      BY <1>3, <2>1, <2>4, RequestStands DEF Breaks
    <3>3. eaddr' = eaddr
      BY <2>1, <2>4 DEF Memory, MA!MAAtDB1
    <3> QED BY <1>1, <2>4, <3>1, <3>2, <3>3 DEF Breaks
  <2>5. state' \in Breaks => state' = "DB0" \/ state = "DB0" \/ state = "DB1"
    BY <2>1, Moves DEF Breaks
  <2>6. CASE state' \notin Breaks
    BY <1>1, <2>6 DEF Breaks
  <2> QED BY <2>2, <2>3, <2>4, <2>5, <2>6
<1> QED BY <1>2, <1>3

(* The RAM selects a word with fourteen bits of the fifteen, enough for    *)
(* four fields: up to there it reads and writes the word addressed.        *)
LEMMA SelectsTheCell ==
  ASSUME Fields \subseteq 0..3, eaddr \in MA!Populated
  PROVE  MA!Selected = eaddr
<1>1. eaddr.f \in 0..3
  BY DEF MA!Populated
<1>2. eaddr.f % 4 = eaddr.f
  BY <1>1
<1> QED BY <1>2 DEF MA!Selected, MA!Populated

LEMMA ReadsTheCell ==
  ASSUME Fields \subseteq 0..3, eaddr \in MA!Populated
  PROVE  MA!Read = {memory[eaddr]}
BY SelectsTheCell DEF MA!Read

LEMMA WritesTheCell ==
  ASSUME Fields \subseteq 0..3
  PROVE  MA!Written = IF eaddr \in MA!Populated THEN [memory EXCEPT ![eaddr] = mdin] ELSE memory
BY SelectsTheCell DEF MA!Written

LEMMA ReadStep ==
  ASSUME Fields \subseteq 0..3, Typed, HoldInv, Next
  PROVE  ReadInv'
<1> SUFFICES ASSUME state' = "DB2" PROVE (mdtmp = memory[dma.cell])'
  BY DEF ReadInv
<1>1. ~Cleared
  BY DEF Next, Control, SM!SMReset
<1>2. Obey /\ Memory /\ Disk
  BY <1>1 DEF Next, Control
<1>3. state = "DB1"
  BY <1>2, Moves DEF Breaks
<1>4. UNCHANGED dma
  BY <1>1, <1>2, <1>3, RequestStands DEF HoldInv, Breaks
<1>5. MA!RAM
  BY <1>2, <1>3 DEF Memory, MA!MAAtDB1
<1>6. eaddr = dma.cell /\ write_en = 0 /\ eaddr \in MA!Populated
  BY <1>3, PanelAssumption DEF HoldInv, Breaks, Dma
<1>7. mdtmp' = memory[eaddr] /\ UNCHANGED memory
  BY <1>5, <1>6, ReadsTheCell DEF MA!RAM
<1> QED BY <1>4, <1>6, <1>7

(* The word a data break sends to the disk is the one in memory at the     *)
(* address of the transfer, whatever keys are pressed meanwhile (ma.v DB1, *)
(* DB2; ram.v's registered output), for every memory of up to four fields. *)
THEOREM TransfersSendTheWord ==
  ASSUME Fields \subseteq 0..3 PROVE Spec => BreakReadsWord
<1>1. Init => HoldInv /\ ReadInv
  BY DEF Init, SM!SMInit, HoldInv, ReadInv, Breaks
<1>2. Typed /\ HoldInv /\ ReadInv /\ [Next]_vars => HoldInv' /\ ReadInv'
  <2>1. CASE UNCHANGED vars
    BY <2>1 DEF vars, regVars, SM!smVars, MA!maVars, HoldInv, ReadInv
  <2> QED BY <2>1, HoldStep, ReadStep
<1>3. Typed /\ HoldInv /\ ReadInv /\ [Next]_vars
        => [state = "DB2" /\ dma.to_disk = 1 /\ ~Cleared => mem2disk' = memory[dma.cell]]_vars
  BY DEF Next, Memory, MA!MAAtDB2, HoldInv, ReadInv, Breaks
<1> QED BY <1>1, <1>2, <1>3, TypingInit, TypingStep, PTL DEF Spec, BreakReadsWord

-----------------------------------------------------------------------------
(* No key is held through its debounce time, no data break is requested on *)
(* the clocks of a pulse, and CLEAR is not pressed.                        *)
Careful == ~HoldsKeys /\ ~BreaksDuringKeys /\ "clear" \notin PressedKeys

Lone(S) == \A a, b \in S : a = b

PulseInv ==
  /\ Lone(key) /\ Lone(switchl) /\ Lone(asserted)
  /\ switchl \subseteq PressedKeys /\ asserted \subseteq PressedKeys
  /\ trig_state = "LATCH" /\ switchl # {} => key \subseteq switchl
  /\ trig_state = "WAIT" => switchl # {}
  /\ trig_state \notin {"LATCH", "WAIT"} => switchl = {}
  /\ trig_state \in {"TRIG1", "TRIG2", "TRIG3"} => triggerd = 1
  /\ trig_state \in {"LATCH", "WAIT", "REENABLE"} => triggerd = 0
  /\ triggerd = 0 <=> asserted = {}

Pulsing == trig_state \in {"WAIT", "TRIG1", "TRIG2", "TRIG3"}

CountInv ==
  /\ fp_cont = 1 => key = {}
  /\ fp_trigger = 1 <=> trig_state \in {"TRIG3", "DELAY"}
  /\ fp_trigger = 0 /\ fp_cont = 0 => fp_cntr = 0
  /\ trig_state = "LATCH" /\ switchl # {} => fp_cont = 0
  /\ Pulsing => fp_cont = 0
  /\ trig_state = "TRIG3" => fp_cntr = 0
  /\ trig_state = "DELAY" /\ triggerd = 1
       => fp_cont = 0 /\ fp_cntr <= 1 /\ (fp_cntr = 1 => oneKHz = 1)

StepInv ==
  /\ run_ff = 0
  /\ state \in {"F0", "HW", "H1", "H2", "H3"} \cup Breaks
  /\ data_break = 1 => RK8E /\ state # "DB2"
  /\ break_in_prog = 1 <=> state \in Breaks
  /\ trig_state \in {"LATCH", "REENABLE"} => state \in {"F0"} \cup Breaks
  /\ trig_state = "LATCH" /\ key \cup switchl # {} /\ state = "F0" => data_break = 0
  /\ trig_state = "LATCH" /\ switchl # {} => state # "DB0"
  /\ trig_state = "WAIT" => state \in {"F0", "DB2"} /\ data_break = 0
  /\ trig_state = "TRIG1" => state = "F0" /\ data_break = 0
  /\ trig_state = "TRIG2" => state = "HW"
  /\ trig_state = "TRIG3" => state = "H1"
  /\ trig_state = "DELAY" /\ triggerd = 1 => state = "H2"
  /\ trig_state = "DELAY" /\ triggerd = 0 => state \in {"F0", "H3"} \cup Breaks
  /\ state = "H3" => fp_cont = 0

AddressInv ==
  /\ trig_state # "LATCH" => rsr \in SRs
  /\ state = "H2" /\ "extd_addr" \in asserted => eaddr.f = ME!Mid(rsr)
  /\ state \notin Breaks /\ ~(state = "H2" /\ "extd_addr" \in asserted) => eaddr.f = IF_
  /\ write_en = 1 => (state = "H2" /\ "dep" \in asserted) \/ state = "DB2"
  /\ state = "H2" /\ "dep" \in asserted => write_en = 1 /\ mdin = rsr
  /\ state = "DB2" /\ write_en = 1 => mdin \in Values

StoreInv == Typed /\ HoldInv /\ PulseInv /\ CountInv /\ StepInv /\ AddressInv

-----------------------------------------------------------------------------
LEMMA StoreInvInit == Init => StoreInv
<1> SUFFICES ASSUME Init PROVE StoreInv
  OBVIOUS
<1>1. Typed
  BY TypingInit
<1> QED BY <1>1 DEF Init, FP!FPInit, PC!PCInit, SM!SMInit, ME!MEInit, MA!MAInit, HoldInv,
            PulseInv, Lone, CountInv, Pulsing, StepInv, AddressInv, StoreInv, Breaks

LEMMA PulseStep ==
  ASSUME Typed, PulseInv, Sequencer, Operator
  PROVE  PulseInv'
<1> USE DEF PulseInv, Lone
<1>1. Lone(key')
  BY DEF Operator
<1>2. CASE \E sr \in SRs, sw \in SWs : FP!AtLATCH(key, sr, sw)
  <2>1. CASE switchl = {}
    BY <1>1, <1>2, <2>1 DEF FP!AtLATCH, Operator, Typed, TypeOK
  <2>2. CASE switchl # {}
    BY <1>1, <1>2, <2>2 DEF FP!AtLATCH, Operator
  <2> QED BY <2>1, <2>2
<1>3. CASE FP!AtWAIT
  BY <1>1, <1>3 DEF FP!AtWAIT
<1>4. CASE FP!AtTRIG1 \/ FP!AtTRIG2 \/ FP!AtTRIG3
  BY <1>1, <1>4 DEF FP!AtTRIG1, FP!AtTRIG2, FP!AtTRIG3
<1>5. CASE FP!AtDELAY(fp_cont) \/ FP!AtREENABLE
  BY <1>1, <1>5 DEF FP!AtDELAY, FP!AtREENABLE
<1> QED BY <1>2, <1>3, <1>4, <1>5 DEF Sequencer

(* The timer on one edge: clear it stays clear, ended it is cleared, and   *)
(* it takes a rise of the 1 kHz clock to count.                            *)
LEMMA TimerMoves ==
  ASSUME TimerInv, Timer
  PROVE  /\ fp_trigger = 0 /\ fp_cntr = 0 => fp_cntr' = 0 /\ fp_cont' = fp_cont
         /\ fp_cont = 1 => fp_cont' = 1 \/ fp_cntr' = 0
         /\ fp_cntr = 0 /\ fp_cont = 0
              => fp_cont' = 0 /\ fp_cntr' <= 1 /\ (fp_cntr' = 1 => oneKHz' = 1)
         /\ fp_cont = 0 /\ oneKHz = 1 => fp_cont' = 0
<1> USE PanelAssumption DEF TimerInv
<1>1. CASE PC!Divide \/ PC!Fall
  BY <1>1 DEF PC!Divide, PC!Fall
<1>2. CASE PC!Rise
  BY <1>2 DEF PC!Rise, PC!Debounce
<1> QED BY <1>1, <1>2 DEF Timer, PC!ClockEdge

LEMMA CountStep ==
  ASSUME ~HoldsKeys, Typed, PulseInv, CountInv, Sequencer, Timer, Operator
  PROVE  CountInv'
<1> USE DEF CountInv, Pulsing
<1>1. fp_cont' = 1 => key' = {}
  BY DEF Operator
<1>2. TimerInv /\ TimerInv'
  BY TimerStep DEF Typed
<1>3. /\ fp_cont \in {0, 1} /\ fp_cont' \in {0, 1}
  BY <1>2 DEF TimerInv
<1>4. CASE \E sr \in SRs, sw \in SWs : FP!AtLATCH(key, sr, sw)
  BY <1>1, <1>2, <1>3, <1>4, TimerMoves, SameSets
     DEF FP!AtLATCH, PulseInv, Typed, TypeOK, FP!FPTypeOK
<1>5. CASE FP!AtWAIT \/ FP!AtTRIG1
  BY <1>1, <1>2, <1>3, <1>5, TimerMoves, SameSets
     DEF FP!AtWAIT, FP!AtTRIG1, Typed, TypeOK, FP!FPTypeOK
<1>6. CASE FP!AtTRIG2
  BY <1>1, <1>2, <1>3, <1>6, TimerMoves, SameSets DEF FP!AtTRIG2, Typed, TypeOK, FP!FPTypeOK
<1>7. CASE FP!AtTRIG3
  BY <1>1, <1>2, <1>3, <1>7, TimerMoves DEF FP!AtTRIG3
<1>8. CASE FP!AtDELAY(fp_cont)
  BY <1>1, <1>2, <1>3, <1>8, TimerMoves DEF FP!AtDELAY, PulseInv
<1>9. CASE FP!AtREENABLE
  BY <1>1, <1>2, <1>3, <1>9, TimerMoves, SameSets
     DEF FP!AtREENABLE, PulseInv, Typed, TypeOK, FP!FPTypeOK
<1> QED BY <1>4, <1>5, <1>6, <1>7, <1>8, <1>9 DEF Sequencer

(* CLEAR and CONTINUE are never among the control lines.                   *)
LEMMA StaysStopped ==
  ASSUME Careful, PulseInv, StepInv, Control
  PROVE  /\ ~Cleared /\ Obey
         /\ run_ff' = 0
         /\ state = "F0" /\ data_break # 1 /\ triggerd # 1
              => state' = "F0" /\ UNCHANGED break_in_prog
         /\ state = "F0" /\ data_break # 1 /\ triggerd = 1
              => state' = "HW" /\ UNCHANGED break_in_prog
         /\ state = "HW" => state' = "H1" /\ UNCHANGED break_in_prog
         /\ state = "H1" => state' = "H2" /\ UNCHANGED break_in_prog
         /\ state = "H2" => state' = "H3" /\ UNCHANGED break_in_prog
         /\ state = "H3" => state' = "F0" /\ UNCHANGED break_in_prog
<1>1. ~Cleared /\ contd = 0
  BY PanelAssumption DEF Careful, PulseInv, Cleared, contd
<1>2. Obey
  BY <1>1 DEF Control
<1> QED BY <1>1, <1>2 DEF StepInv, Obey, SM!AtF0, SM!StartBreak, SM!Stopped, SM!TakeInterrupt,
            SM!FetchNext, SM!GoTo, SM!AtHW, SM!AtH1, SM!AtH2, SM!AtH3, SM!AtDB0, SM!AtDB1, SM!AtDB2

LEMMA StepStep ==
  ASSUME Careful, Typed, PulseInv, CountInv, StepInv, Next
  PROVE  StepInv'
<1> DEFINE raised == RK8E /\ break_in_prog = 0 /\ ~KeyImminent
<1>1. data_break' = 1 => (data_break = 1 /\ state # "DB1") \/ raised
  <2>1. ~Cleared
    BY StaysStopped DEF Next
  <2> QED BY <2>1 DEF Next, Disk, Raise, Withdraw, Quiescent, Careful
<1>2. PulseInv' /\ CountInv'
  BY PulseStep, CountStep DEF Next, Careful
<1>3. data_break \in {0, 1} /\ data_break' \in {0, 1} /\ triggerd \in {0, 1}
  <2>1. Typed'
    BY TypingStep
  <2> QED BY <2>1, SameSets DEF Typed, TypeOK, FP!FPTypeOK
<1>4. Obey
  BY StaysStopped DEF Next
<1> DEFINE always == /\ run_ff' = 0
                     /\ state' \in {"F0", "HW", "H1", "H2", "H3"} \cup Breaks
                     /\ data_break' = 1 => RK8E /\ state' # "DB2"
                     /\ break_in_prog' = 1 <=> state' \in Breaks
<1>5. always
  BY <1>1, <1>3, <1>4, Moves, StaysStopped DEF StepInv, Next, Breaks
<1>6. state = "F0" /\ data_break = 1 => state' = "DB0"
  BY <1>4, Moves DEF StepInv
<1> HIDE DEF always
<1> USE DEF StepInv, Breaks
<1>7. CASE \E sr \in SRs, sw \in SWs : FP!AtLATCH(key, sr, sw)
  <2>1. triggerd = 0 /\ triggerd' = 0 /\ trig_state = "LATCH"
        /\ switchl' = switchl \cup key
        /\ trig_state' = (IF switchl = {} THEN "LATCH" ELSE "WAIT")
    BY <1>7 DEF FP!AtLATCH, PulseInv
  <2>2. state' \in {"F0"} \cup Breaks
    BY <1>3, <1>4, <1>6, <2>1, Moves, StaysStopped DEF Next
  <2>3. CASE switchl = {}
    <3>1. key' \cup switchl' # {} => ~raised
      BY <2>1, <2>3 DEF KeyImminent
    <3>2. switchl' = key
      BY <2>1, <2>3
    <3>3. key' \cup switchl' # {} /\ state' = "F0" => data_break' = 0
      BY <1>1, <1>3, <1>4, <1>6, <2>1, <3>1, Moves
    <3>4. switchl' # {} => state' # "DB0"
      BY <1>1, <1>3, <1>4, <2>1, <3>2, Moves
    <3> QED BY <1>5, <2>1, <2>2, <2>3, <3>3, <3>4 DEF always
  <2>4. CASE switchl # {}
    <3>1. ~raised
      BY <2>1, <2>4 DEF KeyImminent
    <3>2. state' \in {"F0", "DB2"} /\ data_break' = 0
      BY <1>1, <1>3, <1>4, <2>1, <2>4, <3>1, Moves, StaysStopped DEF Next
    <3> QED BY <1>5, <2>1, <2>4, <3>2 DEF always
  <2> QED BY <2>3, <2>4
<1>8. CASE FP!AtWAIT
  <2>1. triggerd = 0 /\ trig_state = "WAIT" /\ trig_state' = "TRIG1"
    BY <1>8 DEF FP!AtWAIT, PulseInv
  <2>2. ~raised
    BY <2>1 DEF KeyImminent
  <2>3. state' = "F0" /\ data_break' = 0
    BY <1>1, <1>3, <1>4, <2>1, <2>2, Moves, StaysStopped DEF Next
  <2> QED BY <1>5, <2>1, <2>3 DEF always
<1>9. CASE FP!AtTRIG1
  BY <1>3, <1>5, <1>9, StaysStopped DEF FP!AtTRIG1, PulseInv, Next, always
<1>10. CASE FP!AtTRIG2
  BY <1>5, <1>10, StaysStopped DEF FP!AtTRIG2, Next, always
<1>11. CASE FP!AtTRIG3
  <2>1. triggerd' = 1
    BY <1>11 DEF FP!AtTRIG3, PulseInv
  <2> QED BY <1>5, <1>11, <2>1, StaysStopped DEF FP!AtTRIG3, Next, always
<1>12. CASE FP!AtDELAY(fp_cont)
  <2>1. triggerd' = 0 /\ trig_state = "DELAY" /\ trig_state' \in {"DELAY", "REENABLE"}
        /\ (trig_state' = "REENABLE" => fp_cont = 1)
    BY <1>12 DEF FP!AtDELAY
  <2>2. CASE triggerd = 1
    <3>1. state = "H2" /\ fp_cont = 0
      BY <2>1, <2>2 DEF CountInv
    <3>2. state' = "H3" /\ trig_state' = "DELAY"
      BY <2>1, <3>1, StaysStopped DEF Next
    <3>3. fp_cont' = 0
      <4>1. TimerInv
        BY DEF Typed
      <4>2. fp_cntr = 0 \/ fp_cntr = 1
        BY <2>1, <2>2, <4>1 DEF CountInv, TimerInv
      <4> QED BY <2>1, <2>2, <3>1, <4>1, <4>2, TimerMoves DEF CountInv, Next
    <3> QED BY <1>5, <2>1, <3>2, <3>3 DEF always
  <2>3. CASE triggerd = 0
    <3>1. state' \in {"F0"} \cup Breaks
      BY <1>3, <1>4, <1>6, <2>1, <2>3, Moves, StaysStopped DEF Next
    <3> QED BY <1>5, <2>1, <3>1 DEF always
  <2> QED BY <1>3, <2>2, <2>3
<1>13. CASE FP!AtREENABLE
  <2>1. triggerd = 0 /\ trig_state = "REENABLE" /\ trig_state' = "LATCH" /\ switchl' = {}
    BY <1>13 DEF FP!AtREENABLE, PulseInv
  <2>2. state' \in {"F0"} \cup Breaks
    BY <1>3, <1>4, <1>6, <2>1, Moves, StaysStopped DEF Next
  <2>3. key' # {} => ~raised
    BY <2>1 DEF KeyImminent
  <2>4. key' # {} /\ state' = "F0" => data_break' = 0
    BY <1>1, <1>3, <1>4, <1>6, <2>1, <2>3, Moves
  <2> QED BY <1>5, <2>1, <2>2, <2>4 DEF always
<1> QED BY <1>7, <1>8, <1>9, <1>10, <1>11, <1>12, <1>13 DEF Next, Sequencer

-----------------------------------------------------------------------------
(* The clock of the pulse each state of the keys' cycle falls on.          *)
LEMMA Cycle ==
  ASSUME Typed, StepInv
  PROVE  /\ state = "HW" => trig_state = "TRIG2"
         /\ state = "H1" => trig_state = "TRIG3"
         /\ state = "H2" => trig_state = "DELAY" /\ triggerd = 1
  BY SameSets DEF Typed, TypeOK, FP!FPTypeOK, FP!TrigStates, StepInv, Breaks

LEMMA AddressStep ==
  ASSUME Careful, StoreInv, Next
  PROVE  AddressInv'
<1> USE DEF StoreInv, AddressInv, Breaks
<1>1. Obey /\ ~Cleared /\ Memory
  BY StaysStopped DEF Next
<1>2. StepInv' /\ PulseInv'
  BY StepStep, PulseStep DEF Next
<1>3. (trig_state # "LATCH" => rsr \in SRs)'
  BY DEF Next, Sequencer, FP!AtLATCH, FP!AtWAIT, FP!AtTRIG1, FP!AtTRIG2, FP!AtTRIG3,
         FP!AtDELAY, FP!AtREENABLE
<1>4. eaddr.w \in 0..(Size - 1) /\ eaddr \in MA!Cell
  BY DEF Typed, TypeOK, MA!MATypeOK, MA!Cell
<1>5. CASE state = "H1"
  <2>1. state' = "H2" /\ IF_' = IF_ /\ UNCHANGED <<asserted, rsr>>
    <3>1. FP!AtTRIG3
      BY <1>5, Cycle DEF Next, Sequencer, FP!AtLATCH, FP!AtWAIT, FP!AtTRIG1, FP!AtTRIG2,
                         FP!AtDELAY, FP!AtREENABLE
    <3> QED BY <1>1, <1>5, <3>1, StaysStopped DEF Next, Obey, FP!AtTRIG3, SM!AtF0, SM!AtH2,
                                            ME!MEKeep, ME!meVars
  <2>2. MA!MAAtH1(asserted, rsr, swr)
    BY <1>1, <1>5 DEF Memory
  <2>3. Lone(asserted) /\ ME!Mid(rsr) = MA!Mid(rsr) /\ eaddr.f = IF_
    BY <1>5, Slices, SameSets DEF PulseInv, Typed, TypeOK, FP!FPTypeOK
  <2>4. CASE "addr_load" \in asserted
    <3>1. "dep" \notin asserted /\ "extd_addr" \notin asserted
      BY <2>3, <2>4 DEF Lone
    <3>2. eaddr'.f = eaddr.f /\ write_en' = 0
      BY <1>4, <2>2, <2>4 DEF MA!MAAtH1, MA!Cell
    <3> QED BY <1>3, <2>1, <2>3, <3>1, <3>2
  <2>5. CASE "dep" \in asserted
    <3>1. "addr_load" \notin asserted /\ "extd_addr" \notin asserted
      BY <2>3, <2>5 DEF Lone
    <3>2. eaddr' = eaddr /\ write_en' = 1 /\ mdin' = rsr
      BY <2>2, <2>5, <3>1 DEF MA!MAAtH1
    <3> QED BY <1>3, <2>1, <2>3, <2>5, <3>1, <3>2
  <2>6. CASE "addr_load" \notin asserted /\ "dep" \notin asserted
    <3>1. eaddr'.f = (IF "extd_addr" \in asserted THEN MA!Mid(rsr) ELSE eaddr.f)
          /\ write_en' = 0
      BY <1>4, <2>2, <2>6 DEF MA!MAAtH1, MA!Cell
    <3> QED BY <1>3, <2>1, <2>3, <2>6, <3>1
  <2> QED BY <2>4, <2>5, <2>6
<1>6. CASE state = "H2"
  <2>1. state' = "H3" 
    BY <1>6, StaysStopped DEF Next
  <2>2. IF_' = IF "extd_addr" \in asserted THEN ME!Mid(rsr) ELSE IF_
    BY <1>1, <1>6 DEF Obey, SM!AtF0, SM!AtHW, SM!AtH1, SM!AtH3, SM!AtDB0, SM!AtDB1, SM!AtDB2,
                      ME!MEAtH2, ME!MEKeep, ME!meVars
  <2>3. eaddr'.f = eaddr.f /\ write_en' = 0
    BY <1>1, <1>4, <1>6 DEF Memory, MA!MAAtH2, MA!Cell
  <2> QED BY <1>3, <1>6, <2>1, <2>2, <2>3
<1>7. CASE state \notin {"H1", "H2"}
  <2>1. IF_' = IF_
    BY <1>1, <1>7 DEF Obey, SM!AtH2, ME!MEKeep, ME!meVars
  <2>2. /\ state' # "H2" /\ (state' = "DB2" => state = "DB1")
        /\ state \in {"DB0", "DB1"} => state' \in Breaks
    BY <1>1, <1>2, <1>7, Moves, StaysStopped DEF StepInv, Next
  <2>3. CASE state = "F0"
    <3>1. write_en' = 0 /\ (eaddr' = eaddr \/ data_break = 1)
      BY <1>1, <2>3 DEF Memory, MA!MAAtF0
    <3>2. data_break = 1 => state' = "DB0"
      BY <1>1, <2>3, Moves DEF StepInv
    <3> QED BY <1>3, <2>1, <2>2, <2>3, <3>1, <3>2
  <2>4. CASE state \in {"HW", "H3", "DB0"}
    <3>1. write_en' = 0 /\ eaddr' = eaddr
      BY <1>1, <2>4 DEF Memory, MA!MAAtHW, MA!MAIdle
    <3> QED BY <1>3, <2>1, <2>2, <2>4, <3>1
  <2>5. CASE state = "DB1"
    <3>1. state' = "DB2"
      BY <1>1, <2>5, Moves
    <3>2. dma.data \in Values /\ mdin' = dma.data
      BY <1>1, <2>5 DEF HoldInv, Dma, Memory, MA!MAAtDB1
    <3> QED BY <1>3, <3>1, <3>2
  <2>6. CASE state = "DB2"
    <3>1. eaddr' = [f |-> IF_, w |-> pc] /\ write_en' = 0
      BY <1>1, <2>6 DEF Memory, MA!MAAtDB2
    <3> QED BY <1>3, <2>1, <2>2, <2>6, <3>1
  <2> QED BY <1>7, <2>3, <2>4, <2>5, <2>6 DEF StepInv
<1> QED BY <1>5, <1>6, <1>7

LEMMA StoreInvStep == ASSUME Careful, StoreInv, [Next]_vars PROVE StoreInv'
<1>1. CASE Next
  <2>1. Typed' /\ HoldInv'
    BY <1>1, TypingStep, HoldStep DEF StoreInv
  <2>2. PulseInv' /\ CountInv' /\ StepInv' /\ AddressInv'
    BY <1>1, PulseStep, CountStep, StepStep, AddressStep DEF StoreInv, Next, Careful
  <2> QED BY <2>1, <2>2 DEF StoreInv
<1>2. CASE UNCHANGED vars
  <2>1. Typed'
    BY <1>2, TypingStep DEF StoreInv
  <2>2. HoldInv'
    BY <1>2 DEF StoreInv, HoldInv, vars, regVars, SM!smVars, MA!maVars
  <2>3. PulseInv' /\ CountInv'
    BY <1>2 DEF StoreInv, PulseInv, CountInv, Lone, Pulsing, vars, FP!fpVars, PC!pcVars
  <2>4. StepInv' /\ AddressInv'
    BY <1>2 DEF StoreInv, StepInv, AddressInv, vars, regVars, FP!fpVars, PC!pcVars, SM!smVars,
                MA!maVars
  <2> QED BY <2>1, <2>2, <2>3, <2>4 DEF StoreInv
<1> QED BY <1>1, <1>2

-----------------------------------------------------------------------------
(* One step of the memory: it stores only with write_en up.                *)
LEMMA MemoryMoves ==
  ASSUME Memory
  PROVE  /\ write_en # 1 => memory' = memory
         /\ write_en = 1 => memory' = MA!Written
  BY DEF Memory, MA!RAM, MA!MAAtF0, MA!MAAtHW, MA!MAAtH1, MA!MAAtH2, MA!MAIdle, MA!MAAtDB1,
         MA!MAAtDB2

(* The control lines change when a pulse begins and when it ends.          *)
LEMMA LinesMove ==
  ASSUME PulseInv, Sequencer
  PROVE  /\ trig_state = "WAIT" => asserted = {} /\ asserted' = switchl
         /\ trig_state = "DELAY" => asserted' = {}
         /\ trig_state \notin {"WAIT", "DELAY"} => asserted' = asserted
  BY DEF PulseInv, Sequencer, FP!AtLATCH, FP!AtWAIT, FP!AtTRIG1, FP!AtTRIG2, FP!AtTRIG3,
         FP!AtDELAY, FP!AtREENABLE

(* Outside H1 and H2 the operator's address stays, even when a data break  *)
(* takes the address register.                                             *)
LEMMA AddressStays ==
  ASSUME Careful, StoreInv, Next, state \notin {"H1", "H2"}
  PROVE  address' = address
<1> USE DEF StoreInv, Breaks
<1>1. Obey /\ Memory
  BY StaysStopped DEF Next
<1>2. StepInv /\ StepInv' /\ eaddr \in MA!Cell
  BY StepStep DEF Next, Typed, TypeOK, MA!MATypeOK
<1>3. IF_' = IF_
  BY <1>1 DEF Obey, SM!AtH2, ME!MEKeep, ME!meVars
<1>4. state' # "H2" /\ (state' \in Breaks => state \in {"F0", "DB0", "DB1"})
  BY <1>1, Moves, StaysStopped DEF StepInv, Next
<1>5. CASE state = "F0"
  <2>1. eaddr.f = IF_ /\ pc' = eaddr.w
    BY <1>1, <1>5 DEF AddressInv, Memory, MA!MAAtF0
  <2>2. address = eaddr
    BY <1>5 DEF address
  <2>3. eaddr = [f |-> IF_, w |-> pc']
    BY <1>2, <2>1 DEF MA!Cell
  <2>4. CASE data_break = 1
    <3>1. state' = "DB0"
      BY <1>1, <1>5, <2>4, Moves DEF StepInv
    <3> QED BY <1>3, <2>2, <2>3, <3>1 DEF address
  <2>5. CASE data_break # 1
    <3>1. state' \notin Breaks
      BY <1>1, <1>5, <2>5, Moves
    <3>2. eaddr' = eaddr
      BY <1>1, <1>5, <2>5 DEF Memory, MA!MAAtF0
    <3> QED BY <2>2, <3>1, <3>2 DEF address
  <2> QED BY <2>4, <2>5
<1>6. CASE state \in {"HW", "H3"}
  BY <1>1, <1>4, <1>6 DEF address, Memory, MA!MAAtHW, MA!MAIdle
<1>7. CASE state \in {"DB0", "DB1"}
  <2>1. state' \in Breaks /\ pc' = pc
    BY <1>1, <1>7, Moves DEF Memory, MA!MAIdle, MA!MAAtDB1
  <2> QED BY <1>3, <1>7, <2>1 DEF address
<1>8. CASE state = "DB2"
  <2>1. state' = "F0" /\ eaddr' = [f |-> IF_, w |-> pc]
    BY <1>1, <1>8, Moves DEF Memory, MA!MAAtDB2
  <2> QED BY <1>8, <2>1 DEF address
<1> QED BY <1>2, <1>5, <1>6, <1>7, <1>8 DEF StepInv

LEMMA StoreStep ==
  ASSUME Careful, Fields \subseteq 0..3, SRs \subseteq Values, StoreInv, Next
  PROVE  [ST!Next]_ST!storeVars
<1> USE DEF StoreInv, Breaks
<1>1. Memory /\ Sequencer /\ StepInv /\ StepInv' /\ StoreInv'
  BY StoreInvStep, StepStep DEF Next
<1>2. DOMAIN memory = MA!Populated /\ eaddr \in MA!Cell
  BY DEF Typed, TypeOK, MA!MATypeOK
<1>3. CASE state \notin {"H1", "H2"}
  <2>1. address' = address
    BY <1>3, AddressStays
  <2>2. memory' = memory \/ ST!Stored
    <3>1. CASE write_en = 1
      <4>1. state = "DB2" /\ mdin \in Values
        BY <1>3, <3>1 DEF AddressInv
      <4>2. \/ memory' = memory
            \/ eaddr \in DOMAIN memory /\ memory' = [memory EXCEPT ![eaddr] = mdin]
        BY <1>1, <1>2, <3>1, MemoryMoves, WritesTheCell
      <4> QED BY <4>1, <4>2 DEF ST!Stored
    <3>2. CASE write_en # 1
      BY <1>1, <3>2, MemoryMoves
    <3> QED BY <3>1, <3>2
  <2>3. CASE trig_state = "WAIT"
    <3>1. asserted = {} /\ asserted' = switchl /\ Lone(switchl)
      BY <1>1, <2>3, LinesMove DEF PulseInv
    <3>2. request = {} /\ state' # "H2"
      BY <1>1, <1>3, <3>1, Moves, StaysStopped DEF request, Next, StepInv
    <3>3. request' = {} \/ \E k \in ST!Requests : request' = {k}
      BY <3>1, <3>2 DEF request, ST!Requests, Lone
    <3> QED BY <2>1, <2>2, <3>2, <3>3 DEF ST!Next, ST!Press, ST!Transfer, ST!storeVars
  <2>4. CASE trig_state # "WAIT"
    <3>1. request' = request
      <4>1. state' # "H2"
        BY <1>3, Moves, StaysStopped DEF Next, StepInv
      <4>2. CASE trig_state = "DELAY"
        <5>1. triggerd \in {0, 1}
          BY SameSets DEF Typed, TypeOK, FP!FPTypeOK
        <5>2. asserted = {}
          BY <1>3, <2>4, <4>2, <5>1 DEF StepInv, PulseInv
        <5> QED BY <1>1, <1>3, <4>1, <4>2, <5>2, LinesMove DEF request
      <4>3. CASE trig_state # "DELAY"
        BY <1>1, <1>3, <2>4, <4>1, <4>3, LinesMove DEF request
      <4> QED BY <4>2, <4>3
    <3> QED BY <2>1, <2>2, <3>1 DEF ST!Next, ST!Transfer, ST!storeVars
  <2> QED BY <2>3, <2>4
<1>4. CASE state = "H1"
  <2>1. trig_state = "TRIG3" /\ state' = "H2" /\ asserted' = asserted /\ Lone(asserted)
    BY <1>1, <1>4, Cycle, LinesMove, StaysStopped DEF Next, PulseInv
  <2>2. memory' = memory
    <3>1. write_en # 1
      BY <1>4 DEF AddressInv
    <3> QED BY <1>1, <3>1, MemoryMoves
  <2>3. MA!MAAtH1(asserted, rsr, swr) /\ address = eaddr /\ address' = eaddr'
    BY <1>1, <1>4, <2>1 DEF Memory, address
  <2>4. rsr % Size \in 0..(Size - 1) /\ Size - 1 \in 0..(Size - 1) /\ MA!Mid(rsr) \in Field
    BY Remainder, Zeros, Slices, SameSets DEF Typed, TypeOK, FP!FPTypeOK
  <2>5. CASE "addr_load" \in asserted
    <3>1. asserted = {"addr_load"} /\ request = {"addr_load"} /\ request' = {}
      BY <1>4, <2>1, <2>5 DEF request, Lone
    <3>2. \E w \in 0..(Size - 1) : eaddr' = [eaddr EXCEPT !.w = w]
      BY <2>3, <2>4, <2>5 DEF MA!MAAtH1
    <3> QED BY <2>2, <2>3, <3>1, <3>2 DEF ST!Next, ST!LoadAddress, ST!Obeyed
  <2>6. CASE "extd_addr" \in asserted
    <3>1. asserted = {"extd_addr"} /\ request = {"extd_addr"} /\ request' = {}
      BY <1>4, <2>1, <2>6 DEF request, Lone
    <3>2. eaddr' = [eaddr EXCEPT !.f = MA!Mid(rsr)]
      BY <2>3, <2>6, <3>1 DEF MA!MAAtH1
    <3> QED BY <2>2, <2>3, <2>4, <3>1, <3>2, SameSets DEF ST!Next, ST!LoadField, ST!Obeyed,
                                                        Field, ST!Field
  <2>7. CASE "addr_load" \notin asserted /\ "extd_addr" \notin asserted
    <3>1. request' = request
      BY <1>4, <2>1, <2>7 DEF request
    <3>2. eaddr' = eaddr
      BY <2>3, <2>7 DEF MA!MAAtH1
    <3> QED BY <2>2, <2>3, <3>1, <3>2 DEF ST!storeVars
  <2> QED BY <2>5, <2>6, <2>7
<1>5. CASE state = "H2"
  <2>1. trig_state = "DELAY" /\ state' = "H3" /\ asserted' = {} /\ Lone(asserted)
    BY <1>1, <1>5, Cycle, LinesMove, StaysStopped DEF Next, PulseInv
  <2>2. request' = {}
    BY <2>1 DEF request
  <2>3. MA!MAAtH2(asserted) /\ address = eaddr /\ address' = eaddr'
    BY <1>1, <1>5, <2>1 DEF Memory, address
  <2>4. asserted \cap {"dep", "exam"} # {}
          => eaddr' = [eaddr EXCEPT !.w = (eaddr.w + 1) % Size]
    BY <2>3 DEF MA!MAAtH2, MA!Next12
  <2>5. CASE "dep" \in asserted
    <3>1. request = {"dep"}
      BY <1>5, <2>1, <2>5 DEF request, Lone
    <3>2. write_en = 1 /\ mdin = rsr /\ rsr \in Values
      BY <1>5, <2>1, <2>5 DEF AddressInv
    <3>3. memory' = IF address \in DOMAIN memory THEN [memory EXCEPT ![address] = rsr] ELSE memory
      BY <1>1, <1>2, <2>3, <3>2, MemoryMoves, WritesTheCell
    <3>4. address' = [address EXCEPT !.w = (address.w + 1) % Size]
      BY <2>3, <2>4, <2>5
    <3> QED BY <2>2, <3>1, <3>2, <3>3, <3>4 DEF ST!Next, ST!Deposit, ST!Obeyed, ST!Advance
  <2>6. CASE "dep" \notin asserted
    <3>1. memory' = memory
      <4>1. write_en # 1
        BY <1>5, <2>6 DEF AddressInv
      <4> QED BY <1>1, <4>1, MemoryMoves
    <3>2. CASE "exam" \in asserted
      <4>1. request = {"exam"}
        BY <1>5, <2>1, <3>2 DEF request, Lone
      <4> QED BY <2>2, <2>3, <2>4, <3>1, <3>2, <4>1 DEF ST!Next, ST!Examine, ST!Obeyed, ST!Advance
    <3>3. CASE "exam" \notin asserted
      <4>1. request = {} /\ eaddr' = eaddr
        BY <1>5, <2>3, <2>6, <3>3 DEF request, MA!MAAtH2
      <4> QED BY <2>2, <2>3, <3>1, <4>1 DEF ST!storeVars
    <3> QED BY <3>2, <3>3
  <2> QED BY <2>5, <2>6
<1> QED BY <1>3, <1>4, <1>5

(* Every press of a key of the stopped machine is obeyed exactly once and  *)
(* in one piece, and transfers change only the word they are for, whatever *)
(* the keys, the switches, the timers and the size of a field, as long as  *)
(* no key is held through its debounce time, no data break meets the pulse *)
(* of a key and the switches are set to words Store knows, in a memory of  *)
(* at most four fields: beyond, a word of field 4 to 7 is one of field 0   *)
(* to 3 (front_panel.v, state_machine.v, ma.v, mem_ext.v and ram.v:34).    *)
THEOREM PanelImplementsStore ==
  ASSUME Careful, Fields \subseteq 0..3, SRs \subseteq Values PROVE Spec => ImplementsStore
<1>1. Init => ST!Init
  BY SameSets DEF Init, SM!SMInit, FP!FPInit, MA!MAInit, MA!Populated, ST!Init, request, address
<1>2. StoreInv /\ [Next]_vars => [ST!Next]_ST!storeVars
  <2>1. CASE UNCHANGED vars
    BY <2>1 DEF vars, regVars, FP!fpVars, SM!smVars, MA!maVars, ST!storeVars, request, address
  <2> QED BY <2>1, StoreStep
<1> QED BY <1>1, <1>2, StoreInvInit, StoreInvStep, PTL DEF Spec, ImplementsStore, ST!Spec

-----------------------------------------------------------------------------
(* By the first F0 after a key the RAM has read the word at the address    *)
(* the key left, and when the debounce time is over F0 has shown it.       *)
ShowInv ==
  /\ trig_state = "DELAY" /\ state = "F0" /\ eaddr \in DOMAIN memory => mdtmp = memory[eaddr]
  /\ DisplayShowsWord

LEMMA ShowStep ==
  ASSUME Careful, Fields \subseteq 0..3, DmaCells = {}, StoreInv, ShowInv, Next
  PROVE  ShowInv'
<1> USE DEF StoreInv
<1>1. Obey /\ Memory /\ Sequencer
  BY StaysStopped DEF Next
<1>2. data_break # 1 /\ state \notin Breaks
  <2>1. Dma = {}
    BY DEF Dma
  <2> QED BY <2>1 DEF HoldInv
<1>3. DOMAIN memory = MA!Populated /\ memory' \in [MA!Populated -> Word]
  <2>1. Typed'
    BY TypingStep
  <2> QED BY <2>1, SameSets DEF Typed, TypeOK, MA!MATypeOK
<1>4. ASSUME trig_state' \in {"DELAY", "REENABLE"}, state' = "F0" \/ trig_state' = "REENABLE"
      PROVE  trig_state = "DELAY" /\ state \in {"F0", "H3"}
             /\ (trig_state' = "REENABLE" => state = "F0")
  <2>1. /\ trig_state \in {"TRIG3", "DELAY"}
        /\ trig_state' = "REENABLE" => trig_state = "DELAY" /\ fp_cont = 1
    BY <1>1, <1>4 DEF Sequencer, FP!AtLATCH, FP!AtWAIT, FP!AtTRIG1, FP!AtTRIG2, FP!AtTRIG3,
                      FP!AtDELAY, FP!AtREENABLE
  <2>2. triggerd \in {0, 1}
    BY SameSets DEF Typed, TypeOK, FP!FPTypeOK
  <2>3. trig_state # "TRIG3"
    BY <1>4, <2>1, StaysStopped DEF StepInv, Next
  <2>4. triggerd = 1 => state = "H2" /\ fp_cont = 0
    BY <2>1, <2>3 DEF StepInv, CountInv
  <2>5. triggerd = 0
    BY <1>4, <2>1, <2>2, <2>4, StaysStopped DEF Next
  <2> QED BY <1>2, <2>1, <2>3, <2>5 DEF StepInv
<1>5. ASSUME state \in {"F0", "H3"}, eaddr \in DOMAIN memory
      PROVE  mdtmp' = memory[eaddr] /\ memory' = memory /\ eaddr' = eaddr
  <2>1. write_en # 1
    BY <1>2, <1>5 DEF AddressInv, Breaks
  <2>2. MA!RAM /\ eaddr' = eaddr
    BY <1>1, <1>2, <1>5 DEF Memory, MA!MAAtF0, MA!MAIdle
  <2> QED BY <1>3, <1>5, <2>1, <2>2, ReadsTheCell DEF MA!RAM
<1>6. state \in {"F0", "H3"} => eaddr' = eaddr /\ DOMAIN memory' = DOMAIN memory
  BY <1>1, <1>2, <1>3 DEF Memory, MA!MAAtF0, MA!MAIdle
<1>7. state = "F0" => mdout' = mdtmp
  BY <1>1 DEF Memory, MA!MAAtF0
<1> QED BY <1>4, <1>5, <1>6, <1>7 DEF ShowInv, DisplayShowsWord

(* When the sequence of a key is over the panel shows the word at the      *)
(* address the key left, in a memory of up to four fields without data     *)
(* breaks (ma.v's mdout, ram.v's registered output).                       *)
THEOREM PanelShowsTheWord ==
  ASSUME Careful, Fields \subseteq 0..3, DmaCells = {} PROVE Spec => []DisplayShowsWord
<1>1. Init => ShowInv
  BY DEF Init, FP!FPInit, ShowInv, DisplayShowsWord
<1>2. StoreInv /\ ShowInv /\ [Next]_vars => ShowInv'
  <2>1. CASE UNCHANGED vars
    BY <2>1 DEF vars, regVars, FP!fpVars, SM!smVars, MA!maVars, ShowInv, DisplayShowsWord
  <2> QED BY <2>1, ShowStep
<1>3. ShowInv => DisplayShowsWord
  BY DEF ShowInv
<1> QED BY <1>1, <1>2, <1>3, StoreInvInit, StoreInvStep, PTL DEF Spec

-----------------------------------------------------------------------------
(* sw_active is up just in DELAY, and the debounce timer has counted at    *)
(* most one period that began before sw_active rose.                       *)
LightInv ==
  /\ sw_active = 1 <=> trig_state = "DELAY"
  /\ trig_state = "DELAY" => fp_cntr <= elapsed + 1

LedInv == Typed /\ PulseInv /\ CountInv /\ LightInv

LEMMA LightStep ==
  ASSUME ~HoldsKeys, LedInv, Next
  PROVE  LightInv'
<1> USE PanelAssumption, SameSets DEF LedInv, LightInv
<1>1. Sequencer /\ Timer /\ History /\ TimerInv /\ Typed' /\ elapsed \in 0..sw_dbnc
      /\ sw_active \in {0, 1}
  BY TypingStep DEF Next, Typed, TypeOK, FP!FPTypeOK
<1>2. TimerInv'
  BY <1>1 DEF Typed
<1>3. trig_state = "TRIG3" => fp_cntr' <= 1
  BY <1>1, TimerMoves DEF CountInv, Pulsing, TimerInv
<1>4. /\ sw_active' = 1 <=> trig_state' = "DELAY"
      /\ trig_state' = "DELAY" => trig_state \in {"TRIG3", "DELAY"}
  BY <1>1 DEF Sequencer, FP!AtLATCH, FP!AtWAIT, FP!AtTRIG1, FP!AtTRIG2, FP!AtTRIG3, FP!AtDELAY,
              FP!AtREENABLE
<1>5. CASE trig_state = "TRIG3"
  <2>1. elapsed' = 0
    BY <1>1, <1>5 DEF History
  <2> QED BY <1>2, <1>3, <1>4, <1>5, <2>1 DEF TimerInv
<1>6. CASE trig_state = "DELAY"
  <2>1. CASE PC!Divide \/ PC!Fall
    <3>1. fp_cntr' = fp_cntr /\ ~(oneKHz' > oneKHz)
      BY <1>1, <2>1 DEF PC!Divide, PC!Fall, TimerInv
    <3>2. elapsed' = elapsed
      BY <1>1, <1>6, <3>1 DEF History
    <3> QED BY <1>4, <1>6, <3>1, <3>2
  <2>2. CASE PC!Rise
    <3>1. fp_cntr' <= fp_cntr + 1 /\ oneKHz' > oneKHz
      BY <1>1, <2>2 DEF PC!Rise, PC!Debounce, TimerInv
    <3>2. elapsed' = IF elapsed < sw_dbnc THEN elapsed + 1 ELSE elapsed
      BY <1>1, <1>6, <3>1 DEF History
    <3>3. fp_cntr' \in Nat /\ fp_cntr' <= sw_dbnc + 1
      BY <1>2 DEF TimerInv
    <3> QED BY <1>1, <1>4, <1>6, <3>1, <3>2, <3>3 DEF TimerInv
  <2> QED BY <1>1, <2>1, <2>2 DEF Timer, PC!ClockEdge
<1> QED BY <1>4, <1>5, <1>6

(* The run LED of the stopped machine is lit for the whole debounce time   *)
(* after a key, CLEAR and data breaks included, as long as no key is held  *)
(* through it (README; front_panel.v's sw_active, HX_clock.v's fp_cont).   *)
THEOREM LedLitLongEnough ==
  ASSUME ~HoldsKeys PROVE Spec => LedForDebounceTime
<1>1. Init => LedInv
  <2> SUFFICES ASSUME Init PROVE LedInv
    OBVIOUS
  <2>1. Typed
    BY TypingInit
  <2> QED BY <2>1 DEF Init, FP!FPInit, PC!PCInit, PulseInv, Lone, CountInv, Pulsing, LightInv, LedInv
<1>2. LedInv /\ [Next]_vars => LedInv'
  <2> SUFFICES ASSUME LedInv, [Next]_vars PROVE LedInv'
    OBVIOUS
  <2>1. Typed'
    BY TypingStep DEF LedInv
  <2>2. CASE Next
    <3>1. PulseInv' /\ CountInv'
      BY <2>2, PulseStep, CountStep DEF LedInv, Next
    <3> QED BY <2>1, <2>2, <3>1, LightStep DEF LedInv
  <2>3. CASE UNCHANGED vars
    BY <2>1, <2>3 DEF LedInv, PulseInv, CountInv, LightInv, Lone, Pulsing, vars, FP!fpVars,
                      PC!pcVars
  <2> QED BY <2>2, <2>3
<1>3. LedInv /\ [Next]_vars => [sw_active = 1 /\ sw_active' = 0 => elapsed >= sw_dbnc]_vars
  <2> SUFFICES ASSUME LedInv, Next, sw_active = 1, sw_active' = 0 PROVE elapsed >= sw_dbnc
    OBVIOUS
  <2>1. trig_state = "DELAY" /\ fp_cont = 1
    BY DEF LedInv, LightInv, Next, Sequencer, FP!AtLATCH, FP!AtWAIT, FP!AtTRIG1, FP!AtTRIG2,
           FP!AtTRIG3, FP!AtDELAY, FP!AtREENABLE
  <2>2. fp_cntr = sw_dbnc + 1 /\ fp_cntr <= elapsed + 1 /\ elapsed \in Nat
    BY <2>1 DEF LedInv, LightInv, Typed, TimerInv, TypeOK
  <2> QED BY <2>2, PanelAssumption
<1> QED BY <1>1, <1>2, <1>3, PTL DEF Spec, LedForDebounceTime

-----------------------------------------------------------------------------
(* The clocks until the panel sees the debounce time over: whole periods   *)
(* of the 1 kHz clock, and what is left of this one.                       *)
Period == 2 * (oneK_cnt + 1)
ToRise == IF oneKHz = 0 THEN oneK_cntr ELSE oneK_cntr + oneK_cnt + 1
Remaining == IF fp_cont = 1 THEN 0 ELSE (sw_dbnc - fp_cntr) * Period + ToRise + 1

NextOf == [WAIT |-> "TRIG1", TRIG1 |-> "TRIG2", TRIG2 |-> "TRIG3", TRIG3 |-> "DELAY",
           REENABLE |-> "LATCH"]

(* A clock of a key's cycle: one state on, or one clock of DELAY less.     *)
Onward ==
  CASE trig_state \in DOMAIN NextOf -> trig_state' = NextOf[trig_state]
    [] trig_state = "DELAY" /\ Remaining = 0 -> trig_state' = "REENABLE"
    [] trig_state = "DELAY" /\ Remaining # 0
         -> trig_state' = "DELAY" /\ Remaining' = Remaining - 1

EveryClockCounts == [][trig_state # "LATCH" => Onward]_vars

TriggerInv == fp_trigger = 1 <=> trig_state \in {"TRIG3", "DELAY"}

LEMMA TriggerStep == ASSUME Typed, TriggerInv, Sequencer PROVE TriggerInv'
  BY SameSets DEF Typed, TypeOK, FP!FPTypeOK, TriggerInv, Sequencer, FP!AtLATCH, FP!AtWAIT,
     FP!AtTRIG1, FP!AtTRIG2, FP!AtTRIG3, FP!AtDELAY, FP!AtREENABLE

(* Taking one period off a number of them.                                 *)
LEMMA OnePeriodLess ==
  ASSUME NEW n \in Int PROVE (n - 1) * Period = n * Period - Period /\ Period \in Nat \ {0}
<1>1. Period \in Nat \ {0}
  BY PanelAssumption DEF Period
<1> QED BY <1>1

LEMMA RemainingRange ==
  ASSUME TimerInv
  PROVE  /\ Remaining \in Nat /\ Remaining <= (sw_dbnc + 1) * Period
         /\ Remaining = 0 <=> fp_cont = 1
<1> USE PanelAssumption DEF TimerInv
<1>1. ToRise \in 0..(Period - 1) /\ Period \in Nat \ {0}
  BY DEF ToRise, Period
<1>2. (sw_dbnc + 1) * Period \in Nat
  BY <1>1
<1> HIDE DEF Period, ToRise
<1>3. CASE fp_cont = 1
  BY <1>2, <1>3 DEF Remaining
<1>4. CASE fp_cont = 0
  <2> DEFINE n == sw_dbnc - fp_cntr
  <2>1. n \in Nat /\ n <= sw_dbnc
    BY <1>4
  <2>2. n * Period \in Nat
    BY <1>1, <2>1
  <2>3. n * Period <= sw_dbnc * Period
    BY <1>1, <2>1
  <2>4. (sw_dbnc + 1) * Period = sw_dbnc * Period + Period /\ sw_dbnc * Period \in Nat
    BY <1>1
  <2>5. Remaining = n * Period + ToRise + 1
    BY <1>4 DEF Remaining
  <2> HIDE DEF n
  <2> QED BY <1>1, <1>4, <2>2, <2>3, <2>4, <2>5
<1> QED BY <1>3, <1>4

(* The timer on one clock of DELAY.                                        *)
LEMMA RemainingStep ==
  ASSUME TimerInv, Timer, fp_trigger = 1, fp_cont = 0
  PROVE  Remaining' = Remaining - 1
<1> USE PanelAssumption DEF TimerInv
<1>1. TimerInv' /\ Period \in Nat \ {0}
  BY TimerStep DEF Period
<1> DEFINE n == sw_dbnc - fp_cntr
<1>2. n \in Nat /\ n * Period \in Int /\ Remaining = n * Period + ToRise + 1
  <2>1. n \in Nat
    OBVIOUS
  <2>2. n * Period \in Int
    BY <1>1, <2>1
  <2> QED BY <2>1, <2>2 DEF Remaining
<1>3. CASE PC!Divide \/ PC!Fall
  <2>1. fp_cont' = 0 /\ fp_cntr' = fp_cntr
    BY <1>3 DEF PC!Divide, PC!Fall
  <2>2. ToRise' = ToRise - 1 /\ ToRise \in Int
    BY <1>3 DEF PC!Divide, PC!Fall, ToRise
  <2>3. Remaining' = n * Period + ToRise' + 1
    BY <2>1 DEF Remaining, Period
  <2> HIDE DEF n
  <2> QED BY <1>2, <2>2, <2>3
<1>4. CASE PC!Rise
  <2>1. ToRise = 0 /\ ToRise' = Period - 1
    BY <1>4 DEF PC!Rise, ToRise, Period
  <2>2. fp_cntr' = fp_cntr + 1 /\ fp_cont' = IF fp_cntr = sw_dbnc THEN 1 ELSE 0
    BY <1>4 DEF PC!Rise, PC!Debounce
  <2>3. CASE n = 0
    <3>1. fp_cont' = 1
      BY <2>2, <2>3
    <3>2. n * Period = 0
      BY <1>1, <2>3
    <3>3. Remaining' = 0
      BY <3>1 DEF Remaining
    <3> HIDE DEF n
    <3> QED BY <1>2, <2>1, <3>2, <3>3
  <2>4. CASE n # 0
    <3>1. fp_cont' = 0 /\ sw_dbnc - fp_cntr' = n - 1
      BY <2>2, <2>4
    <3>2. Remaining' = (n - 1) * Period + ToRise' + 1
      BY <3>1 DEF Remaining, Period
    <3>3. (n - 1) * Period = n * Period - Period
      BY <1>2, OnePeriodLess
    <3> HIDE DEF n
    <3> QED BY <1>1, <1>2, <2>1, <3>2, <3>3
  <2> QED BY <2>3, <2>4
<1> QED BY <1>3, <1>4 DEF Timer, PC!ClockEdge

(* Whatever the operator and the disk do, and however long a key is held,  *)
(* every clock takes a key's cycle on: the states of the pulse follow each *)
(* other, and DELAY lasts exactly the clocks that Remaining says, at most  *)
(* sw_dbnc + 1 periods of the 1 kHz clock (front_panel.v's DELAY waits for *)
(* fp_cont, which HX_clock.v raises only while it is asked to count).  The *)
(* argument that KeyCycleEnds, a liveness property, rests on.              *)
THEOREM KeyCycleCountsDown ==
  Spec => /\ [](Remaining \in Nat /\ Remaining <= (sw_dbnc + 1) * Period)
          /\ EveryClockCounts
<1>1. Init => TriggerInv
  BY DEF Init, FP!FPInit, TriggerInv
<1>2. Typed /\ TriggerInv /\ [Next]_vars => TriggerInv'
  <2>1. CASE UNCHANGED vars
    BY <2>1 DEF vars, FP!fpVars, TriggerInv
  <2> QED BY <2>1, TriggerStep DEF Next
<1>3. Typed => Remaining \in Nat /\ Remaining <= (sw_dbnc + 1) * Period
  BY RemainingRange DEF Typed
<1>4. Typed /\ TriggerInv /\ [Next]_vars => [trig_state # "LATCH" => Onward]_vars
  <2> SUFFICES ASSUME Typed, TriggerInv, Next, trig_state # "LATCH" PROVE Onward
    OBVIOUS
  <2>1. Sequencer /\ Timer /\ TimerInv
    BY DEF Next, Typed
  <2>2. CASE trig_state = "DELAY"
    <3>1. FP!AtDELAY(fp_cont)
      BY <2>1, <2>2 DEF Sequencer, FP!AtLATCH, FP!AtWAIT, FP!AtTRIG1, FP!AtTRIG2, FP!AtTRIG3,
                        FP!AtREENABLE
    <3>2. fp_trigger = 1 /\ fp_cont \in {0, 1}
      BY <2>1, <2>2 DEF TriggerInv, TimerInv
    <3>3. CASE fp_cont = 1
      BY <2>1, <2>2, <3>1, <3>3, RemainingRange DEF Onward, NextOf, FP!AtDELAY
    <3>4. CASE fp_cont = 0
      <4>1. Remaining # 0 /\ Remaining' = Remaining - 1
        BY <2>1, <3>2, <3>4, RemainingRange, RemainingStep
      <4> QED BY <2>2, <3>1, <3>4, <4>1 DEF Onward, NextOf, FP!AtDELAY
    <3> QED BY <3>2, <3>3, <3>4
  <2>3. CASE trig_state # "DELAY"
    <3>1. trig_state \in {"WAIT", "TRIG1", "TRIG2", "TRIG3", "REENABLE"}
      BY <2>3 DEF Typed, TypeOK, FP!FPTypeOK, FP!TrigStates
    <3>2. trig_state' = NextOf[trig_state]
      BY <2>1, <3>1 DEF NextOf, Sequencer, FP!AtLATCH, FP!AtWAIT, FP!AtTRIG1, FP!AtTRIG2,
                        FP!AtTRIG3, FP!AtDELAY, FP!AtREENABLE
    <3>3. trig_state \in DOMAIN NextOf
      BY <3>1 DEF NextOf
    <3> QED BY <2>3, <3>2, <3>3 DEF Onward
  <2> QED BY <2>2, <2>3
<1> QED BY <1>1, <1>2, <1>3, <1>4, TypingInit, TypingStep, PTL DEF Spec, EveryClockCounts

-----------------------------------------------------------------------------
(* Autostart.  A script is made of the four operations of AS_data, and     *)
(* ends with CONTINUE.                                                     *)
Operations == [op : {"addr_load", "extd_addr", "dep", "cont"}, operand : Word]

Scripted ==
  /\ Script \in Seq(Operations)
  /\ Script # <<>> /\ Script[Len(Script)].op = "cont"

Start == [f |-> 0, w |-> 0]

(* The machine never leaves F0 for a key's cycle, and CONTINUE finds it at *)
(* address 0; without a disk memory is as the reset left it.               *)
NothingPressed ==
  /\ state \in {"F0", "FW"} \cup Breaks
  /\ state = "FW" => eaddr = Start
  /\ ~RK8E => memory = [c \in MA!Populated |-> 0]

(* Memory changes at the end of a disk transfer alone.                     *)
OnlyTransfersStore == [][memory' # memory => state = "DB2"]_bootVars

ScriptInv ==
  /\ trig_state \in {"AS1", "AS2", "AS3", "AS4", "AS5", "AS6"} => data_idx \in DOMAIN Script
  /\ trig_state = "AS0" => data_idx = 1
  /\ "clear" \notin asserted

QuietInv ==
  /\ triggerd = 0 /\ IF_ = 0 /\ pc = 0
  /\ state \in {"F0", "FW"} \cup Breaks
  /\ state # "FW" => run_ff = 0
  /\ state \in {"F0", "FW"} => eaddr = Start
  /\ write_en = 1 => state = "DB2"
  /\ data_break = 1 \/ state \in Breaks => RK8E
  /\ ~RK8E => memory = [c \in MA!Populated |-> 0]

LEMMA BootBegins == ASSUME Scripted, BootInit PROVE ScriptInv /\ QuietInv
  BY DEF Scripted, BootInit, AS!ASInit, SM!SMInit, ME!MEInit, MA!MAInit, ScriptInv, QuietInv,
         Start, Breaks

LEMMA ScriptStep == ASSUME Scripted, ScriptInv, Play PROVE ScriptInv'
<1> USE DEF ScriptInv, AS!GoOn
<1>1. Len(Script) \in Nat /\ DOMAIN Script = 1..Len(Script) /\ 1 \in DOMAIN Script
  BY DEF Scripted
<1>2. CASE \E disk_rdy \in Bit, sw \in SWs : AS!AtAS0(disk_rdy, sw)
  BY <1>1, <1>2 DEF AS!AtAS0
<1>3. CASE AS!AtAS1
  <2>1. data_idx \in DOMAIN Script
    BY <1>3 DEF AS!AtAS1
  <2>2. Script[data_idx] \in Operations
    BY <1>1, <2>1 DEF Scripted
  <2>3. Script[data_idx].op # "clear"
    BY <2>2 DEF Operations
  <2> QED BY <1>3, <2>1, <2>3 DEF AS!AtAS1
<1>4. CASE AS!AtAS2 \/ AS!AtAS3 \/ AS!AtAS4 \/ AS!AtAS7
  BY <1>4 DEF AS!AtAS2, AS!AtAS3, AS!AtAS4, AS!AtAS7
<1>5. CASE AS!AtAS5
  BY <1>5 DEF AS!AtAS5
<1>6. CASE AS!AtAS6
  <2>1. data_idx \in 1..Len(Script)
    BY <1>1, <1>6 DEF AS!AtAS6
  <2>2. data_idx = Len(Script) => trig_state' = "AS7"
    BY <1>6 DEF AS!AtAS6, Scripted
  <2>3. data_idx # Len(Script) => data_idx + 1 \in DOMAIN Script
    <3> DEFINE n == Len(Script)
    <3>1. n \in Nat /\ data_idx \in 1..n /\ DOMAIN Script = 1..n
      BY <1>1, <2>1
    <3> HIDE DEF n
    <3>2. data_idx # n => data_idx + 1 \in 1..n
      BY <3>1
    <3> QED BY <3>1, <3>2 DEF n
  <2>4. trig_state' \in {"AS1", "AS7"} /\ data_idx' = data_idx + 1 /\ asserted' = asserted
    BY <1>6 DEF AS!AtAS6
  <2>5. trig_state' = "AS1" => data_idx' \in DOMAIN Script
    BY <2>2, <2>3, <2>4
  <2> QED BY <2>4, <2>5
<1> QED BY <1>2, <1>3, <1>4, <1>5, <1>6 DEF Play

LEMMA QuietStep == ASSUME ScriptInv, QuietInv, BootNext PROVE QuietInv'
<1> USE DEF QuietInv, Breaks
<1>1. Obey /\ Memory /\ Disk /\ triggerd' = 0 /\ ~Cleared
  BY DEF BootNext, Control, Cleared, ScriptInv, Idle, Play
<1>2. state # "FW" /\ state \in {"F0"} \cup Breaks /\ run_ff = 0
  BY <1>1, Moves
<1>3. CASE state = "F0"
  <2>1. MA!MAAtF0(data_break, dma.cell, dma.data) /\ IF_' = 0
    BY <1>1, <1>3 DEF Memory, Obey, ME!MEKeep, ME!meVars, SM!AtH2
  <2>2. memory' = memory /\ write_en' = 0 /\ pc' = 0
    BY <1>1, <1>3, <2>1, MemoryMoves DEF MA!MAAtF0, Start
  <2>3. CASE data_break = 1
    <3>1. state' = "DB0" /\ run_ff' = 0 /\ RK8E
      BY <1>1, <1>3, <2>3, Moves DEF Obey, SM!AtF0, SM!StartBreak, SM!AtHW, SM!AtH1, SM!AtH2, SM!AtH3, SM!AtDB0,
                        SM!AtDB1, SM!AtDB2
    <3> QED BY <1>1, <2>1, <2>2, <3>1
  <2>4. CASE data_break # 1
    <3>1. state' \in {"F0", "FW"} /\ (state' = "F0" => run_ff' = 0)
      BY <1>1, <1>3, <2>4 DEF Obey, SM!AtF0, SM!Stopped, SM!TakeInterrupt, SM!FetchNext,
                        SM!AtHW, SM!AtH1, SM!AtH2, SM!AtH3, SM!AtDB0, SM!AtDB1, SM!AtDB2
    <3>2. eaddr' = Start
      BY <1>3, <2>1, <2>4 DEF MA!MAAtF0
    <3>3. data_break' = 1 => RK8E
      BY <1>1 DEF Disk, Raise, Withdraw, Quiescent
    <3> QED BY <1>1, <2>1, <2>2, <3>1, <3>2, <3>3
  <2> QED BY <2>3, <2>4
<1>4. CASE state \in Breaks
  <2>1. IF_' = 0 /\ run_ff' = 0 /\ RK8E
    BY <1>1, <1>2, <1>4 DEF Obey, ME!MEKeep, ME!meVars, SM!GoTo, SM!AtF0, SM!AtHW, SM!AtH1,
                     SM!AtH2, SM!AtH3, SM!AtDB0, SM!AtDB1, SM!AtDB2
  <2>2. pc' = 0
    BY <1>1, <1>4 DEF Memory, MA!MAIdle, MA!MAAtDB1, MA!MAAtDB2
  <2>3. /\ state = "DB0" => state' = "DB1" /\ write_en' = 0
        /\ state = "DB1" => state' = "DB2"
        /\ state = "DB2" => state' = "F0" /\ write_en' = 0 /\ eaddr' = Start
    BY <1>1, Moves DEF Memory, MA!MAIdle, MA!MAAtDB2, Start
  <2> QED BY <1>1, <1>4, <2>1, <2>2, <2>3
<1> QED BY <1>2, <1>3, <1>4

(* What a script does when the machine is switched on with SW up, whatever *)
(* its addresses and words are: nothing but CONTINUE.  No operation loads  *)
(* an address or deposits a word, since the machine leaves F0 for a key    *)
(* only on triggerd, which the script never raises (front_panel.v AS1,     *)
(* state_machine.v F0): the machine starts at address 0, with nothing in   *)
(* memory but what the disk put there.                                     *)
THEOREM AutostartOnlyContinues ==
  ASSUME Scripted PROVE BootSpec => []NothingPressed /\ OnlyTransfersStore
<1>1. BootInit => ScriptInv /\ QuietInv
  BY BootBegins
<1>2. ScriptInv /\ QuietInv /\ [BootNext]_bootVars => ScriptInv' /\ QuietInv'
  <2>1. CASE UNCHANGED bootVars
    BY <2>1 DEF bootVars, vars, regVars, FP!fpVars, SM!smVars, MA!maVars, ScriptInv, QuietInv
  <2>2. CASE BootNext
    BY <2>2, ScriptStep, QuietStep DEF BootNext
  <2> QED BY <2>1, <2>2
<1>3. QuietInv => NothingPressed
  BY DEF QuietInv, NothingPressed
<1>4. ScriptInv /\ QuietInv /\ [BootNext]_bootVars
        => [memory' # memory => state = "DB2"]_bootVars
  BY MemoryMoves DEF BootNext, QuietInv
<1> QED BY <1>1, <1>2, <1>3, <1>4, PTL DEF BootSpec, OnlyTransfersStore
====
