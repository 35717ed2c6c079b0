----------------------------- MODULE DiskProofs -----------------------------
(***************************************************************************)
(* Proofs about the disk programs.  First about a dump: no character is    *)
(* loaded in vain, at any speed of processor, disk, transmitter and host,  *)
(* and the characters of a pair of words are the pair again at the other   *)
(* end, for every pair.  Then about a transfer, for blocks of any length   *)
(* and content, any answers of the card and any jobs: what the programs,   *)
(* rk8e.sv and sd.sv know of each other while a block is under way.        *)
(***************************************************************************)
EXTENDS DiskDump, TLAPS

(* The program is a record whose parts a CASE of DumpProgram looks at are  *)
(* among those it knows.                                                   *)
ProgramFields == {"pc", "what", "EXBIT", "TRACK", "CURBUF", "LSTBUF", "READST", "ERRCNT",
                  "CHKSUM", "LOC", "back", "then", "job"}

Recalibrating == {"RC1", "RC2", "RC3", "RC4", "RC5", "RC6", "RC7"}
Reading  == {"RD1", "RD2", "RD3", "RD4", "CK1", "CK2", "CK3"}
Punching == {"TLS", "TSF"}
Writing  == {"W1", "W2", "W3", "W4", "W5", "W6"}
Final    == {"FINISH", "BADSTA", "W-error", "W-finished"}

Whats == {"flag", "low", "mid", "high", "fe", "sum", "sumhigh"}

Shaped(p) == /\ DOMAIN p = ProgramFields
             /\ p.LOC \in Nat /\ p.LOC % 2 = 0

ProgramOK(p) ==
  /\ Shaped(p)
  /\ p.pc \in {"CAF"} \cup Recalibrating \cup Reading \cup Punching \cup Writing \cup Final
  /\ p.pc \in Recalibrating => p.back \in {"DUMP", "CHKRD"}
  /\ p.pc \in {"RD1", "RD2", "RD3", "RD4"} => p.then \in {"DMPLP", "SEND"}
  /\ p.pc \in Punching => /\ p.what \in Whats
                          /\ p.LOC < BLOCK
                          /\ p.then \in {"DMPLP", "LAST"}

-----------------------------------------------------------------------------
(* Each subroutine leaves the program in its own part.                     *)
LEMMA Calls ==
  ASSUME NEW p, Shaped(p)
  PROVE  /\ \A pc \in Final \cup {"CK1", "CK3"} : ProgramOK(GoTo(p, pc))
         /\ \A back \in {"DUMP", "CHKRD"} : ProgramOK(RECAL(p, back))
         /\ \A then \in {"DMPLP", "SEND"} : ProgramOK(READ(p, then))
         /\ \A what \in Whats :
              p.LOC < BLOCK /\ p.then \in {"DMPLP", "LAST"} => ProgramOK(PUN(p, what))
  BY DEF Shaped, ProgramOK, ProgramFields, GoTo, RECAL, READ, PUN, Final, Recalibrating, Reading,
         Punching

(* SEND and OUT start a sector and a pair of words.                        *)
LEMMA Sends ==
  ASSUME NEW p, Shaped(p)
  PROVE  /\ \A then \in {"DMPLP", "LAST"} : ProgramOK(SEND(p, then))
         /\ \A mem : p.LOC < BLOCK /\ p.then \in {"DMPLP", "LAST"} => ProgramOK(OUT(p, mem))
<1>1. ASSUME NEW then \in {"DMPLP", "LAST"} PROVE ProgramOK(SEND(p, then))
  <2> DEFINE q == [p EXCEPT !.LOC = 0, !.then = then]
  <2>1. Shaped(q) /\ q.LOC < BLOCK /\ q.then = then
    BY BlockAssumption DEF Shaped, ProgramFields
  <2> HIDE DEF q
  <2>2. ProgramOK(PUN(q, "flag"))
    BY <2>1, Calls DEF Whats
  <2> QED BY <2>2 DEF SEND, q
<1>2. ASSUME NEW mem, p.LOC < BLOCK, p.then \in {"DMPLP", "LAST"} PROVE ProgramOK(OUT(p, mem))
  <2> DEFINE sum == (p.CHKSUM + mem[p.LSTBUF + p.LOC] + mem[p.LSTBUF + p.LOC + 1]) % 4096
             q == [p EXCEPT !.CHKSUM = sum]
  <2>1. Shaped(q) /\ q.LOC = p.LOC /\ q.then = p.then
    BY DEF Shaped, ProgramFields
  <2>2. OUT(p, mem) = PUN(q, "low")
    BY DEF OUT, Shaped, ProgramFields
  <2> HIDE DEF q
  <2> QED BY <2>1, <2>2, <1>2, Calls DEF Whats
<1> QED BY <1>1, <1>2

(* A full buffer is sent, or sent while the next is read.                  *)
LEMMA FilledOK == ASSUME NEW p, Shaped(p) PROVE ProgramOK(Filled(p))
<1> DEFINE q == [p EXCEPT !.LSTBUF = p.CURBUF, !.ERRCNT = Negated(RETCNT + 1)]
           r == INCTRK(q)
           s == [r EXCEPT !.CURBUF = OtherBuffer(@)]
<1>1. Shaped(q)
  BY DEF Shaped, ProgramFields
<1>2. Shaped(r)
  <2> HIDE DEF q
  <2> QED BY <1>1 DEF Shaped, ProgramFields, INCTRK
<1>3. Shaped(s)
  <2> HIDE DEF r
  <2> QED BY <1>2 DEF Shaped, ProgramFields
<1>4. Filled(p) = IF LastTrack(p) THEN SEND(q, "LAST") ELSE READ(s, "SEND")
  BY DEF Filled
<1> HIDE DEF q, s
<1>5. ProgramOK(SEND(q, "LAST"))
  BY <1>1, Sends
<1>6. ProgramOK(READ(s, "SEND"))
  BY <1>3, Calls
<1> QED BY <1>4, <1>5, <1>6

(* A failed read is tried again or given up; a recalibration goes back to  *)
(* where it was called.                                                    *)
LEMMA RetriesOK ==
  ASSUME NEW p, Shaped(p)
  PROVE  /\ ProgramOK(ERROR(p))
         /\ p.back \in {"DUMP", "CHKRD"} => ProgramOK(Recalibrated(p))
<1>1. ProgramOK(ERROR(p))
  <2> DEFINE q == [p EXCEPT !.ERRCNT = (p.ERRCNT + 1) % 4096]
  <2>1. Shaped(q)
    BY DEF Shaped, ProgramFields
  <2>2. ERROR(p) = IF q.ERRCNT = 0 THEN GoTo(q, "CK3") ELSE RECAL(q, "DUMP")
    BY DEF ERROR
  <2> HIDE DEF q
  <2> QED BY <2>1, <2>2, Calls
<1>2. CASE p.back = "DUMP"
  BY <1>2, <1>1, Calls DEF Recalibrated
<1>3. CASE p.back = "CHKRD"
  <2> DEFINE q == [p EXCEPT !.READST = 253]
  <2>1. Shaped(q)
    BY DEF Shaped, ProgramFields
  <2>2. Recalibrated(p) = Filled(q)
    BY <1>3 DEF Recalibrated
  <2> HIDE DEF q
  <2> QED BY <2>1, <2>2, <1>1, FilledOK
<1> QED BY <1>1, <1>2, <1>3

(* After a character comes the next of its sector; BLOCK is even, so the   *)
(* count of words meets it.                                                *)
LEMMA SentOK ==
  ASSUME NEW p, NEW mem, ProgramOK(p), p.pc = "TSF"
  PROVE  ProgramOK(Sent(p, mem))
<1>1. Shaped(p) /\ p.what \in Whats /\ p.LOC < BLOCK /\ p.then \in {"DMPLP", "LAST"}
  BY DEF ProgramOK, Punching
<1>2. CASE p.what = "flag"
  BY <1>1, <1>2, Sends DEF Sent
<1>3. CASE p.what \in {"low", "mid", "fe", "sum", "sumhigh"}
  BY <1>1, <1>3, Calls DEF Sent, Whats, Final
<1>4. CASE p.what = "high"
  <2>1. p.LOC + 2 < BLOCK \/ p.LOC + 2 = BLOCK
    BY <1>1, BlockAssumption DEF Shaped
  <2>2. CASE p.LOC + 2 < BLOCK
    <3> DEFINE q == [p EXCEPT !.LOC = @ + 2]
    <3>1. Shaped(q) /\ q.LOC < BLOCK /\ q.then = p.then
      BY <1>1, <2>2 DEF Shaped, ProgramFields
    <3>2. p.LOC + 2 # BLOCK
      BY <1>1, <2>2, BlockAssumption DEF Shaped
    <3>3. Sent(p, mem) = OUT(q, mem)
      <4> HIDE DEF q
      <4> SUFFICES Sent(p, mem) = OUT([p EXCEPT !.LOC = @ + 2], mem)
        BY DEF q
      <4> QED BY <1>4, <2>2, <3>2, Zenon DEF Sent
    <3> HIDE DEF q
    <3> QED BY <1>1, <3>1, <3>3, Sends
  <2>3. CASE p.LOC + 2 = BLOCK
    <3>1. ~(p.LOC + 2 < BLOCK)
      BY <1>1, <2>3, BlockAssumption DEF Shaped
    <3>2. Sent(p, mem) = IF p.then = "DMPLP" THEN GoTo(p, "CK1") ELSE PUN(p, "fe")
      BY <1>1, <1>4, <2>3, <3>1 DEF Sent
    <3> QED BY <1>1, <3>2, Calls DEF Whats
  <2> QED BY <2>1, <2>2, <2>3
<1> QED BY <1>1, <1>2, <1>3, <1>4 DEF Whats

(* From one IOT to the next the program keeps its shape.                   *)
LEMMA AdvanceOK ==
  ASSUME NEW p, NEW skip, NEW disk_bus, NEW mem,
         ProgramOK(p), ~Halted(p), p.pc = "TSF" => skip \in {0, 1}
  PROVE  ProgramOK(Advance(p, skip, disk_bus, mem))
<1> DEFINE next == Advance(p, skip, disk_bus, mem)
           Waits == p.pc \in {"RC4", "RC6", "CK1", "W5", "TSF"} /\ skip = 0
<1>1. Shaped(p)
  BY DEF ProgramOK
<1>2. CASE Waits
  <2>1. next = p
    BY <1>2 DEF Advance
  <2> QED BY <2>1
<1>3. CASE p.pc = "CAF"
  <2> DEFINE q == [p EXCEPT !.ERRCNT = Negated(RETCNT + 1)]
  <2>1. Shaped(q)
    BY <1>1 DEF Shaped, ProgramFields
  <2>2. next = RECAL(q, "DUMP")
    BY <1>3 DEF Advance
  <2> HIDE DEF q
  <2> QED BY <2>1, <2>2, Calls
<1>4. CASE p.pc = "RC7"
  <2>1. next = IF disk_bus = {"done"} THEN Recalibrated(p) ELSE GoTo(p, "BADSTA")
    BY <1>4 DEF Advance
  <2>2. p.back \in {"DUMP", "CHKRD"}
    BY <1>4 DEF ProgramOK, Recalibrating
  <2> QED BY <1>1, <2>1, <2>2, Calls, RetriesOK DEF Final
<1>5. CASE p.pc = "RD4"
  <2>1. next = IF p.then = "SEND" THEN SEND(p, "DMPLP") ELSE GoTo(p, "CK1")
    BY <1>5 DEF Advance
  <2> QED BY <1>1, <2>1, Calls, Sends DEF Final
<1>6. CASE p.pc = "CK2"
  <2> DEFINE q == [p EXCEPT !.READST = 255]
  <2>1. Shaped(q)
    BY <1>1 DEF Shaped, ProgramFields
  <2>2. next = IF disk_bus = {"done"} THEN Filled(q) ELSE ERROR(q)
    BY <1>6 DEF Advance
  <2> HIDE DEF q
  <2> QED BY <2>1, <2>2, FilledOK, RetriesOK
<1>7. CASE p.pc = "CK3"
  <2>1. next = RECAL(p, "CHKRD")
    BY <1>7 DEF Advance
  <2> QED BY <1>1, <2>1, Calls
<1>8. CASE p.pc = "TLS"
  <2>1. next = GoTo(p, "TSF")
    BY <1>8 DEF Advance
  <2> QED BY <1>1, <1>8, <2>1 DEF ProgramOK, GoTo, Shaped, ProgramFields, Punching,
                                 Recalibrating
<1>9. CASE p.pc = "TSF" /\ ~Waits
  <2>1. next = Sent(p, mem)
    BY <1>9 DEF Advance
  <2> QED BY <1>9, <2>1, SentOK
<1>10. CASE p.pc = "W6"
  <2>1. next = GoTo(p, IF disk_bus = {"done"} THEN "W-finished" ELSE "W-error")
    BY <1>10 DEF Advance
  <2> QED BY <1>1, <2>1, Calls DEF Final
<1>11. CASE /\ ~Waits
            /\ p.pc \in DOMAIN Sequence \ {"CAF"}
  <2>1. next = GoTo(p, Sequence[p.pc])
    BY <1>11 DEF Advance, Sequence
  <2> QED BY <1>1, <1>11, <2>1
          DEF Sequence, ProgramOK, GoTo, Shaped, ProgramFields, Punching, Recalibrating,
              Reading, Writing
<1> QED BY <1>2, <1>3, <1>4, <1>5, <1>6, <1>7, <1>8, <1>9, <1>10, <1>11
        DEF ProgramOK, Halted, Recalibrating, Reading, Punching, Writing, Final, Sequence

-----------------------------------------------------------------------------
(* The flag is up only while a character would be taken; one that waits    *)
(* holds it down.                                                          *)
TransmitterOK ==
  /\ DOMAIN tx = {"state", "loaded", "flag", "tto", "skip"}
  /\ tx.state \in {"IDLE", "SENDING", "STOP"}
  /\ tx.loaded \in {0, 1} /\ tx.flag \in {0, 1} /\ tx.skip \in {0, 1}
  /\ tx.flag = 1 => Accepts
  /\ tx.loaded = 1 => tx.state # "SENDING"

ProcessorOK ==
  /\ DOMAIN cpu = {"state", "eaddr", "mdin", "write_en"}
  /\ cpu.state \in {"F0", "F1", "F3", "DB0", "DB1", "DB2"}
  /\ cpu.state \in {"F1", "F3"} => ~Halted(prog)

(* Only from TLS to the end of TSF may the transmitter be busy; and a skip *)
(* that TSF has been given still holds when it is taken.                   *)
Ready ==
  /\ prog.pc # "TSF" /\ ~(prog.pc = "TLS" /\ cpu.state = "F3") => Accepts
  /\ prog.pc = "TSF" /\ cpu.state = "F3" /\ tx.skip = 1 => Accepts

DumpInv == ProgramOK(prog) /\ TransmitterOK /\ ProcessorOK /\ Ready /\ NothingDropped

LEMMA DumpInit == Init => DumpInv
<1> SUFFICES ASSUME Init PROVE DumpInv
  OBVIOUS
<1>1. ProgramOK(Dump) /\ Dump.pc = "CAF"
  BY DEF ProgramOK, Shaped, ProgramFields, Dump, Recalibrating, Reading, Punching
<1>2. ASSUME NEW job PROVE ProgramOK(WriteSector(job)) /\ WriteSector(job).pc = "W1"
  BY <1>1 DEF ProgramOK, Shaped, ProgramFields, WriteSector, Recalibrating, Reading, Punching,
              Writing
<1>3. ProgramOK(prog) /\ prog.pc \in {"CAF", "W1"}
  BY <1>1, <1>2 DEF Init
<1>4. Accepts /\ TransmitterOK
  BY DEF Init, TXIdle, Accepts, TransmitterOK
<1>5. ProcessorOK /\ cpu.state = "F0"
  BY DEF Init, ProcessorOK
<1> QED BY <1>3, <1>4, <1>5 DEF DumpInv, Ready, NothingDropped, Init

(* The program's IOTs are the transmitter's exactly at TLS and TSF.        *)
LEMMA SerialIOTs ==
  ASSUME ProgramOK(prog), ~Halted(prog)
  PROVE  /\ IOTOf(prog) = "TLS" <=> prog.pc = "TLS"
         /\ IOTOf(prog) = "TSF" <=> prog.pc = "TSF"
  BY DEF ProgramOK, Halted, IOTOf, Recalibrating, Reading, Punching, Writing, Final

(* F1: the transmitter obeys.  TLS finds it ready.                         *)
LEMMA ObeyedInF1 ==
  ASSUME DumpInv, CPUAtF1, SerialIOT(IOTOf(prog), ACOf(prog, memory))
  PROVE  DumpInv'
<1> DEFINE iot == IOTOf(prog)
           char == ACOf(prog, memory)
<1>1. ProgramOK(prog)' /\ ProcessorOK' /\ cpu'.state = "F3"
  BY DEF DumpInv, CPUAtF1, RunsIOT, ProcessorOK
<1>2. ~Halted(prog)
  BY DEF DumpInv, CPUAtF1, RunsIOT, ProcessorOK
<1>3. iot = "TLS" => Accepts
  BY <1>2, SerialIOTs DEF DumpInv, Ready, CPUAtF1, RunsIOT
<1>4. UNCHANGED prog /\ cpu.state = "F1"
  BY DEF CPUAtF1, RunsIOT
<1> HIDE DEF iot, char
<1>5. SerialIOT(iot, char)
  BY DEF iot, char
<1>6. TransmitterOK' /\ NothingDropped'
  BY <1>3, <1>5 DEF SerialIOT, TransmitterOK, NothingDropped, Accepts, DumpInv
<1>7. Ready'
  <2>1. CASE iot = "TLS"
    BY <1>1, <1>2, <1>4, <2>1, SerialIOTs DEF Ready, iot, DumpInv
  <2>2. CASE iot = "TSF"
    BY <1>1, <1>2, <1>4, <1>5, <2>2, SerialIOTs
       DEF Ready, SerialIOT, TransmitterOK, Accepts, iot, DumpInv
  <2>3. CASE iot \notin {"TLS", "TSF"}
    <3>1. Accepts
      BY <1>2, <1>4, <2>3, SerialIOTs DEF Ready, iot, DumpInv
    <3>2. Accepts'
      BY <3>1, <1>5, <2>3 DEF SerialIOT, TransmitterOK, Accepts, DumpInv
    <3>3. prog.pc # "TSF"
      BY <1>2, <2>3, SerialIOTs DEF iot, DumpInv
    <3> QED BY <3>2, <3>3, <1>4 DEF Ready
  <2> QED BY <2>1, <2>2, <2>3
<1> QED BY <1>1, <1>6, <1>7 DEF DumpInv

(* F3: the program goes on to its next IOT, from TSF only with the flag.   *)
LEMMA AdvancedInF3 ==
  ASSUME DumpInv, CPUAtF3, UNCHANGED <<tx, dropped>>
  PROVE  DumpInv'
<1> DEFINE skip == IF prog.pc = "TSF" THEN tx.skip ELSE rk.skip
<1>1. ProgramOK(prog) /\ ~Halted(prog) /\ cpu.state = "F3"
  BY DEF DumpInv, CPUAtF3, ProcessorOK
<1>2. prog' = Advance(prog, skip, rk.disk_bus, memory)
  BY DEF CPUAtF3
<1>3. prog.pc = "TSF" => skip = tx.skip /\ tx.skip \in {0, 1}
  BY DEF DumpInv, TransmitterOK
<1> HIDE DEF skip
<1>4. ProgramOK(prog)'
  BY <1>1, <1>2, <1>3, AdvanceOK
<1>5. ProcessorOK' /\ cpu'.state = "F0"
  BY DEF DumpInv, CPUAtF3, ProcessorOK
<1>6. TransmitterOK' /\ NothingDropped' /\ (Accepts => Accepts')
  BY DEF DumpInv, TransmitterOK, NothingDropped, Accepts
<1>7. prog'.pc # "TSF" => Accepts'
  <2>1. CASE prog.pc = "TLS"
    <3>1. prog' = GoTo(prog, "TSF")
      BY <1>2, <2>1 DEF Advance
    <3>2. prog'.pc = "TSF"
      BY <1>1, <3>1 DEF GoTo, ProgramOK, Shaped, ProgramFields
    <3> QED BY <3>2
  <2>2. CASE prog.pc = "TSF" /\ skip = 0
    BY <1>2, <2>2 DEF Advance
  <2>3. CASE prog.pc = "TSF" /\ skip # 0
    BY <1>1, <1>3, <1>6, <2>3 DEF DumpInv, Ready
  <2>4. CASE prog.pc \notin Punching
    BY <1>6, <2>4 DEF DumpInv, Ready, Punching
  <2> QED BY <2>1, <2>2, <2>3, <2>4 DEF Punching
<1> QED BY <1>4, <1>5, <1>6, <1>7 DEF DumpInv, Ready

(* Between its characters the transmitter raises the flag when it would    *)
(* take the next, and finishes without losing the one that waits.          *)
LEMMA Transmitted == ASSUME DumpInv, Transmit PROVE DumpInv'
<1>1. TransmitterOK' /\ (Accepts => Accepts') /\ tx'.skip = tx.skip /\ UNCHANGED dropped
  <2>1. CASE Start
    BY <2>1 DEF Start, DumpInv, TransmitterOK, Accepts
  <2>2. CASE Send
    BY <2>2 DEF Send, DumpInv, TransmitterOK, Accepts
  <2>3. CASE Stop
    BY <2>3 DEF Stop, DumpInv, TransmitterOK, Accepts
  <2> QED BY <2>1, <2>2, <2>3 DEF Transmit
<1>2. UNCHANGED <<cpu, prog>>
  BY DEF Transmit
<1> QED BY <1>1, <1>2 DEF DumpInv, ProcessorOK, Ready, NothingDropped

LEMMA DumpStep == ASSUME DumpInv, [Next]_vars PROVE DumpInv'
<1>1. ASSUME NEW spiDONE, NEW spiRXD, Edge(spiDONE, spiRXD) PROVE DumpInv'
  <2>1. CASE CPUAtF1
    BY <1>1, <2>1, ObeyedInF1 DEF Edge, CPUAtF1
  <2>2. CASE CPUAtF3
    <3>1. UNCHANGED <<tx, dropped>>
      BY <1>1, <2>2 DEF Edge, CPUAtF3, RunsIOT
    <3> QED BY <2>2, <3>1, AdvancedInF3
  <2>3. CASE CPUAtF0 \/ CPUAtDB0 \/ CPUAtDB1 \/ CPUAtDB2
    <3>1. UNCHANGED <<tx, dropped, prog>> /\ cpu.state \notin {"F1", "F3"}
      BY <1>1, <2>3 DEF Edge, RunsIOT, CPUAtF0, CPUAtDB0, CPUAtDB1, CPUAtDB2
    <3>2. ProcessorOK' /\ cpu'.state # "F3"
      BY <2>3 DEF DumpInv, ProcessorOK, CPUAtF0, CPUAtDB0, CPUAtDB1, CPUAtDB2
    <3> QED BY <3>1, <3>2 DEF DumpInv, TransmitterOK, Ready, NothingDropped, Accepts
  <2> QED BY <1>1, <2>1, <2>2, <2>3 DEF Edge, CPUEdge
<1>2. CASE Clock \/ ByteExchanged
  BY <1>1, <1>2 DEF Clock, ByteExchanged
<1>3. CASE Transmit
  BY <1>3, Transmitted
<1>4. CASE Arrive \/ UNCHANGED vars
  <2>1. UNCHANGED <<tx, dropped, cpu, prog>>
    BY <1>4 DEF Arrive, vars
  <2> QED BY <2>1 DEF DumpInv, TransmitterOK, ProcessorOK, Ready, NothingDropped, Accepts
<1> QED BY <1>2, <1>3, <1>4 DEF Next

(* No character is loaded in vain: dumprk05.pal's TSF loop keeps the       *)
(* processor from a transmitter that would not take the next (tx.v:43),    *)
(* however fast either is, and whatever disk and card do meanwhile.        *)
THEOREM EveryCharacterTaken == Spec => []NothingDropped
<1>1. DumpInv => NothingDropped
  BY DEF DumpInv
<1> QED BY <1>1, DumpInit, DumpStep, PTL DEF Spec

-----------------------------------------------------------------------------
(* Words and bytes are opaque sets below: only that their elements are     *)
(* numbers, and how large, is used.                                        *)
LEMMA WordsAreNumbers == ASSUME NEW w \in Word PROVE w \in Nat /\ w % 4096 = w
  BY DEF Word

LEMMA Negation ==
  ASSUME NEW c \in Word
  PROVE  Negated(c) \in Word /\ (Negated(c) + c = 0 \/ Negated(c) + c = 4096)
<1>1. CASE c = 0
  BY <1>1 DEF Negated, Word
<1>2. CASE c # 0
  <2>1. (4096 - c) % 4096 = 4096 - c
    BY <1>2 DEF Word
  <2> QED BY <1>2, <2>1 DEF Negated, Word
<1> QED BY <1>1, <1>2

LEMMA SumIsZero ==
  ASSUME NEW c \in Word, NEW s \in Nat, NEW r \in Nat, s + c = 0 \/ s + c = 4096
  PROVE  (s + r) % 4096 = 0 <=> r % 4096 = c
<1>1. CASE s + c = 0
  BY <1>1 DEF Word
<1>2. CASE s + c = 4096
  BY <1>2 DEF Word
<1> QED BY <1>1, <1>2

(* The three characters of a pair of words fit the line, and hold both.    *)
LEMMA Packing ==
  ASSUME NEW a \in Word, NEW b \in Word
  PROVE  /\ Low(a) \in Octet /\ Mid(a, b) \in Octet /\ High(b) \in Octet
         /\ (Low(a) + 256 * Mid(a, b)) % 4096 = a
         /\ Low(a) + 256 * (Mid(a, b) % 16) = a
         /\ (Mid(a, b) \div 16) + 16 * High(b) = b
<1>1. PICK high \in 0..15, low \in 0..255 :
        /\ a = 256 * high + low /\ a \div 256 = high /\ a % 256 = low
  <2>1. a \div 256 \in 0..15 /\ a = 256 * (a \div 256) + (a % 256)
    BY DEF Word
  <2>2. a % 256 \in 0..255
    BY DEF Word
  <2> USE <2>1, <2>2
  <2>3. WITNESS a \div 256 \in 0..15, a % 256 \in 0..255
  <2> QED BY <2>1
<1>2. PICK rest \in 0..255, four \in 0..15 :
        /\ b = 16 * rest + four /\ b \div 16 = rest /\ b % 16 = four
  <2>1. b \div 16 \in 0..255 /\ b = 16 * (b \div 16) + (b % 16)
    BY DEF Word
  <2>2. b % 16 \in 0..15
    BY DEF Word
  <2> USE <2>1, <2>2
  <2>3. WITNESS b \div 16 \in 0..255, b % 16 \in 0..15
  <2> QED BY <2>1
<1>3. Low(a) = low /\ Mid(a, b) = high + 16 * four /\ High(b) = rest
  BY <1>1, <1>2 DEF Low, Mid, High
<1>4. PICK mid \in 0..255 : mid = high + 16 * four
  OBVIOUS
<1>5. mid % 16 = high /\ mid \div 16 = four
  BY <1>4
<1>6. (low + 256 * mid) % 4096 = a
  <2>1. low + 256 * mid = a + 4096 * four
    BY <1>1, <1>4
  <2>2. (a + 4096 * four) % 4096 = a % 4096
    <3>1. a \in Nat /\ four \in Nat
      BY WordsAreNumbers
    <3> QED BY <3>1
  <2> QED BY <2>1, <2>2, WordsAreNumbers
<1>7. low + 256 * (mid % 16) = a /\ (mid \div 16) + 16 * rest = b
  BY <1>1, <1>2, <1>5
<1>8. Low(a) = low /\ Mid(a, b) = mid /\ High(b) = rest
  BY <1>3, <1>4
<1>9. low \in Octet /\ mid \in Octet /\ rest \in Octet
  BY DEF Octet
<1> QED BY <1>6, <1>7, <1>8, <1>9

ReceiverFields == {"count", "byte", "temp", "chksum", "sect", "out", "bad", "ended"}
ConverterFields == {"state", "temp1", "temp2", "printed", "ended"}

(* Whatever two words OUT sends (dumprk05.pal:204), dumprk05.c writes the  *)
(* same two, adds both to its checksum and is ready for the next pair or,  *)
(* after SECTOR words, for the next flag.                                  *)
THEOREM PairWritten ==
  ASSUME NEW a \in Word, NEW b \in Word,
         NEW r, DOMAIN r = ReceiverFields, r.count \in Nat, r.byte = 0, r.chksum \in Nat
  PROVE  LET q == Received(Received(Received(r, Low(a)), Mid(a, b)), High(b))
         IN /\ q.out = Append(Append(r.out, a), b)
            /\ q.chksum = r.chksum + a + b
            /\ q.byte = 0 /\ q.ended = r.ended
            /\ q.count = IF r.count + 2 = SECTOR THEN -1 ELSE r.count + 2
<1> DEFINE c1 == Low(a)
           c2 == Mid(a, b)
           c3 == High(b)
           r1 == Received(r, c1)
           r2 == Received(r1, c2)
           r3 == Received(r2, c3)
           w == [Written(r2, b) EXCEPT !.byte = 0, !.count = @ + 2]
<1>1. /\ c1 \in Octet /\ c2 \in Octet /\ c3 \in Octet
      /\ (c1 + 256 * c2) % 4096 = a /\ (c2 \div 16) + 16 * c3 = b
  BY Packing
<1> HIDE DEF c1, c2, c3
<1>2. /\ DOMAIN r1 = ReceiverFields /\ r1.count = r.count /\ r1.ended = r.ended
      /\ r1.byte = 1 /\ r1.temp = c1 /\ r1.out = r.out /\ r1.chksum = r.chksum
  BY DEF Received, Data, ReceiverFields
<1> HIDE DEF r1
<1>3. r2 = [Written(r1, a) EXCEPT !.temp = c2 \div 16, !.byte = 2]
  <2> DEFINE W(x) == [Written(r1, x) EXCEPT !.temp = c2 \div 16, !.byte = 2]
  <2>1. r2 = Data(r1, c2)
    BY <1>2 DEF Received
  <2>2. Data(r1, c2) = W((r1.temp + 256 * c2) % 4096)
    BY <1>2 DEF Data
  <2>3. (r1.temp + 256 * c2) % 4096 = a
    BY <1>1, <1>2
  <2>4. r2 = W(a)
    <3> HIDE DEF W, r2
    <3> QED BY <2>1, <2>2, <2>3
  <2> QED BY <2>4
<1>4. /\ DOMAIN r2 = ReceiverFields /\ r2.count = r.count /\ r2.ended = r.ended
      /\ r2.byte = 2 /\ r2.temp = c2 \div 16
      /\ r2.out = Append(r.out, a) /\ r2.chksum = r.chksum + a
  <2> HIDE DEF r2
  <2> QED BY <1>2, <1>3 DEF Written, ReceiverFields
<1> HIDE DEF r2
<1>5. r3 = IF w.count = SECTOR THEN [w EXCEPT !.count = -1, !.sect = @ + 1] ELSE w
  <2>1. r3 = Third(r2, c3)
    BY <1>4 DEF Received, Data
  <2>2. r2.temp + 16 * c3 = b
    BY <1>1, <1>4
  <2> QED BY <2>1, <2>2 DEF Third
<1>6. /\ DOMAIN w = ReceiverFields /\ w.ended = r.ended /\ w.byte = 0
      /\ w.out = Append(Append(r.out, a), b) /\ w.chksum = r.chksum + a + b
      /\ w.count = r.count + 2
  BY <1>4 DEF Written, ReceiverFields
<1> HIDE DEF w, r3
<1>7. /\ r3.out = Append(Append(r.out, a), b) /\ r3.chksum = r.chksum + a + b
      /\ r3.byte = 0 /\ r3.ended = r.ended
      /\ r3.count = IF r.count + 2 = SECTOR THEN -1 ELSE r.count + 2
  BY <1>5, <1>6 DEF ReceiverFields
<1> QED BY <1>7 DEF r3, r2, r1, c1, c2, c3

(* hex2oct -3 prints the same two words (hex2oct.c), and looks for a flag  *)
(* when their number says so.                                              *)
THEOREM PairPrinted ==
  ASSUME NEW a \in Word, NEW b \in Word,
         NEW h, DOMAIN h = ConverterFields, h.state = 1
  PROVE  LET q == Converted(Converted(Converted(h, Low(a)), Mid(a, b)), High(b))
         IN /\ q.printed = Append(Append(h.printed, a), b)
            /\ q.state = IF Len(q.printed) % SECTOR = 0 THEN 0 ELSE 1
            /\ q.ended = h.ended
<1> DEFINE c1 == Low(a)
           c2 == Mid(a, b)
           c3 == High(b)
           h1 == Converted(h, c1)
           h2 == Converted(h1, c2)
           h3 == Converted(h2, c3)
<1>1. /\ c1 \in Octet /\ c2 \in Octet /\ c3 \in Octet
      /\ c1 + 256 * (c2 % 16) = a /\ (c2 \div 16) + 16 * c3 = b
  BY Packing
<1> HIDE DEF c1, c2, c3
<1>2. h1 = [h EXCEPT !.state = 2, !.temp1 = c1]
  BY DEF Converted
<1>3. /\ DOMAIN h1 = ConverterFields /\ h1.state = 2 /\ h1.temp1 = c1
      /\ h1.printed = h.printed /\ h1.ended = h.ended
  <2> HIDE DEF h1
  <2> QED BY <1>2 DEF ConverterFields
<1> HIDE DEF h1
<1>4. h2 = [h1 EXCEPT !.state = 3, !.temp2 = c2 \div 16, !.printed = Append(@, a)]
  <2>1. h2 = [h1 EXCEPT !.state = 3, !.temp2 = c2 \div 16,
                        !.printed = Append(@, h1.temp1 + 256 * (c2 % 16))]
    BY <1>3 DEF Converted
  <2>2. h1.temp1 + 256 * (c2 % 16) = a
    BY <1>1, <1>3
  <2> QED BY <2>1, <2>2
<1>5. /\ DOMAIN h2 = ConverterFields /\ h2.state = 3 /\ h2.temp2 = c2 \div 16
      /\ h2.printed = Append(h.printed, a) /\ h2.ended = h.ended
  <2> HIDE DEF h2
  <2> QED BY <1>3, <1>4 DEF ConverterFields
<1> HIDE DEF h2
<1>6. h3 = [h2 EXCEPT !.printed = Append(h2.printed, b),
                      !.state = IF Len(Append(h2.printed, b)) % SECTOR = 0 THEN 0 ELSE 1]
  <2> DEFINE P(x) == [h2 EXCEPT !.printed = Append(h2.printed, x),
                        !.state = IF Len(Append(h2.printed, x)) % SECTOR = 0 THEN 0 ELSE 1]
  <2>1. ((c2 \div 16) + 16 * c3) % 4096 = b
    BY <1>1, WordsAreNumbers DEF Octet
  <2>2. (h2.temp2 + 16 * c3) % 4096 = b
    BY <1>5, <2>1
  <2>3. h3 = P((h2.temp2 + 16 * c3) % 4096)
    BY <1>5 DEF Converted
  <2>4. h3 = P(b)
    <3> HIDE DEF P, h3
    <3> QED BY <2>2, <2>3
  <2> QED BY <2>4
<1> HIDE DEF h3
<1>7. /\ h3.printed = Append(Append(h.printed, a), b) /\ h3.ended = h.ended
      /\ h3.state = IF Len(h3.printed) % SECTOR = 0 THEN 0 ELSE 1
  BY <1>5, <1>6 DEF ConverterFields
<1> QED BY <1>7 DEF h3, h2, h1, c1, c2, c3

(* The trailer's two characters, the negated checksum of dumprk05.pal, let *)
(* dumprk05.c say Done exactly when its own sum of the words is the same.  *)
THEOREM ChecksumDecides ==
  ASSUME NEW c \in Word,
         NEW r, DOMAIN r = ReceiverFields, r.count = -2, r.byte = 0, r.chksum \in Nat
  PROVE  LET q == Received(Received(r, Low(Negated(c))), Negated(c) \div 256)
         IN q.ended = IF r.chksum % 4096 = c THEN "Done" ELSE "mismatch"
<1> DEFINE sum == Negated(c)
           low == Low(sum)
           high == sum \div 256
           r1 == Received(r, low)
<1>1. sum \in Nat /\ (sum + c = 0 \/ sum + c = 4096)
  <2>1. Negated(c) \in Word /\ (Negated(c) + c = 0 \/ Negated(c) + c = 4096)
    BY Negation
  <2>2. Negated(c) \in Nat
    BY <2>1, WordsAreNumbers
  <2> QED BY <2>1, <2>2
<1> HIDE DEF sum
<1>2. low + 256 * high = sum /\ low \in Nat /\ high \in Nat
  BY <1>1 DEF Low
<1> HIDE DEF low, high
<1>3. /\ DOMAIN r1 = ReceiverFields /\ r1.count = -2 /\ r1.byte = 1
      /\ r1.temp = low /\ r1.chksum = r.chksum
  <2>1. r1 = Trailer(r, low)
    BY DEF Received
  <2>2. r1 = [r EXCEPT !.temp = low, !.byte = 1]
    BY <2>1 DEF Trailer
  <2> HIDE DEF r1
  <2> QED BY <2>2 DEF ReceiverFields
<1> HIDE DEF r1
<1>4. (sum + r.chksum) % 4096 = 0 <=> r.chksum % 4096 = c
  BY <1>1, SumIsZero
<1>5. Received(r1, high) =
        [r1 EXCEPT !.ended = IF (r1.temp + 256 * high + r1.chksum) % 4096 = 0
                             THEN "Done" ELSE "mismatch"]
  <2>1. Received(r1, high) = Trailer(r1, high)
    BY <1>3 DEF Received
  <2>2. r1.byte # 0
    BY <1>3
  <2> QED BY <2>1, <2>2, Zenon DEF Trailer
<1>6. (r1.temp + 256 * high + r1.chksum) % 4096 = 0 <=> r.chksum % 4096 = c
  <2>1. r1.temp + 256 * high + r1.chksum = sum + r.chksum
    BY <1>2, <1>3
  <2> QED BY <1>4, <2>1
<1>7. Received(r1, high).ended = IF r.chksum % 4096 = c THEN "Done" ELSE "mismatch"
  BY <1>3, <1>5, <1>6 DEF ReceiverFields
<1> QED BY <1>7 DEF r1, low, high, sum

-----------------------------------------------------------------------------
(* A transfer. *)

Buffers == {Buffer, OtherBuffer(Buffer)}
Nibble  == 0..15
Drives  == 0..3

SDState == OnSPI \cup {"IDLE", "READ00", "READ04", "READ07", "READ08", "WRITE00",
                       "WRITE05", "WRITE06", "WRITE07", "DONE", "RWFAIL"}
Outward == {"READY", "READ", "WRITE", "DONE", "RWFAIL"}
Order   == {"NOP", "ABORT", "RD", "WR"}

SDRegisters ==
  [state : SDState, bytecnt : Nat, memADDR : Address, memREQ : Bit, memBUF : Nibble,
   abort : Bit, sdSTATE : Outward, CS : Bit, dmaRD : Bit, dmaWR : Bit, dmaDOUT : Word,
   dmaADDR : Address, dmaREQ : Bit, sdSTAT : Outward]

RKRegisters ==
  [sdstate : Outward, last : Outward, dmaAddr : Address, data_break : Bit, to_disk : Bit,
   dmaGNT : Bit, status : SUBSET StatusBit, disk_flag : Bit, car : Word, dar : Word,
   cmd_reg : Word, sdOP : Order, write_lock : SUBSET Drives, skip : Bit,
   disk_bus : SUBSET StatusBit]

CPURegisters == [state : {"F0", "F1", "F3", "DB0", "DB1", "DB2"}, eaddr : Address,
                 mdin : Word, write_en : Bit]

(* What the program has asked for, or is about to: a dump asks like a job. *)
IsJob(p) == p.pc \in Writing \cup {"W-error", "W-finished"}
Asked(p) == IF IsJob(p) THEN p.job
            ELSE [curent |-> p.CURBUF, command |-> p.EXBIT, track |-> p.TRACK]

Commands == {c \in Word : (c \div 8) % 8 = 0 /\ Bit4(c) = 0}
Request  == [curent : Buffers, command : Commands, track : Word]

ProgramTyped(p) ==
  /\ p.EXBIT \in Bit /\ p.TRACK \in Nat /\ p.TRACK < TRACKSIZE
  /\ p.EXBIT = 1 => p.TRACK <= MAXTRK
  /\ p.CURBUF \in Buffers /\ p.LSTBUF \in Buffers
  /\ p.CHKSUM \in Word /\ p.READST \in {253, 255}
  /\ IsJob(p) => p.job \in Request
  /\ p.pc \in Punching /\ p.what \in {"fe", "sum", "sumhigh"} => p.then = "LAST"

-----------------------------------------------------------------------------
(* What the assumptions say of the constants, of one sector in every part. *)
LEMMA Constants ==
  /\ Words \in Nat /\ Words > 2 /\ Words <= 256 /\ BLOCK = Words /\ SECTOR = Words
  /\ TRACKSIZE \in Nat /\ 0 < TRACKSIZE /\ TRACKSIZE <= 4096
  /\ MAXTRK \in Nat /\ MAXTRK < TRACKSIZE
  /\ Jobs \subseteq Request
<1>1. Jobs \subseteq Request
  BY JobsAssumption DEF Request, Buffers, Commands, Word
<1>2. /\ TRACKSIZE \in Nat /\ 0 < TRACKSIZE /\ TRACKSIZE <= 4096
      /\ MAXTRK \in Nat /\ MAXTRK < TRACKSIZE
  BY TracksAssumption
<1> QED BY <1>1, <1>2, SizesAssumption, WordsAssumption

(* The two buffers, and a word on either side.                             *)
LEMMA BufferWords ==
  ASSUME NEW b \in Buffers, NEW i \in Int
  PROVE  /\ b \in Nat /\ b \in {512, 768} /\ OtherBuffer(b) \in Buffers /\ OtherBuffer(b) # b
         /\ 0 <= i /\ i < Words => b + i \in Addresses /\ b + i \in Nat
<1>1. b \in {512, 768} /\ Buffers = {512, 768}
  BY DEF Buffers, Buffer, OtherBuffer
<1>2. OtherBuffer(b) \in Buffers /\ OtherBuffer(b) # b
  BY <1>1 DEF OtherBuffer
<1>3. ASSUME 0 <= i, i < Words PROVE b + i \in Addresses
  <2>1. b + i \in (b - 1)..(b + Words)
    BY <1>1, <1>3, Constants
  <2> QED BY <2>1 DEF Addresses, Buffers
<1> QED BY <1>1, <1>2, <1>3

(* Ranges are opaque sets below.                                           *)
LEMMA Ranges ==
  /\ \A n \in Int : 0 <= n /\ n < 32768 <=> n \in Address
  /\ \A n \in Int : 0 <= n /\ n < 4096 <=> n \in Word
  /\ \A n \in Int : 0 <= n /\ n < 256 <=> n \in Octet
  /\ \A n \in Int : 0 <= n /\ n < 16 <=> n \in Nibble
  /\ \A n \in Address : n \in Nat /\ n < 32768
  /\ \A n \in Word : n \in Nat /\ n < 4096
  /\ \A n \in Octet : n \in Nat /\ n < 256
  /\ \A n \in Nibble : n \in Nat /\ n < 16
<1>1. \A n \in Int : 0 <= n /\ n <= 32767 <=> n \in Address
  BY DEF Address
<1>2. \A n \in Int : 0 <= n /\ n < 4096 <=> n \in Word
  BY DEF Word
<1>3. \A n \in Int : 0 <= n /\ n < 256 <=> n \in Octet
  BY DEF Octet
<1>4. \A n \in Int : 0 <= n /\ n < 16 <=> n \in Nibble
  BY DEF Nibble
<1>5. \A n \in Address : n \in Nat /\ n <= 32767
  BY DEF Address
<1>6. /\ \A n \in Word : n \in Nat /\ n < 4096
      /\ \A n \in Octet : n \in Nat /\ n < 256
      /\ \A n \in Nibble : n \in Nat /\ n < 16
  BY DEF Word, Octet, Nibble
<1> QED BY <1>1, <1>2, <1>3, <1>4, <1>5, <1>6

(* The two halves of a word make it up again (sd.sv memBUF and dmaDIN).    *)
LEMMA Halves ==
  ASSUME NEW w \in Nat
  PROVE  /\ HighByte(w) \in Nibble /\ LowByte(w) \in Octet
         /\ 256 * HighByte(w) + LowByte(w) = w % 4096
<1>1. PICK q \in Nat : q = w \div 256
  OBVIOUS
<1>2. PICK h \in Nat, l \in Nat : h = q % 16 /\ h < 16 /\ l = w % 256 /\ l < 256 /\ w = 256 * q + l
  BY <1>1
<1>3. HighByte(w) = h /\ LowByte(w) = l
  BY <1>1, <1>2 DEF HighByte, LowByte
<1>4. 256 * h + l = w % 4096
  <2>1. PICK r \in Nat : q = 16 * r + h
    BY <1>2
  <2>2. w = 4096 * r + (256 * h + l)
    BY <1>2, <2>1
  <2> QED BY <1>2, <2>2
<1>5. h \in Nibble /\ l \in Octet
  BY <1>2, Ranges
<1> QED BY <1>3, <1>4, <1>5

(* A word put together from two halves comes apart into them.              *)
LEMMA Assembled ==
  ASSUME NEW h \in Nibble, NEW l \in Octet
  PROVE  /\ 256 * h + l \in Word /\ LowByte(256 * h + l) = l /\ HighByte(256 * h + l) = h
<1>1. h \in Nat /\ h < 16 /\ l \in Nat /\ l < 256
  BY Ranges
<1>2. PICK w \in Nat : w = 256 * h + l
  BY <1>1
<1>3. w < 4096 /\ w % 256 = l /\ w \div 256 = h
  BY <1>1, <1>2
<1>4. h % 16 = h
  BY <1>1
<1>5. w \in Word
  BY <1>3, Ranges
<1>6. LowByte(w) = l /\ HighByte(w) = h
  BY <1>3, <1>4 DEF LowByte, HighByte
<1> QED BY <1>2, <1>5, <1>6

(* A track counted up wraps exactly at the end of its half of the disk.    *)
LEMMA Modulo ==
  ASSUME NEW n \in Nat, n > 0, NEW t \in Nat, t < n
  PROVE  (t + 1) % n = IF t + 1 = n THEN 0 ELSE t + 1
<1>1. CASE t + 1 = n
  <2>1. n % n = 0
    OBVIOUS
  <2> QED BY <1>1, <2>1
<1>2. CASE t + 1 < n
  <2>1. PICK x \in Nat : x = t + 1
    OBVIOUS
  <2>2. x < n
    BY <1>2, <2>1
  <2>3. x % n = x
    BY <2>2
  <2> QED BY <1>2, <2>1, <2>3
<1> QED BY <1>1, <1>2

(* What a typed program asks for is a request; a dump reads whole blocks.  *)
LEMMA AskedType ==
  ASSUME NEW p, ProgramOK(p), ProgramTyped(p)
  PROVE  /\ Asked(p) \in Request
         /\ ~IsJob(p) => /\ Asked(p).curent = p.CURBUF /\ Asked(p).command = p.EXBIT
                         /\ Asked(p).track = p.TRACK
                         /\ IsRead(Asked(p)) /\ ~IsHalf(Asked(p))
<1>1. CASE IsJob(p)
  BY <1>1 DEF Asked, ProgramTyped
<1>2. CASE ~IsJob(p)
  <2>1. p.EXBIT \in Commands /\ p.EXBIT \div 512 = 0 /\ (p.EXBIT \div 64) % 2 = 0
    <3>1. p.EXBIT = 0 \/ p.EXBIT = 1
      BY DEF ProgramTyped, Bit
    <3> QED BY <3>1 DEF Commands, Word, Bit4
  <2>2. p.TRACK \in Word
    <3>1. p.TRACK \in Nat /\ p.TRACK < TRACKSIZE
      BY DEF ProgramTyped
    <3>2. TRACKSIZE \in Nat /\ TRACKSIZE <= 4096
      BY Constants
    <3>3. p.TRACK < 4096
      BY <3>1, <3>2
    <3> QED BY <3>1, <3>3, Ranges
  <2>3. p.CURBUF \in Buffers
    BY DEF ProgramTyped
  <2>4. Asked(p) = [curent |-> p.CURBUF, command |-> p.EXBIT, track |-> p.TRACK]
    BY <1>2 DEF Asked
  <2>5. /\ Asked(p) \in Request /\ Asked(p).curent = p.CURBUF
        /\ Asked(p).command = p.EXBIT /\ Asked(p).track = p.TRACK
    BY <2>1, <2>2, <2>3, <2>4 DEF Request
  <2>6. IsRead(Asked(p)) /\ ~IsHalf(Asked(p))
    BY <2>1, <2>5 DEF IsRead, IsHalf
  <2> QED BY <2>5, <2>6
<1> QED BY <1>1, <1>2
-----------------------------------------------------------------------------
(* Between two IOTs the program keeps its registers in range, given words  *)
(* in its buffers and a status.                                            *)
LEMMA FilledTyped ==
  ASSUME NEW p, Shaped(p), ProgramTyped(p), ~IsJob(p)
  PROVE  /\ ProgramTyped(Filled(p))
         /\ \/ Filled(p).pc = "RD1"
            \/ Filled(p).pc = "TLS" /\ Filled(p).then = "LAST"
<1> DEFINE q == [p EXCEPT !.LSTBUF = p.CURBUF, !.ERRCNT = Negated(RETCNT + 1)]
           r == INCTRK(q)
           t == [r EXCEPT !.CURBUF = OtherBuffer(@)]
<1>1. Shaped(q) /\ /\ q.EXBIT = p.EXBIT /\ q.TRACK = p.TRACK /\ q.CURBUF = p.CURBUF
                   /\ q.LSTBUF = p.CURBUF /\ q.CHKSUM = p.CHKSUM /\ q.READST = p.READST
  BY DEF Shaped, ProgramFields
<1>2. Filled(p) = IF LastTrack(p) THEN SEND(q, "LAST") ELSE READ(t, "SEND")
  BY DEF Filled
<1> HIDE DEF q
<1>3. /\ Shaped(r) /\ r.TRACK = (q.TRACK + 1) % TRACKSIZE
      /\ r.EXBIT = IF q.TRACK + 1 = TRACKSIZE THEN q.EXBIT + 1 ELSE q.EXBIT
      /\ r.CURBUF = q.CURBUF /\ r.LSTBUF = q.LSTBUF /\ r.CHKSUM = q.CHKSUM /\ r.READST = q.READST
  BY <1>1 DEF INCTRK, Shaped, ProgramFields
<1> HIDE DEF r
<1>4. /\ Shaped(t) /\ t.TRACK = r.TRACK /\ t.EXBIT = r.EXBIT
      /\ t.CURBUF = OtherBuffer(r.CURBUF) /\ t.LSTBUF = r.LSTBUF /\ t.CHKSUM = r.CHKSUM
      /\ t.READST = r.READST
  BY <1>3 DEF Shaped, ProgramFields
<1> HIDE DEF t
<1>5. CASE LastTrack(p)
  <2>1. Filled(p) = [[q EXCEPT !.LOC = 0, !.then = "LAST"] EXCEPT !.pc = "TLS", !.what = "flag"]
    BY <1>2, <1>5 DEF SEND, PUN
  <2>2. /\ Filled(p).pc = "TLS" /\ Filled(p).what = "flag" /\ Filled(p).EXBIT = q.EXBIT
        /\ Filled(p).TRACK = q.TRACK
        /\ Filled(p).CURBUF = q.CURBUF /\ Filled(p).LSTBUF = q.LSTBUF
        /\ Filled(p).CHKSUM = q.CHKSUM /\ Filled(p).READST = q.READST
        /\ Filled(p).then = "LAST"
    BY <1>1, <2>1 DEF Shaped, ProgramFields
  <2> QED BY <1>1, <2>2 DEF ProgramTyped, IsJob, Writing, Punching
<1>6. CASE ~LastTrack(p)
  <2>1. Filled(p) = [t EXCEPT !.pc = "RD1", !.then = "SEND"]
    BY <1>2, <1>6 DEF READ
  <2>2. /\ Filled(p).pc = "RD1" /\ Filled(p).EXBIT = t.EXBIT /\ Filled(p).TRACK = t.TRACK
        /\ Filled(p).CURBUF = t.CURBUF /\ Filled(p).LSTBUF = t.LSTBUF
        /\ Filled(p).CHKSUM = t.CHKSUM /\ Filled(p).READST = t.READST
    BY <1>4, <2>1 DEF Shaped, ProgramFields
  <2>3. OtherBuffer(p.CURBUF) \in Buffers
    BY BufferWords DEF ProgramTyped
  <2>4. /\ t.TRACK = (IF p.TRACK + 1 = TRACKSIZE THEN 0 ELSE p.TRACK + 1)
        /\ p.TRACK \in Nat /\ p.TRACK < TRACKSIZE
    BY <1>1, <1>3, <1>4, Modulo, Constants DEF ProgramTyped
  <2>5. p.EXBIT \in {0, 1} /\ (p.EXBIT = 1 => p.TRACK < MAXTRK)
    BY <1>6, Constants DEF LastTrack, ProgramTyped, Bit
  <2>6. /\ t.EXBIT \in {0, 1} /\ t.TRACK \in Nat /\ t.TRACK < TRACKSIZE
        /\ t.EXBIT = 1 => t.TRACK <= MAXTRK
    <3>1. t.EXBIT = (IF p.TRACK + 1 = TRACKSIZE THEN p.EXBIT + 1 ELSE p.EXBIT)
      BY <1>1, <1>3, <1>4
    <3>2. /\ p.TRACK \in Nat /\ TRACKSIZE \in Nat /\ 0 < TRACKSIZE
          /\ MAXTRK \in Nat /\ MAXTRK < TRACKSIZE
      BY <2>4, Constants
    <3> QED BY <2>4, <2>5, <3>1, <3>2
  <2> QED BY <1>1, <1>3, <1>4, <2>2, <2>3, <2>6
      DEF ProgramTyped, IsJob, Writing, Bit, Punching
<1> QED BY <1>5, <1>6

(* q asks for what p asks for.                                             *)
Keeps(p, q) ==
  /\ q.EXBIT = p.EXBIT /\ q.TRACK = p.TRACK /\ q.CURBUF = p.CURBUF /\ q.LSTBUF = p.LSTBUF
  /\ q.job = p.job /\ q.CHKSUM = p.CHKSUM

(* What the subroutines leave alone.                                       *)
LEMMA CallsKeep ==
  ASSUME NEW p, Shaped(p)
  PROVE  /\ \A pc : LET q == GoTo(p, pc)
                    IN Keeps(p, q) /\ q.pc = pc /\ q.READST = p.READST /\ q.then = p.then
         /\ \A back : LET q == RECAL(p, back)
                      IN Keeps(p, q) /\ q.pc = "RC1" /\ q.READST = p.READST
         /\ \A then : LET q == READ(p, then)
                      IN Keeps(p, q) /\ q.pc = "RD1" /\ q.READST = p.READST
         /\ \A what : LET q == PUN(p, what)
                      IN /\ Keeps(p, q) /\ q.pc = "TLS" /\ q.READST = p.READST
                             /\ q.then = p.then /\ q.what = what
  BY DEF Shaped, ProgramFields, GoTo, RECAL, READ, PUN, Keeps

(* A step that keeps the registers of the program keeps their types.       *)
LEMMA KeptTyped ==
  ASSUME NEW p, NEW q, ProgramTyped(p), Keeps(p, q), IsJob(q) => IsJob(p),
         q.READST \in {253, 255},
         q.pc \in Punching /\ q.what \in {"fe", "sum", "sumhigh"} => q.then = "LAST"
  PROVE  ProgramTyped(q)
  BY DEF ProgramTyped, Keeps

(* SEND starts a sector; OUT adds two words of the buffer.                 *)
LEMMA SendsTyped ==
  ASSUME NEW p, Shaped(p), ProgramTyped(p), NEW mem \in [Addresses -> Word]
  PROVE  /\ \A then : LET q == SEND(p, then)
                      IN ProgramTyped(q) /\ Keeps(p, q) /\ q.pc = "TLS" /\ q.then = then
         /\ p.LOC < BLOCK => LET q == OUT(p, mem)
                             IN /\ ProgramTyped(q) /\ q.pc = "TLS" /\ q.then = p.then
                                /\ q.CURBUF = p.CURBUF /\ q.EXBIT = p.EXBIT
                                /\ q.TRACK = p.TRACK
<1>1. ASSUME NEW then
      PROVE  LET q == SEND(p, then)
             IN ProgramTyped(q) /\ Keeps(p, q) /\ q.pc = "TLS" /\ q.then = then
  <2> DEFINE s == [p EXCEPT !.LOC = 0, !.then = then]
             q == PUN(s, "flag")
  <2>1. Shaped(s) /\ Keeps(p, s) /\ s.READST = p.READST /\ s.then = then
    BY DEF Shaped, ProgramFields, Keeps
  <2> HIDE DEF s
  <2>2. Keeps(s, q) /\ q.pc = "TLS" /\ q.READST = s.READST /\ q.then = s.then /\ q.what = "flag"
    BY <2>1, CallsKeep
  <2> HIDE DEF q
  <2>3. Keeps(p, q) /\ q.READST \in {253, 255}
    BY <2>1, <2>2 DEF Keeps, ProgramTyped
  <2>4. ~IsJob(q)
    BY <2>2 DEF IsJob, Writing
  <2>5. ProgramTyped(q)
    BY <2>2, <2>3, <2>4, KeptTyped
  <2> QED BY <2>1, <2>2, <2>3, <2>5 DEF SEND, q, s
<1>2. ASSUME p.LOC < BLOCK
      PROVE  LET q == OUT(p, mem)
             IN /\ ProgramTyped(q) /\ q.pc = "TLS" /\ q.then = p.then
                /\ q.CURBUF = p.CURBUF /\ q.EXBIT = p.EXBIT /\ q.TRACK = p.TRACK
  <2> DEFINE a == mem[p.LSTBUF + p.LOC]
             b == mem[p.LSTBUF + p.LOC + 1]
             s == [p EXCEPT !.CHKSUM = (p.CHKSUM + a + b) % 4096]
             q == PUN(s, "low")
  <2>1. a \in Word /\ b \in Word
    <3>1. p.LOC \in Nat /\ p.LOC + 1 < Words
      <4>1. p.LOC \in Nat /\ p.LOC % 2 = 0 /\ p.LOC < Words
        BY <1>2, Constants DEF Shaped
      <4> QED BY <4>1, WordsAssumption
    <3>2. /\ p.LSTBUF + p.LOC \in Addresses /\ p.LSTBUF \in Nat
          /\ p.LSTBUF + (p.LOC + 1) \in Addresses
      <4>1. PICK i \in Int, j \in Int : i = p.LOC /\ j = p.LOC + 1
        BY <3>1
      <4>2. 0 <= i /\ i < Words /\ 0 <= j /\ j < Words
        BY <3>1, <4>1, Constants
      <4>3. p.LSTBUF \in Buffers
        BY DEF ProgramTyped
      <4>4. p.LSTBUF \in Nat /\ p.LSTBUF + i \in Addresses /\ p.LSTBUF + j \in Addresses
        BY <4>2, <4>3, BufferWords
      <4> QED BY <4>1, <4>4
    <3>3. p.LSTBUF + p.LOC + 1 = p.LSTBUF + (p.LOC + 1)
      BY <3>1, <3>2
    <3> QED BY <3>2, <3>3
  <2>2. s.CHKSUM \in Word
    <3>1. PICK n \in Nat : n = p.CHKSUM + a + b
      BY <2>1, Ranges DEF ProgramTyped
    <3>2. n % 4096 \in Nat /\ n % 4096 < 4096
      OBVIOUS
    <3>3. s.CHKSUM = n % 4096
      BY <3>1 DEF Shaped, ProgramFields
    <3> QED BY <3>2, <3>3, Ranges
  <2>3. /\ Shaped(s) /\ s.EXBIT = p.EXBIT /\ s.TRACK = p.TRACK /\ s.CURBUF = p.CURBUF
        /\ s.LSTBUF = p.LSTBUF /\ s.READST = p.READST /\ s.then = p.then
    BY DEF Shaped, ProgramFields
  <2>4. OUT(p, mem) = q
    BY DEF OUT, Shaped, ProgramFields
  <2> HIDE DEF s
  <2>5. Keeps(s, q) /\ q.pc = "TLS" /\ q.READST = s.READST /\ q.then = s.then /\ q.what = "low"
    BY <2>3, CallsKeep
  <2> HIDE DEF q
  <2>6. ProgramTyped(q) /\ q.CURBUF = p.CURBUF /\ q.EXBIT = p.EXBIT /\ q.TRACK = p.TRACK
    BY <2>2, <2>3, <2>5 DEF ProgramTyped, Keeps, IsJob, Writing
  <2> QED BY <2>3, <2>4, <2>5, <2>6
<1> QED BY <1>1, <1>2

(* After a character of a sector comes another, or the wait for the next   *)
(* sector's end.                                                           *)
LEMMA SentTyped ==
  ASSUME NEW p, ProgramOK(p), ProgramTyped(p), p.pc = "TSF", NEW mem \in [Addresses -> Word]
  PROVE  LET q == Sent(p, mem)
         IN /\ ProgramTyped(q) /\ Asked(q) = Asked(p)
            /\ \/ q.pc = "TLS" /\ q.then = p.then
               \/ q.pc = "CK1" /\ p.then = "DMPLP"
               \/ q.pc = "FINISH" /\ p.then = "LAST"
<1> DEFINE q == Sent(p, mem)
<1>1. /\ Shaped(p) /\ p.what \in Whats /\ p.LOC < BLOCK /\ p.then \in {"DMPLP", "LAST"}
      /\ ~IsJob(p) /\ p.READST \in {253, 255}
      /\ p.what \in {"fe", "sum", "sumhigh"} => p.then = "LAST"
  BY DEF ProgramOK, ProgramTyped, Punching, IsJob, Writing
<1>2. ASSUME NEW r, Keeps(p, r), r.pc \in {"TLS", "CK1", "FINISH"}
      PROVE  Asked(r) = Asked(p)
  BY <1>1, <1>2 DEF Asked, Keeps, IsJob, Writing
<1>3. CASE p.what = "flag"
  <2>1. q = OUT(p, mem)
    BY <1>3 DEF Sent
  <2> HIDE DEF q
  <2>2. /\ ProgramTyped(q) /\ q.pc = "TLS" /\ q.then = p.then
        /\ q.CURBUF = p.CURBUF /\ q.EXBIT = p.EXBIT /\ q.TRACK = p.TRACK
    BY <1>1, <2>1, SendsTyped
  <2>3. Asked(q) = Asked(p)
    BY <1>1, <2>2 DEF Asked, IsJob, Writing
  <2> QED BY <2>2, <2>3 DEF q
<1>4. CASE p.what \in {"low", "mid", "fe", "sum"}
  <2>1. PICK what \in {"mid", "high", "sum", "sumhigh"} :
          q = PUN(p, what) /\ (what \in {"sum", "sumhigh"} => p.then = "LAST")
    BY <1>1, <1>4 DEF Sent
  <2> HIDE DEF q
  <2>2. /\ Keeps(p, q) /\ q.pc = "TLS" /\ q.READST = p.READST /\ q.then = p.then
        /\ q.what = what
    BY <1>1, <2>1, CallsKeep
  <2>3. ProgramTyped(q)
    BY <1>1, <2>1, <2>2, KeptTyped DEF IsJob, Writing
  <2> QED BY <1>2, <2>2, <2>3 DEF q
<1>5. CASE p.what = "sumhigh"
  <2>1. q = GoTo(p, "FINISH")
    BY <1>5 DEF Sent
  <2> HIDE DEF q
  <2>2. Keeps(p, q) /\ q.pc = "FINISH" /\ q.READST = p.READST
    BY <1>1, <2>1, CallsKeep
  <2>3. ProgramTyped(q)
    BY <1>1, <2>2, KeptTyped DEF IsJob, Writing, Punching
  <2> QED BY <1>1, <1>2, <1>5, <2>2, <2>3 DEF q
<1>6. CASE p.what = "high"
  <2>1. p.LOC + 2 < BLOCK \/ p.LOC + 2 = BLOCK
    BY <1>1, BlockAssumption DEF Shaped
  <2>2. CASE p.LOC + 2 < BLOCK
    <3> DEFINE s == [p EXCEPT !.LOC = p.LOC + 2]
    <3>1. /\ Shaped(s) /\ s.LOC < BLOCK /\ s.then = p.then /\ Keeps(p, s)
          /\ s.READST = p.READST /\ s.pc = p.pc /\ s.what = p.what
      BY <1>1, <2>2 DEF Shaped, ProgramFields, Keeps
    <3>2. p.LOC + 2 # BLOCK
      BY <1>1, <2>2, BlockAssumption DEF Shaped
    <3>3. q = OUT(s, mem)
      <4> HIDE DEF s
      <4> SUFFICES q = OUT([p EXCEPT !.LOC = @ + 2], mem)
        BY DEF s
      <4> QED BY <1>6, <2>2, <3>2, Zenon DEF Sent
    <3> HIDE DEF s, q
    <3>4. ~IsJob(s) /\ ProgramTyped(s)
      BY <1>1, <1>6, <3>1, KeptTyped DEF IsJob
    <3>5. /\ ProgramTyped(q) /\ q.pc = "TLS" /\ q.then = s.then
          /\ q.CURBUF = s.CURBUF /\ q.EXBIT = s.EXBIT /\ q.TRACK = s.TRACK
      BY <3>1, <3>3, <3>4, SendsTyped
    <3>6. Asked(q) = Asked(p)
      BY <1>1, <3>1, <3>5 DEF Asked, IsJob, Writing, Keeps
    <3> QED BY <3>1, <3>5, <3>6 DEF q
  <2>3. CASE p.LOC + 2 = BLOCK
    <3>1. ~(p.LOC + 2 < BLOCK)
      BY <1>1, <2>3, BlockAssumption DEF Shaped
    <3>2. q = IF p.then = "DMPLP" THEN GoTo(p, "CK1") ELSE PUN(p, "fe")
      BY <1>1, <1>6, <2>3, <3>1 DEF Sent
    <3> HIDE DEF q
    <3>3. /\ Keeps(p, q) /\ q.READST = p.READST /\ q.then = p.then
          /\ \/ q.pc = "TLS" /\ p.then = "LAST"
             \/ q.pc = "CK1" /\ p.then = "DMPLP"
      BY <1>1, <3>2, CallsKeep
    <3>4. ProgramTyped(q)
      BY <1>1, <3>3, KeptTyped DEF IsJob, Writing, Punching
    <3> QED BY <1>2, <3>3, <3>4 DEF q
  <2> QED BY <2>1, <2>2, <2>3
<1> QED BY <1>1, <1>3, <1>4, <1>5, <1>6 DEF Whats

(* Where a program is after it has obeyed an IOT, and what it asks for.    *)
Waits(p, skip) == p.pc \in {"RC4", "RC6", "CK1", "W5", "TSF"} /\ skip = 0

NextSector(q) == q.pc = "RD1" \/ (q.pc = "TLS" /\ q.then = "LAST")

Follows(p, q, skip, bus) ==
  /\ Waits(p, skip) => q = p
  /\ p.pc \in {"RD1", "RD2", "RD3", "W1", "W2", "W3", "W4"} => q.pc = Sequence[p.pc]
  /\ p.pc \in {"CAF", "RC1", "RC2", "RC3", "RC4", "RC5", "RC6"} /\ ~Waits(p, skip) =>
       q.pc = IF p.pc = "CAF" THEN "RC1" ELSE Sequence[p.pc]
  /\ p.pc \in {"CK1", "W5"} /\ skip = 1 => q.pc = IF p.pc = "CK1" THEN "CK2" ELSE "W6"
  /\ p.pc = "RC7" => IF bus = {"done"} THEN NextSector(q) ELSE q.pc = "BADSTA"
  /\ p.pc = "RD4" => \/ q.pc = "TLS" /\ q.then = "DMPLP"
                     \/ q.pc = "CK1"
  /\ p.pc = "CK2" => IF bus = {"done"} THEN NextSector(q) ELSE q.pc \in {"CK3", "RC1"}
  /\ p.pc = "CK3" => q.pc = "RC1"
  /\ p.pc = "TLS" => q.pc = "TSF" /\ q.then = p.then
  /\ p.pc = "TSF" /\ skip = 1 => \/ q.pc = "TLS" /\ q.then = p.then
                                 \/ q.pc = "CK1" /\ p.then = "DMPLP"
                                 \/ q.pc = "FINISH" /\ p.then = "LAST"
  /\ p.pc = "W6" => q.pc = IF bus = {"done"} THEN "W-finished" ELSE "W-error"

(* So does every advance of the program, which asks for another block only *)
(* at its next sector.                                                     *)
LEMMA AdvanceTyped ==
  ASSUME NEW p, NEW skip \in {0, 1}, NEW bus, NEW mem \in [Addresses -> Word],
         ProgramOK(p), ProgramTyped(p), ~Halted(p)
  PROVE  LET q == Advance(p, skip, bus, mem)
         IN /\ ProgramTyped(q) /\ Follows(p, q, skip, bus)
            /\ ~NextSector(q) => Asked(q) = Asked(p)
<1> DEFINE q == Advance(p, skip, bus, mem)
           Known == {"RD1", "RD2", "RD3", "W1", "W2", "W3", "W4", "RC1", "RC2", "RC3", "RC4",
                     "RC5", "RC6", "CK1", "W5"}
<1>1. Shaped(p) /\ p.READST \in {253, 255}
  BY DEF ProgramOK, ProgramTyped
<1>2. ASSUME NEW r, Keeps(p, r), IsJob(r) <=> IsJob(p)
      PROVE  Asked(r) = Asked(p)
  BY <1>2 DEF Asked, Keeps
<1>3. CASE Waits(p, skip)
  <2>1. q = p
    BY <1>3 DEF Advance, Waits
  <2> HIDE DEF q
  <2> QED BY <1>3, <2>1 DEF Follows, Waits, q
<1>4. CASE p.pc \in Known /\ ~Waits(p, skip)
  <2>1. q = GoTo(p, Sequence[p.pc])
    BY <1>4 DEF Advance, Sequence, Waits
  <2> HIDE DEF q
  <2>2. Keeps(p, q) /\ q.pc = Sequence[p.pc] /\ q.READST = p.READST
    BY <1>1, <2>1, CallsKeep
  <2>3. /\ IsJob(q) <=> IsJob(p)
        /\ q.pc \notin Punching
    BY <1>4, <2>2 DEF IsJob, Writing, Sequence, Punching
  <2>4. ProgramTyped(q)
    BY <1>1, <2>2, <2>3, KeptTyped
  <2>5. Follows(p, q, skip, bus)
    BY <1>4, <2>2 DEF Follows, Sequence
  <2> QED BY <1>2, <2>2, <2>3, <2>4, <2>5 DEF q
<1>5. CASE p.pc = "CAF"
  <2> DEFINE s == [p EXCEPT !.ERRCNT = Negated(RETCNT + 1)]
  <2>1. Shaped(s) /\ Keeps(p, s) /\ s.READST = p.READST
    BY <1>1 DEF Shaped, ProgramFields, Keeps
  <2>2. q = RECAL(s, "DUMP")
    BY <1>5 DEF Advance
  <2> HIDE DEF s, q
  <2>3. Keeps(s, q) /\ q.pc = "RC1" /\ q.READST = s.READST
    BY <2>1, <2>2, CallsKeep
  <2>4. Keeps(p, q) /\ ~IsJob(p) /\ ~IsJob(q)
    BY <1>5, <2>1, <2>3 DEF Keeps, IsJob, Writing
  <2>5. ProgramTyped(q)
    BY <1>1, <2>1, <2>3, <2>4, KeptTyped DEF Punching
  <2> QED BY <1>2, <1>5, <2>3, <2>4, <2>5 DEF q, Follows, Waits
<1>6. CASE p.pc = "RC7"
  <2>1. q = IF bus = {"done"} THEN Recalibrated(p) ELSE GoTo(p, "BADSTA")
    BY <1>6 DEF Advance
  <2>2. CASE bus = {"done"} /\ p.back = "CHKRD"
    <3> DEFINE s == [p EXCEPT !.READST = 253]
    <3>1. Shaped(s) /\ Keeps(p, s) /\ s.READST = 253 /\ s.pc = p.pc
      BY <1>1 DEF Shaped, ProgramFields, Keeps
    <3>2. q = Filled(s)
      BY <2>1, <2>2 DEF Recalibrated
    <3> HIDE DEF s, q
    <3>3. ~IsJob(s) /\ ProgramTyped(s)
      BY <1>6, <3>1, KeptTyped DEF IsJob, Writing, Punching
    <3>4. ProgramTyped(q) /\ NextSector(q)
      BY <3>1, <3>2, <3>3, FilledTyped DEF NextSector
    <3> QED BY <1>6, <2>2, <3>4 DEF q, Follows, Waits
  <2>3. CASE ~(bus = {"done"} /\ p.back = "CHKRD")
    <3>1. p.back \in {"DUMP", "CHKRD"}
      BY <1>6 DEF ProgramOK, Recalibrating
    <3>2. q = IF bus = {"done"} THEN READ(p, "DMPLP") ELSE GoTo(p, "BADSTA")
      BY <2>1, <2>3, <3>1 DEF Recalibrated
    <3> HIDE DEF q
    <3>3. /\ Keeps(p, q) /\ q.READST = p.READST
          /\ q.pc = IF bus = {"done"} THEN "RD1" ELSE "BADSTA"
      BY <1>1, <3>2, CallsKeep
    <3>4. ~IsJob(p) /\ ~IsJob(q) /\ q.pc \notin Punching
      BY <1>6, <3>3 DEF IsJob, Writing, Punching
    <3>5. ProgramTyped(q)
      BY <1>1, <3>3, <3>4, KeptTyped
    <3> QED BY <1>2, <1>6, <3>3, <3>4, <3>5 DEF q, Follows, Waits, NextSector
  <2> QED BY <2>2, <2>3
<1>7. CASE p.pc = "RD4"
  <2>1. q = IF p.then = "SEND" THEN SEND(p, "DMPLP") ELSE GoTo(p, "CK1")
    BY <1>7 DEF Advance
  <2> HIDE DEF q
  <2>2. /\ Keeps(p, q)
        /\ \/ q.pc = "TLS" /\ q.then = "DMPLP" /\ ProgramTyped(q)
           \/ q.pc = "CK1" /\ q.READST = p.READST
    BY <1>1, <2>1, CallsKeep, SendsTyped
  <2>3. ~IsJob(p) /\ ~IsJob(q)
    BY <1>7, <2>2 DEF IsJob, Writing
  <2>4. ProgramTyped(q)
    BY <1>1, <2>2, <2>3, KeptTyped DEF Punching
  <2> QED BY <1>2, <1>7, <2>2, <2>3, <2>4 DEF q, Follows, Waits
<1>8. CASE p.pc = "CK2"
  <2> DEFINE s == [p EXCEPT !.READST = 255]
  <2>1. Shaped(s) /\ Keeps(p, s) /\ s.READST = 255 /\ s.pc = p.pc
    BY <1>1 DEF Shaped, ProgramFields, Keeps
  <2>2. q = IF bus = {"done"} THEN Filled(s) ELSE ERROR(s)
    BY <1>8 DEF Advance
  <2> HIDE DEF s
  <2>3. ~IsJob(s) /\ ProgramTyped(s)
    BY <1>8, <2>1, KeptTyped DEF IsJob, Writing, Punching
  <2>4. CASE bus = {"done"}
    <3>1. q = Filled(s)
      BY <2>2, <2>4
    <3> HIDE DEF q
    <3>2. ProgramTyped(q) /\ NextSector(q)
      BY <2>1, <2>3, <3>1, FilledTyped DEF NextSector
    <3> QED BY <1>8, <2>4, <3>2 DEF q, Follows, Waits
  <2>5. CASE bus # {"done"}
    <3> DEFINE t == [s EXCEPT !.ERRCNT = (@ + 1) % 4096]
    <3>1. Shaped(t) /\ Keeps(s, t) /\ t.READST = s.READST
      BY <2>1 DEF Shaped, ProgramFields, Keeps
    <3>2. q = IF t.ERRCNT = 0 THEN GoTo(t, "CK3") ELSE RECAL(t, "DUMP")
      BY <2>2, <2>5 DEF ERROR
    <3> HIDE DEF t, q
    <3>3. Keeps(t, q) /\ q.pc \in {"CK3", "RC1"} /\ q.READST = t.READST
      BY <3>1, <3>2, CallsKeep
    <3>4. Keeps(p, q) /\ ~IsJob(p) /\ ~IsJob(q) /\ q.READST = 255
      BY <1>8, <2>1, <3>1, <3>3 DEF Keeps, IsJob, Writing
    <3>5. ProgramTyped(q)
      BY <3>3, <3>4, KeptTyped DEF Punching
    <3> QED BY <1>2, <1>8, <2>5, <3>3, <3>4, <3>5 DEF q, Follows, Waits
  <2> QED BY <2>4, <2>5
<1>9. CASE p.pc = "CK3"
  <2>1. q = RECAL(p, "CHKRD")
    BY <1>9 DEF Advance
  <2> HIDE DEF q
  <2>2. Keeps(p, q) /\ q.pc = "RC1" /\ q.READST = p.READST
    BY <1>1, <2>1, CallsKeep
  <2>3. ~IsJob(p) /\ ~IsJob(q)
    BY <1>9, <2>2 DEF IsJob, Writing
  <2>4. ProgramTyped(q)
    BY <1>1, <2>2, <2>3, KeptTyped DEF Punching
  <2> QED BY <1>2, <1>9, <2>2, <2>3, <2>4 DEF q, Follows, Waits
<1>10. CASE p.pc = "TLS"
  <2>1. q = GoTo(p, "TSF")
    BY <1>10 DEF Advance
  <2> HIDE DEF q
  <2>2. Keeps(p, q) /\ q.pc = "TSF" /\ q.READST = p.READST /\ q.then = p.then
    BY <1>1, <2>1, CallsKeep
  <2>3. q.what = p.what
    BY <1>1, <2>1 DEF GoTo, Shaped, ProgramFields
  <2>4. ~IsJob(p) /\ ~IsJob(q)
    BY <1>10, <2>2 DEF IsJob, Writing
  <2>5. q.what \in {"fe", "sum", "sumhigh"} => q.then = "LAST"
    BY <1>10, <2>2, <2>3 DEF ProgramTyped, Punching
  <2>6. ProgramTyped(q)
    BY <1>1, <2>2, <2>4, <2>5, KeptTyped
  <2> QED BY <1>2, <1>10, <2>2, <2>4, <2>6 DEF q, Follows, Waits
<1>11. CASE p.pc = "TSF" /\ ~Waits(p, skip)
  <2>1. q = Sent(p, mem)
    BY <1>11 DEF Advance, Waits
  <2> HIDE DEF q
  <2>2. /\ ProgramTyped(q) /\ Asked(q) = Asked(p)
        /\ \/ q.pc = "TLS" /\ q.then = p.then
           \/ q.pc = "CK1" /\ p.then = "DMPLP"
           \/ q.pc = "FINISH" /\ p.then = "LAST"
    BY <1>11, <2>1, SentTyped
  <2> QED BY <1>11, <2>2 DEF q, Follows, Waits
<1>12. CASE p.pc = "W6"
  <2>1. q = GoTo(p, IF bus = {"done"} THEN "W-finished" ELSE "W-error")
    BY <1>12 DEF Advance
  <2> HIDE DEF q
  <2>2. /\ Keeps(p, q) /\ q.READST = p.READST
        /\ q.pc = IF bus = {"done"} THEN "W-finished" ELSE "W-error"
    BY <1>1, <2>1, CallsKeep
  <2>3. IsJob(p) /\ IsJob(q) /\ q.pc \notin Punching
    BY <1>12, <2>2 DEF IsJob, Writing, Punching
  <2>4. ProgramTyped(q)
    BY <1>1, <2>2, <2>3, KeptTyped
  <2> QED BY <1>2, <1>12, <2>2, <2>3, <2>4 DEF q, Follows, Waits
<1> QED BY <1>3, <1>4, <1>5, <1>6, <1>7, <1>8, <1>9, <1>10, <1>11, <1>12
        DEF ProgramOK, Halted, Recalibrating, Reading, Punching, Writing, Final

-----------------------------------------------------------------------------
(* The edges of sd.sv, state by state.                                     *)
LEMMA TickedIs ==
  ASSUME sd \in SDRegisters
  PROVE  /\ DOMAIN Ticked = DOMAIN sd
         /\ Ticked.state = sd.state /\ Ticked.bytecnt = sd.bytecnt /\ Ticked.memADDR = sd.memADDR
         /\ Ticked.memREQ = sd.memREQ /\ Ticked.memBUF = sd.memBUF /\ Ticked.sdSTATE = sd.sdSTATE
         /\ Ticked.CS = sd.CS /\ Ticked.dmaRD = 0 /\ Ticked.dmaWR = 0 /\ Ticked.dmaDOUT = sd.dmaDOUT
         /\ Ticked.dmaADDR = sd.memADDR /\ Ticked.dmaREQ = sd.memREQ /\ Ticked.sdSTAT = sd.sdSTATE
         /\ Ticked.abort = IF rk.sdOP = "ABORT" /\ sd.state # "IDLE" THEN 1 ELSE sd.abort
  BY DEF SDRegisters, Ticked

(* The defaults of an edge leave the registers typed.                      *)
LEMMA TickedType == ASSUME sd \in SDRegisters PROVE Ticked \in SDRegisters
  BY DEF SDRegisters, Ticked, Bit

(* Each action of the interface is of its own states.                      *)
LEMMA Guards ==
  ASSUME NEW done, NEW rxd, NEW din
  PROVE  /\ AtIDLE => sd.state = "IDLE"
         /\ Command => sd.state \in {"READ00", "WRITE00"}
         /\ Commanded(done) => sd.state \in {"READ01", "WRITE01", "WRITE13"}
         /\ Listen => sd.state \in {"READ02", "READ03", "WRITE02"}
         /\ Answer(done, rxd) => sd.state \in {"READ02", "READ03", "WRITE02", "WRITE14"}
         /\ Granted => sd.state \in {"READ04", "WRITE05"}
         /\ AtREAD05(done) => sd.state = "READ05"
         /\ AtREAD06(done) => sd.state = "READ06"
         /\ AtREAD07 => sd.state = "READ07"
         /\ AtREAD08 => sd.state = "READ08"
         /\ AtREAD09(done) => sd.state = "READ09"
         /\ AtWRITE03(done) => sd.state = "WRITE03"
         /\ AtWRITE04(done) => sd.state = "WRITE04"
         /\ AtWRITE06 => sd.state = "WRITE06"
         /\ AtWRITE07(din) => sd.state = "WRITE07"
         /\ AtWRITE08(done) => sd.state = "WRITE08"
         /\ AtWRITE09(done) => sd.state = "WRITE09"
         /\ AtWRITE10(done) => sd.state = "WRITE10"
         /\ AtWRITE11(done, rxd) => sd.state = "WRITE11"
         /\ AtWRITE12(done, rxd) => sd.state = "WRITE12"
         /\ AtWRITE15(done, rxd) => sd.state = "WRITE15"
         /\ AtWRITE16(done) => sd.state = "WRITE16"
         /\ AtFINI(done) => sd.state = "FINI"
         /\ AtDONE => sd.state = "DONE"
         /\ AtRWFAIL => sd.state = "RWFAIL"
<1>1. AtIDLE => sd.state = "IDLE"
  BY DEF AtIDLE, At
<1>2. Command => sd.state \in {"READ00", "WRITE00"}
  BY DEF Command, At
<1>3. Commanded(done) => sd.state \in {"READ01", "WRITE01", "WRITE13"}
  BY DEF Commanded, At
<1>4. Listen => sd.state \in {"READ02", "READ03", "WRITE02"}
  BY DEF Listen, Asks, At
<1>5. Answer(done, rxd) => sd.state \in {"READ02", "READ03", "WRITE02", "WRITE14"}
  BY DEF Answer, At
<1>6. Granted => sd.state \in {"READ04", "WRITE05"}
  BY DEF Granted, At
<1>7. AtREAD05(done) => sd.state = "READ05"
  BY DEF AtREAD05, At
<1>8. AtREAD06(done) => sd.state = "READ06"
  BY DEF AtREAD06, At
<1>9. AtREAD07 => sd.state = "READ07"
  BY DEF AtREAD07, At
<1>10. AtREAD08 => sd.state = "READ08"
  BY DEF AtREAD08, At
<1>11. AtREAD09(done) => sd.state = "READ09"
  BY DEF AtREAD09, At
<1>12. AtWRITE03(done) => sd.state = "WRITE03"
  BY DEF AtWRITE03, At
<1>13. AtWRITE04(done) => sd.state = "WRITE04"
  BY DEF AtWRITE04, At
<1>14. AtWRITE06 => sd.state = "WRITE06"
  BY DEF AtWRITE06, At
<1>15. AtWRITE07(din) => sd.state = "WRITE07"
  BY DEF AtWRITE07, At
<1>16. AtWRITE08(done) => sd.state = "WRITE08"
  BY DEF AtWRITE08, At
<1>17. AtWRITE09(done) => sd.state = "WRITE09"
  BY DEF AtWRITE09, At
<1>18. AtWRITE10(done) => sd.state = "WRITE10"
  BY DEF AtWRITE10, At
<1>19. AtWRITE11(done, rxd) => sd.state = "WRITE11"
  BY DEF AtWRITE11, At
<1>20. AtWRITE12(done, rxd) => sd.state = "WRITE12"
  BY DEF AtWRITE12, At
<1>21. AtWRITE15(done, rxd) => sd.state = "WRITE15"
  BY DEF AtWRITE15, At
<1>22. AtWRITE16(done) => sd.state = "WRITE16"
  BY DEF AtWRITE16, At
<1>23. AtFINI(done) => sd.state = "FINI"
  BY DEF AtFINI, At
<1>24. AtDONE => sd.state = "DONE"
  BY DEF AtDONE, At
<1>25. AtRWFAIL => sd.state = "RWFAIL"
  BY DEF AtRWFAIL, At
<1> QED BY <1>1, <1>2, <1>3, <1>4, <1>5, <1>6, <1>7, <1>8, <1>9, <1>10, <1>11, <1>12, <1>13, <1>14,
           <1>15, <1>16, <1>17, <1>18, <1>19, <1>20, <1>21, <1>22, <1>23, <1>24, <1>25

(* The other way round: the state says which actions an edge may be.       *)
LEMMA ByState ==
  ASSUME NEW done, NEW rxd, NEW din, SDEdge(done, rxd, din)
  PROVE  /\ sd.state = "IDLE" => AtIDLE
         /\ sd.state \in {"READ00", "WRITE00"} => Command
         /\ sd.state \in {"READ01", "WRITE01", "WRITE13"} => Exchanging(done) \/ Commanded(done)
         /\ sd.state \in {"READ02", "READ03", "WRITE02", "WRITE14"} =>
              Exchanging(done) \/ Listen \/ Answer(done, rxd)
         /\ sd.state \in {"READ04", "WRITE05"} => Granted
         /\ sd.state = "READ05" => Exchanging(done) \/ AtREAD05(done)
         /\ sd.state = "READ06" => Exchanging(done) \/ AtREAD06(done)
         /\ sd.state = "READ07" => AtREAD07
         /\ sd.state = "READ08" => AtREAD08
         /\ sd.state = "READ09" => Exchanging(done) \/ AtREAD09(done)
         /\ sd.state = "WRITE03" => Exchanging(done) \/ AtWRITE03(done)
         /\ sd.state = "WRITE04" => Exchanging(done) \/ AtWRITE04(done)
         /\ sd.state = "WRITE06" => AtWRITE06
         /\ sd.state = "WRITE07" => AtWRITE07(din)
         /\ sd.state = "WRITE08" => Exchanging(done) \/ AtWRITE08(done)
         /\ sd.state = "WRITE09" => Exchanging(done) \/ AtWRITE09(done)
         /\ sd.state = "WRITE10" => Exchanging(done) \/ AtWRITE10(done)
         /\ sd.state = "WRITE11" => Exchanging(done) \/ AtWRITE11(done, rxd)
         /\ sd.state = "WRITE12" => Exchanging(done) \/ AtWRITE12(done, rxd)
         /\ sd.state = "WRITE15" => Exchanging(done) \/ AtWRITE15(done, rxd)
         /\ sd.state = "WRITE16" => Exchanging(done) \/ AtWRITE16(done)
         /\ sd.state = "FINI" => Exchanging(done) \/ AtFINI(done)
         /\ sd.state = "DONE" => AtDONE
         /\ sd.state = "RWFAIL" => AtRWFAIL
<1>1. Exchanging(done) => sd.state \in OnSPI
  BY DEF Exchanging, At
<1> QED BY <1>1, Guards DEF SDEdge, OnSPI

-----------------------------------------------------------------------------
Tick == /\ sd' \in SDRegisters
        /\ sd'.dmaADDR = sd.memADDR /\ sd'.dmaREQ = sd.memREQ /\ sd'.sdSTAT = sd.sdSTATE
Moved(state, bytecnt) == sd'.state = state /\ sd'.bytecnt = bytecnt
Bus(addr, req, dout) == sd'.memADDR = addr /\ sd'.memREQ = req /\ sd'.dmaDOUT = dout
SameBus == Bus(sd.memADDR, sd.memREQ, sd.dmaDOUT)
Pulses(rd, wr) == sd'.dmaRD = rd /\ sd'.dmaWR = wr
Says(op, cs) == sd'.sdSTATE = op /\ sd'.CS = cs
Silent == Says(sd.sdSTATE, sd.CS)
Failing == /\ Pulses(0, 0)
           /\ IF sd.state \in {"READ02", "READ03"}
              THEN Moved(sd.state, 0) /\ Says("RWFAIL", 1)
              ELSE Moved("RWFAIL", 0) /\ Says(sd.sdSTATE, 1)
Aborting == sd'.abort = IF rk.sdOP = "ABORT" THEN 1 ELSE sd.abort

(* IDLE: the order of the controller starts a command.                     *)
LEMMA IdleEdge ==
  ASSUME sd \in SDRegisters, AtIDLE
  PROVE  /\ Tick /\ SameBus /\ Pulses(0, 0) /\ Says("READY", sd.CS)
         /\ Moved(CASE rk.sdOP = "RD" -> "READ00" [] rk.sdOP = "WR" -> "WRITE00"
                    [] OTHER -> "IDLE", sd.bytecnt)
         /\ sd'.abort = 0 /\ card' = card
<1> DEFINE t == Ticked
           next == CASE rk.sdOP = "RD" -> "READ00" [] rk.sdOP = "WR" -> "WRITE00"
                     [] OTHER -> "IDLE"
<1>1. sd' = [t EXCEPT !.abort = 0, !.sdSTATE = "READY", !.state = next] /\ card' = card
  BY DEF AtIDLE, Moves
<1>2. next \in SDState
  BY DEF SDState
<1> HIDE DEF t, next
<1>3. t \in SDRegisters
  BY TickedType DEF t
<1>4. sd' \in SDRegisters
  BY <1>1, <1>2, <1>3 DEF SDRegisters, Bit, Outward
<1>5. /\ sd'.state = next /\ sd'.abort = 0 /\ sd'.sdSTATE = "READY"
      /\ sd'.bytecnt = t.bytecnt /\ sd'.memADDR = t.memADDR /\ sd'.memREQ = t.memREQ
      /\ sd'.CS = t.CS /\ sd'.dmaRD = t.dmaRD /\ sd'.dmaWR = t.dmaWR /\ sd'.dmaDOUT = t.dmaDOUT
      /\ sd'.dmaADDR = t.dmaADDR /\ sd'.dmaREQ = t.dmaREQ /\ sd'.sdSTAT = t.sdSTAT
  BY <1>1, <1>3 DEF SDRegisters
<1> QED BY <1>1, <1>4, <1>5, TickedIs DEF t, next, Tick, SameBus, Bus, Pulses, Says, Moved

(* An exchange of the SPI under way: only time passes.                     *)
LEMMA Waited ==
  ASSUME sd \in SDRegisters, NEW done, Exchanging(done)
  PROVE  /\ Tick /\ SameBus /\ Pulses(0, 0) /\ Silent /\ Moved(sd.state, sd.bytecnt) /\ Aborting
         /\ card' = card /\ done = 0 /\ ~Asks /\ sd'.memBUF = sd.memBUF
<1>1. sd' = Ticked /\ card' = card /\ ~Asks /\ done = 0 /\ sd.state # "IDLE"
  BY DEF Exchanging, Moves, At, OnSPI
<1> QED BY <1>1, TickedType, TickedIs
        DEF Tick, SameBus, Bus, Pulses, Says, Silent, Moved, Aborting

(* Go, and Go with the card let go.                                        *)
LEMMA GoIs ==
  ASSUME sd \in SDRegisters, NEW next \in SDState, sd.state # "IDLE"
  PROVE  /\ Go(next) \in SDRegisters
         /\ sd' = Go(next) =>
              /\ Tick /\ SameBus /\ Pulses(0, 0) /\ Silent /\ Moved(next, 0) /\ Aborting
         /\ sd' = Deselect(Go(next)) =>
              /\ Tick /\ SameBus /\ Pulses(0, 0) /\ Says(sd.sdSTATE, 1) /\ Moved(next, 0)
              /\ Aborting
<1> DEFINE t == Ticked
           g == [t EXCEPT !.state = next, !.bytecnt = 0]
           d == [g EXCEPT !.CS = 1]
<1>1. Go(next) = g /\ Deselect(Go(next)) = d
  BY DEF Go, Deselect
<1> HIDE DEF t
<1>2. t \in SDRegisters
  BY TickedType DEF t
<1>3. /\ g.state = next /\ g.bytecnt = 0 /\ g.memADDR = t.memADDR /\ g.memREQ = t.memREQ
      /\ g.sdSTATE = t.sdSTATE /\ g.abort = t.abort
      /\ g.CS = t.CS /\ g.dmaRD = t.dmaRD /\ g.dmaWR = t.dmaWR /\ g.dmaDOUT = t.dmaDOUT
      /\ g.dmaADDR = t.dmaADDR /\ g.dmaREQ = t.dmaREQ /\ g.sdSTAT = t.sdSTAT
      /\ g \in SDRegisters
  BY <1>2 DEF SDRegisters
<1> HIDE DEF g
<1>4. /\ d.state = g.state /\ d.bytecnt = g.bytecnt /\ d.memADDR = g.memADDR
      /\ d.memREQ = g.memREQ /\ d.sdSTATE = g.sdSTATE /\ d.abort = g.abort
      /\ d.CS = 1 /\ d.dmaRD = g.dmaRD /\ d.dmaWR = g.dmaWR /\ d.dmaDOUT = g.dmaDOUT
      /\ d.dmaADDR = g.dmaADDR /\ d.dmaREQ = g.dmaREQ /\ d.sdSTAT = g.sdSTAT
      /\ d \in SDRegisters
  BY <1>3 DEF SDRegisters, Bit
<1> HIDE DEF d
<1> QED BY <1>1, <1>3, <1>4, TickedIs
        DEF t, Tick, SameBus, Bus, Pulses, Says, Silent, Moved, Aborting

(* Another turn in the same state. *)
LEMMA CountIs ==
  ASSUME sd \in SDRegisters, sd.state # "IDLE", NEW n \in Nat, sd' = [Ticked EXCEPT !.bytecnt = n]
  PROVE  Tick /\ SameBus /\ Pulses(0, 0) /\ Silent /\ Moved(sd.state, n) /\ Aborting
<1> DEFINE t == Ticked
<1> HIDE DEF t
<1>1. t \in SDRegisters /\ sd' = [t EXCEPT !.bytecnt = n]
  BY TickedType DEF t
<1>2. /\ sd'.state = t.state /\ sd'.bytecnt = n /\ sd'.memADDR = t.memADDR /\ sd'.memREQ = t.memREQ
      /\ sd'.sdSTATE = t.sdSTATE /\ sd'.abort = t.abort
      /\ sd'.CS = t.CS /\ sd'.dmaRD = t.dmaRD /\ sd'.dmaWR = t.dmaWR /\ sd'.dmaDOUT = t.dmaDOUT
      /\ sd'.dmaADDR = t.dmaADDR /\ sd'.dmaREQ = t.dmaREQ /\ sd'.sdSTAT = t.sdSTAT
      /\ sd' \in SDRegisters
  BY <1>1 DEF SDRegisters
<1> QED BY <1>2, TickedIs DEF t, Tick, SameBus, Bus, Pulses, Says, Silent, Moved, Aborting

(* A failure puts RWFAIL into both states and releases the card.           *)
LEMMA FailIs ==
  ASSUME sd \in SDRegisters, sd.state # "IDLE", sd' = Fail
  PROVE  Tick /\ SameBus /\ Aborting /\ Failing
<1>1. CASE sd.state \notin {"READ02", "READ03"}
  <2>1. sd' = Deselect(Go("RWFAIL"))
    BY <1>1 DEF Fail, At
  <2> QED BY <1>1, <2>1, GoIs DEF SDState, Failing
<1>2. CASE sd.state \in {"READ02", "READ03"}
  <2> DEFINE t == Ticked
             f == [t EXCEPT !.bytecnt = 0, !.sdSTATE = "RWFAIL"]
  <2>1. sd' = [f EXCEPT !.CS = 1]
    BY <1>2 DEF Fail, At, Deselect
  <2> HIDE DEF t
  <2>2. t \in SDRegisters
    BY TickedType DEF t
  <2>3. /\ f.state = t.state /\ f.bytecnt = 0 /\ f.memADDR = t.memADDR /\ f.memREQ = t.memREQ
        /\ f.sdSTATE = "RWFAIL" /\ f.abort = t.abort
        /\ f.CS = t.CS /\ f.dmaRD = t.dmaRD /\ f.dmaWR = t.dmaWR /\ f.dmaDOUT = t.dmaDOUT
        /\ f.dmaADDR = t.dmaADDR /\ f.dmaREQ = t.dmaREQ /\ f.sdSTAT = t.sdSTAT
        /\ f \in SDRegisters
    BY <2>2 DEF SDRegisters, Outward
  <2> HIDE DEF f
  <2>4. /\ sd'.state = f.state /\ sd'.bytecnt = f.bytecnt /\ sd'.memADDR = f.memADDR
        /\ sd'.memREQ = f.memREQ /\ sd'.sdSTATE = f.sdSTATE /\ sd'.abort = f.abort
        /\ sd'.CS = 1 /\ sd'.dmaRD = f.dmaRD /\ sd'.dmaWR = f.dmaWR /\ sd'.dmaDOUT = f.dmaDOUT
        /\ sd'.dmaADDR = f.dmaADDR /\ sd'.dmaREQ = f.dmaREQ /\ sd'.sdSTAT = f.sdSTAT
        /\ sd' \in SDRegisters
    BY <2>1, <2>3 DEF SDRegisters, Bit
  <2> QED BY <1>2, <2>3, <2>4, TickedIs
          DEF t, Tick, SameBus, Bus, Pulses, Says, Moved, Aborting, Failing
<1> QED BY <1>1, <1>2

(* The states that only send a byte, and the last ones. *)
LEMMA ByteStates ==
  ASSUME sd \in SDRegisters, NEW done,
         \/ Commanded(done) \/ AtWRITE03(done) \/ AtWRITE10(done) \/ AtFINI(done)
         \/ AtREAD09(done) \/ AtWRITE16(done)
  PROVE  /\ Tick /\ SameBus /\ Pulses(0, 0) /\ Aborting /\ card' = card /\ done = 1
         /\ Moved(CASE sd.state = "READ01" -> "READ02" [] sd.state = "WRITE01" -> "WRITE02"
                    [] sd.state = "WRITE13" -> "WRITE14" [] sd.state = "WRITE03" -> "WRITE04"
                    [] sd.state = "WRITE10" -> "WRITE11" [] sd.state = "FINI" -> "DONE"
                    [] OTHER -> "FINI", 0)
         /\ Says(sd.sdSTATE, IF sd.state \in {"READ09", "WRITE16"} THEN 1 ELSE sd.CS)
<1>1. CASE Commanded(done)
  BY <1>1, GoIs DEF Commanded, At, Moves, SDState, Says, Silent, OnSPI
<1>2. CASE AtWRITE03(done)
  BY <1>2, GoIs DEF AtWRITE03, At, Moves, SDState, Says, Silent, OnSPI
<1>3. CASE AtWRITE10(done)
  BY <1>3, GoIs DEF AtWRITE10, At, Moves, SDState, Says, Silent, OnSPI
<1>4. CASE AtFINI(done)
  BY <1>4, GoIs DEF AtFINI, At, Moves, SDState, Says, Silent, OnSPI
<1>5. CASE AtREAD09(done)
  BY <1>5, GoIs DEF AtREAD09, At, Moves, SDState, Says, Silent, OnSPI
<1>6. CASE AtWRITE16(done)
  BY <1>6, GoIs DEF AtWRITE16, At, Moves, SDState, Says, Silent, OnSPI
<1> QED BY <1>1, <1>2, <1>3, <1>4, <1>5, <1>6

(* A listening state hears nothing yet, what it waits for, or a failure. *)
Succeeded(next, rd) == Moved(next, 0) /\ Silent /\ Pulses(rd, 0)
Again == Moved(sd.state, sd.bytecnt + 1) /\ Silent /\ Pulses(0, 0)

(* Asking for an answer: one more character is exchanged.                  *)
LEMMA Listening ==
  ASSUME sd \in SDRegisters, Listen
  PROVE  Tick /\ SameBus /\ Aborting /\ card' = card /\ Asks /\ Again
<1>1. sd' = [Ticked EXCEPT !.bytecnt = 1] /\ card' = card /\ Asks /\ sd.bytecnt = 0
  BY DEF Listen, Moves, Asks
<1>2. sd.state # "IDLE"
  BY <1>1 DEF Asks, At
<1> QED BY <1>1, <1>2, CountIs DEF Again

(* An answer goes on waiting, fails or takes the command further.          *)
LEMMA Answering ==
  ASSUME sd \in SDRegisters, NEW done, NEW rxd, Answer(done, rxd)
  PROVE  /\ Tick /\ SameBus /\ Aborting /\ card' = card /\ done = 1 /\ ~Asks
         /\ \/ Again /\ rxd = "ff" /\ sd.bytecnt # Limit
            \/ Failing
            \/ rxd # "ff" /\ \/ sd.state = "READ02" /\ Succeeded("READ03", 0)
                             \/ sd.state = "READ03" /\ Succeeded("READ04", 0)
                             \/ sd.state = "WRITE02" /\ Succeeded("WRITE03", 1)
                             \/ sd.state = "WRITE14" /\ Succeeded("WRITE15", 0)
<1>1. /\ sd.state \in {"READ02", "READ03", "WRITE02", "WRITE14"} /\ done = 1 /\ ~Asks
      /\ card' = card
      /\ sd' = IF rxd # "ff" THEN Answered(rxd)
               ELSE IF sd.bytecnt = Limit THEN Fail
               ELSE [Ticked EXCEPT !.bytecnt = @ + 1]
  BY DEF Answer, Moves, At
<1>2. CASE rxd = "ff" /\ sd.bytecnt # Limit
  <2>1. sd.bytecnt + 1 \in Nat /\ Ticked.bytecnt = sd.bytecnt
    BY TickedIs DEF SDRegisters
  <2>2. sd' = [Ticked EXCEPT !.bytecnt = sd.bytecnt + 1]
    BY <1>1, <1>2, <2>1
  <2> QED BY <1>1, <1>2, <2>1, <2>2, CountIs DEF Again
<1>3. CASE sd' = Fail
  BY <1>1, <1>3, FailIs
<1>4. CASE rxd # "ff" /\ sd' # Fail
  <2>1. sd' = Answered(rxd)
    BY <1>1, <1>4
  <2>2. CASE sd.state = "READ02"
    <3>1. sd' = Go("READ03")
      BY <1>4, <2>1, <2>2 DEF Answered, At
    <3> QED BY <1>1, <1>4, <2>2, <3>1, GoIs DEF SDState, OnSPI, Succeeded
  <2>3. CASE sd.state = "READ03"
    <3>1. sd' = Go("READ04")
      BY <1>4, <2>1, <2>3 DEF Answered, At
    <3> QED BY <1>1, <1>4, <2>3, <3>1, GoIs DEF SDState, OnSPI, Succeeded
  <2>4. CASE sd.state = "WRITE14"
    <3>1. sd' = Go("WRITE15")
      BY <1>4, <2>1, <2>4 DEF Answered, At
    <3> QED BY <1>1, <1>4, <2>4, <3>1, GoIs DEF SDState, OnSPI, Succeeded
  <2>5. CASE sd.state = "WRITE02"
    <3> DEFINE g == [[Ticked EXCEPT !.state = "WRITE03", !.bytecnt = 0] EXCEPT !.dmaRD = 1]
               t == Ticked
    <3>1. sd' = g
      BY <1>4, <2>1, <2>5 DEF Answered, At, Go
    <3> HIDE DEF t
    <3>2. t \in SDRegisters /\ g = [t EXCEPT !.state = "WRITE03", !.bytecnt = 0, !.dmaRD = 1]
      BY TickedType DEF t, SDRegisters
    <3> HIDE DEF g
    <3>3. /\ g.state = "WRITE03" /\ g.bytecnt = 0 /\ g.memADDR = t.memADDR /\ g.memREQ = t.memREQ
          /\ g.sdSTATE = t.sdSTATE /\ g.abort = t.abort
          /\ g.CS = t.CS /\ g.dmaRD = 1 /\ g.dmaWR = t.dmaWR /\ g.dmaDOUT = t.dmaDOUT
          /\ g.dmaADDR = t.dmaADDR /\ g.dmaREQ = t.dmaREQ /\ g.sdSTAT = t.sdSTAT
          /\ g \in SDRegisters
      BY <3>2 DEF SDRegisters, Bit, SDState, OnSPI
    <3> QED BY <1>1, <1>4, <2>5, <3>1, <3>3, TickedIs
            DEF t, Tick, SameBus, Bus, Pulses, Says, Silent, Moved, Aborting, Succeeded
  <2> QED BY <1>1, <2>2, <2>3, <2>4, <2>5
<1> QED BY <1>1, <1>2, <1>3, <1>4

(* So does the response to a block written, and the wait while the card is *)
(* busy.                                                                   *)
LEMMA Responses ==
  ASSUME sd \in SDRegisters, NEW done, NEW rxd,
         AtWRITE11(done, rxd) \/ AtWRITE12(done, rxd) \/ AtWRITE15(done, rxd)
  PROVE  /\ Tick /\ SameBus /\ Aborting /\ card' = card /\ done = 1
         /\ \/ sd.state = "WRITE12" /\ Again /\ sd.bytecnt # nBZ /\ rxd = "00"
            \/ Failing
            \/ sd.state = "WRITE11" /\ Succeeded("WRITE12", 0)
            \/ sd.state = "WRITE12" /\ Succeeded("WRITE13", 0)
            \/ sd.state = "WRITE15" /\ Succeeded("WRITE16", 0)
<1>1. CASE AtWRITE11(done, rxd)
  <2>1. /\ sd.state = "WRITE11" /\ done = 1 /\ card' = card
        /\ sd' = IF rxd = "05" THEN Go("WRITE12") ELSE Fail
    BY <1>1 DEF AtWRITE11, At, Moves
  <2> QED BY <2>1, GoIs, FailIs DEF SDState, OnSPI, Succeeded
<1>2. CASE AtWRITE15(done, rxd)
  <2>1. /\ sd.state = "WRITE15" /\ done = 1 /\ card' = card
        /\ sd' = IF rxd = "00" THEN Go("WRITE16") ELSE Fail
    BY <1>2 DEF AtWRITE15, At, Moves
  <2> QED BY <2>1, GoIs, FailIs DEF SDState, OnSPI, Succeeded
<1>3. CASE AtWRITE12(done, rxd)
  <2>1. sd.bytecnt + 1 \in Nat /\ Ticked.bytecnt = sd.bytecnt
    BY TickedIs DEF SDRegisters
  <2>2. /\ sd.state = "WRITE12" /\ done = 1 /\ card' = card
        /\ sd' = IF rxd # "00" THEN Go("WRITE13")
                 ELSE IF sd.bytecnt = nBZ THEN Fail
                 ELSE [Ticked EXCEPT !.bytecnt = sd.bytecnt + 1]
    BY <1>3, <2>1 DEF AtWRITE12, At, Moves
  <2> QED BY <2>1, <2>2, GoIs, FailIs, CountIs DEF SDState, OnSPI, Succeeded, Again
<1> QED BY <1>1, <1>2, <1>3

-----------------------------------------------------------------------------
(* The next address of the memory is an address: bits 14:0 count alone.    *)
LEMMA Next15Type == ASSUME NEW a \in Address PROVE Next15(a) \in Address
<1>1. PICK n \in Int : n = a /\ 0 <= n /\ n < 32768
  BY Ranges
<1>2. PICK m \in Int : m = (n + 1) % 32768 /\ 0 <= m /\ m < 32768
  BY <1>1
<1>3. m \in Address
  BY <1>2, Ranges
<1> QED BY <1>1, <1>2, <1>3 DEF Next15

(* The states that handle words, while nothing is aborted.                 *)
LEMMA AskingRead ==
  ASSUME sd \in SDRegisters, AtREAD07
  PROVE  /\ Tick /\ SameBus /\ Silent /\ Aborting /\ card' = card
         /\ Moved("READ08", sd.bytecnt) /\ Pulses(0, sd.memREQ)
<1> DEFINE t == Ticked
<1>1. sd' = [t EXCEPT !.state = "READ08", !.dmaWR = sd.memREQ]
  BY DEF AtREAD07, Moves
<1> HIDE DEF t
<1>2. t \in SDRegisters /\ sd' = [t EXCEPT !.state = "READ08", !.dmaWR = sd.memREQ]
  BY <1>1, TickedType DEF t
<1>3. /\ sd'.state = "READ08" /\ sd'.bytecnt = t.bytecnt
      /\ sd'.memADDR = t.memADDR /\ sd'.memREQ = t.memREQ
      /\ sd'.memBUF = t.memBUF /\ sd'.sdSTATE = t.sdSTATE /\ sd'.abort = t.abort
      /\ sd'.CS = t.CS /\ sd'.dmaRD = t.dmaRD /\ sd'.dmaWR = sd.memREQ
      /\ sd'.dmaDOUT = t.dmaDOUT /\ sd'.dmaADDR = t.dmaADDR
      /\ sd'.dmaREQ = t.dmaREQ /\ sd'.sdSTAT = t.sdSTAT
      /\ sd' \in SDRegisters
  BY <1>2 DEF SDRegisters, Bit, SDState
<1> QED BY <1>3, TickedIs
        DEF AtREAD07, At, Moves, t, Tick, SameBus, Bus, Pulses, Says, Silent, Moved, Aborting

(* WRITE06 asks for the word of memory it will send.                       *)
LEMMA AskingWrite ==
  ASSUME sd \in SDRegisters, AtWRITE06
  PROVE  /\ Tick /\ SameBus /\ Silent /\ Aborting /\ card' = card
         /\ Moved("WRITE07", sd.bytecnt) /\ Pulses(sd.memREQ, 0)
<1> DEFINE t == Ticked
<1>1. sd' = [t EXCEPT !.state = "WRITE07", !.dmaRD = sd.memREQ]
  BY DEF AtWRITE06, Moves
<1> HIDE DEF t
<1>2. t \in SDRegisters /\ sd' = [t EXCEPT !.state = "WRITE07", !.dmaRD = sd.memREQ]
  BY <1>1, TickedType DEF t
<1>3. /\ sd'.state = "WRITE07" /\ sd'.bytecnt = t.bytecnt
      /\ sd'.memADDR = t.memADDR /\ sd'.memREQ = t.memREQ
      /\ sd'.memBUF = t.memBUF /\ sd'.sdSTATE = t.sdSTATE /\ sd'.abort = t.abort
      /\ sd'.CS = t.CS /\ sd'.dmaRD = sd.memREQ /\ sd'.dmaWR = t.dmaWR
      /\ sd'.dmaDOUT = t.dmaDOUT /\ sd'.dmaADDR = t.dmaADDR
      /\ sd'.dmaREQ = t.dmaREQ /\ sd'.sdSTAT = t.sdSTAT
      /\ sd' \in SDRegisters
  BY <1>2 DEF SDRegisters, Bit, SDState
<1> QED BY <1>3, TickedIs
        DEF AtWRITE06, At, Moves, t, Tick, SameBus, Bus, Pulses, Says, Silent, Moved, Aborting

(* READ04 and WRITE05 ask for the bus and wait for the grant.              *)
LEMMA Granting ==
  ASSUME sd \in SDRegisters, Granted
  PROVE  /\ Tick /\ Bus(sd.memADDR, 1, sd.dmaDOUT) /\ Silent /\ Pulses(0, 0) /\ Aborting
         /\ card' = card /\ sd'.bytecnt = 0
         /\ \/ sd'.state = sd.state
            \/ sd'.state = (IF sd.state = "READ04" THEN "READ05" ELSE "WRITE06")
<1> DEFINE t == Ticked
           next == IF rk.dmaGNT = 0 THEN sd.state
                   ELSE IF sd.state = "READ04" THEN "READ05" ELSE "WRITE06"
<1>0. next \in SDState /\ (sd.state = "READ04" \/ sd.state = "WRITE05") /\ card' = card
  BY DEF Granted, At, Moves, SDState, OnSPI
<1>1. sd' = [t EXCEPT !.memREQ = 1, !.bytecnt = 0, !.state = next]
  BY DEF Granted, Moves, At
<1> HIDE DEF t
<1>2. t \in SDRegisters /\ sd' = [t EXCEPT !.memREQ = 1, !.bytecnt = 0, !.state = next]
  BY <1>1, TickedType DEF t
<1> HIDE DEF next
<1>3. /\ sd'.state = next /\ sd'.bytecnt = 0 /\ sd'.memADDR = t.memADDR
      /\ sd'.memREQ = 1 /\ sd'.memBUF = t.memBUF /\ sd'.sdSTATE = t.sdSTATE
      /\ sd'.abort = t.abort /\ sd'.CS = t.CS /\ sd'.dmaRD = t.dmaRD
      /\ sd'.dmaWR = t.dmaWR /\ sd'.dmaDOUT = t.dmaDOUT
      /\ sd'.dmaADDR = t.dmaADDR /\ sd'.dmaREQ = t.dmaREQ
      /\ sd'.sdSTAT = t.sdSTAT
      /\ sd' \in SDRegisters
  BY <1>2, <1>0 DEF SDRegisters, Bit, SDState, OnSPI
<1> QED BY <1>0, <1>3, TickedIs
        DEF next, t, Tick, SameBus, Bus, Pulses, Says, Silent, Moved, Aborting

(* DONE is shown for one edge.                                             *)
LEMMA DoneEdge ==
  ASSUME sd \in SDRegisters, AtDONE
  PROVE  /\ Tick /\ SameBus /\ Pulses(0, 0) /\ Aborting /\ card' = card
         /\ Moved("IDLE", sd.bytecnt) /\ Says("DONE", sd.CS)
<1> DEFINE t == Ticked
<1>1. sd' = [t EXCEPT !.state = "IDLE", !.sdSTATE = "DONE"]
  BY DEF AtDONE, Moves
<1> HIDE DEF t
<1>2. t \in SDRegisters /\ sd' = [t EXCEPT !.state = "IDLE", !.sdSTATE = "DONE"]
  BY <1>1, TickedType DEF t
<1>3. /\ sd'.state = "IDLE" /\ sd'.bytecnt = t.bytecnt /\ sd'.memADDR = t.memADDR
      /\ sd'.memREQ = t.memREQ /\ sd'.memBUF = t.memBUF /\ sd'.sdSTATE = "DONE"
      /\ sd'.abort = t.abort /\ sd'.CS = t.CS /\ sd'.dmaRD = t.dmaRD
      /\ sd'.dmaWR = t.dmaWR /\ sd'.dmaDOUT = t.dmaDOUT
      /\ sd'.dmaADDR = t.dmaADDR /\ sd'.dmaREQ = t.dmaREQ
      /\ sd'.sdSTAT = t.sdSTAT
      /\ sd' \in SDRegisters
  BY <1>2 DEF SDRegisters, SDState, Outward
<1> QED BY <1>3, TickedIs
        DEF AtDONE, At, Moves, t, Tick, SameBus, Bus, Pulses, Says, Moved, Aborting

(* RWFAIL stays.                                                           *)
LEMMA FailedEdge ==
  ASSUME sd \in SDRegisters, AtRWFAIL
  PROVE  /\ Tick /\ SameBus /\ Pulses(0, 0) /\ Aborting /\ card' = card
         /\ Moved("RWFAIL", sd.bytecnt) /\ Says("RWFAIL", sd.CS)
<1> DEFINE t == Ticked
<1>1. sd' = [t EXCEPT !.sdSTATE = "RWFAIL"]
  BY DEF AtRWFAIL, Moves
<1> HIDE DEF t
<1>2. t \in SDRegisters /\ sd' = [t EXCEPT !.sdSTATE = "RWFAIL"]
  BY <1>1, TickedType DEF t
<1>3. /\ sd'.state = t.state /\ sd'.bytecnt = t.bytecnt
      /\ sd'.memADDR = t.memADDR /\ sd'.memREQ = t.memREQ
      /\ sd'.memBUF = t.memBUF /\ sd'.sdSTATE = "RWFAIL" /\ sd'.abort = t.abort
      /\ sd'.CS = t.CS /\ sd'.dmaRD = t.dmaRD /\ sd'.dmaWR = t.dmaWR
      /\ sd'.dmaDOUT = t.dmaDOUT /\ sd'.dmaADDR = t.dmaADDR
      /\ sd'.dmaREQ = t.dmaREQ /\ sd'.sdSTAT = t.sdSTAT
      /\ sd' \in SDRegisters
  BY <1>2 DEF SDRegisters, SDState, Outward
<1> QED BY <1>3, TickedIs
        DEF AtRWFAIL, At, Moves, t, Tick, SameBus, Bus, Pulses, Says, Moved, Aborting

(* WRITE04 sends the start token of the block.                             *)
LEMMA WritingOn ==
  ASSUME sd \in SDRegisters, NEW done, AtWRITE04(done)
  PROVE  /\ Tick /\ Bus(Next15(sd.memADDR), sd.memREQ, sd.dmaDOUT) /\ Silent /\ Aborting
         /\ card' = card /\ Moved("WRITE05", 0) /\ Pulses(0, 0) /\ done = 1
<1> DEFINE t == Ticked
<1>1. Next15(sd.memADDR) \in Address /\ sd.state = "WRITE04" /\ card' = card /\ done = 1
  BY Next15Type DEF AtWRITE04, At, Moves, SDRegisters
<1>2. sd' = [t EXCEPT !.state = "WRITE05", !.bytecnt = 0, !.memADDR = Next15(sd.memADDR)]
  BY TickedIs DEF AtWRITE04, Moves, Go, SDRegisters
<1> HIDE DEF t
<1>3. t \in SDRegisters /\ sd' = [t EXCEPT !.state = "WRITE05", !.bytecnt = 0,
                                           !.memADDR = Next15(sd.memADDR)]
  BY <1>2, TickedType DEF t
<1>4. /\ sd'.state = "WRITE05" /\ sd'.bytecnt = 0
      /\ sd'.memADDR = Next15(sd.memADDR) /\ sd'.memREQ = t.memREQ
      /\ sd'.memBUF = t.memBUF /\ sd'.sdSTATE = t.sdSTATE /\ sd'.abort = t.abort
      /\ sd'.CS = t.CS /\ sd'.dmaRD = t.dmaRD /\ sd'.dmaWR = t.dmaWR
      /\ sd'.dmaDOUT = t.dmaDOUT /\ sd'.dmaADDR = t.dmaADDR
      /\ sd'.dmaREQ = t.dmaREQ /\ sd'.sdSTAT = t.sdSTAT
      /\ sd' \in SDRegisters
  BY <1>1, <1>3 DEF SDRegisters, SDState, OnSPI
<1> QED BY <1>1, <1>4, TickedIs
        DEF t, Tick, SameBus, Bus, Pulses, Says, Silent, Moved, Aborting

(* WRITE07 takes the word in and sends its low half, or 0 past a half      *)
(* block.                                                                  *)
LEMMA LowSent ==
  ASSUME sd \in SDRegisters, NEW din \in Word, AtWRITE07(din)
  PROVE  /\ Tick /\ Bus(Next15(sd.memADDR), sd.memREQ, sd.dmaDOUT) /\ Silent /\ Aborting
         /\ Moved("WRITE08", sd.bytecnt) /\ Pulses(0, 0)
         /\ sd'.memBUF = (IF sd.memREQ = 1 THEN HighByte(din) ELSE 0)
         /\ card' = [card EXCEPT !.got = Append(@, IF sd.memREQ = 1 THEN LowByte(din) ELSE 0)]
<1> DEFINE t == Ticked
<1>1. /\ Next15(sd.memADDR) \in Address /\ sd.state = "WRITE07"
      /\ card' = [card EXCEPT !.got = Append(@, IF sd.memREQ = 1 THEN LowByte(din) ELSE 0)]
      /\ (IF sd.memREQ = 1 THEN HighByte(din) ELSE 0) \in Nibble
  <2>1. HighByte(din) \in Nibble /\ 0 \in Nibble
    BY Halves, Ranges
  <2> QED BY <2>1, Next15Type DEF AtWRITE07, At, ToCard, SDRegisters
<1>2. sd' = [t EXCEPT !.state = "WRITE08", !.memADDR = Next15(sd.memADDR),
                      !.memBUF = (IF sd.memREQ = 1 THEN HighByte(din) ELSE 0)]
  BY TickedIs DEF AtWRITE07
<1> HIDE DEF t
<1>3. t \in SDRegisters /\ sd' = [t EXCEPT !.state = "WRITE08", !.memADDR = Next15(sd.memADDR),
                                           !.memBUF = (IF sd.memREQ = 1 THEN HighByte(din) ELSE 0)]
  BY <1>2, TickedType DEF t
<1>4. /\ sd'.state = "WRITE08" /\ sd'.bytecnt = t.bytecnt
      /\ sd'.memADDR = Next15(sd.memADDR) /\ sd'.memREQ = t.memREQ
      /\ sd'.memBUF = (IF sd.memREQ = 1 THEN HighByte(din) ELSE 0)
      /\ sd'.sdSTATE = t.sdSTATE /\ sd'.abort = t.abort /\ sd'.CS = t.CS
      /\ sd'.dmaRD = t.dmaRD /\ sd'.dmaWR = t.dmaWR /\ sd'.dmaDOUT = t.dmaDOUT
      /\ sd'.dmaADDR = t.dmaADDR /\ sd'.dmaREQ = t.dmaREQ
      /\ sd'.sdSTAT = t.sdSTAT
      /\ sd' \in SDRegisters
  BY <1>1, <1>3 DEF SDRegisters, SDState, OnSPI
<1> QED BY <1>1, <1>4, TickedIs
        DEF t, Tick, SameBus, Bus, Pulses, Says, Silent, Moved, Aborting

(* WRITE08 sends the half kept in memBUF.                                  *)
LEMMA HighSent ==
  ASSUME sd \in SDRegisters, NEW done, AtWRITE08(done)
  PROVE  /\ Tick /\ SameBus /\ Silent /\ Aborting
         /\ Moved("WRITE09", sd.bytecnt + 1) /\ Pulses(0, 0) /\ done = 1
         /\ card' = [card EXCEPT !.got = Append(@, sd.memBUF)]
<1> DEFINE t == Ticked
<1>1. /\ sd.bytecnt + 1 \in Nat /\ sd.state = "WRITE08" /\ done = 1
      /\ card' = [card EXCEPT !.got = Append(@, sd.memBUF)]
  BY DEF AtWRITE08, At, ToCard, SDRegisters
<1>2. sd' = [t EXCEPT !.state = "WRITE09", !.bytecnt = sd.bytecnt + 1]
  BY TickedIs DEF AtWRITE08
<1> HIDE DEF t
<1>3. t \in SDRegisters /\ sd' = [t EXCEPT !.state = "WRITE09", !.bytecnt = sd.bytecnt + 1]
  BY <1>2, TickedType DEF t
<1>4. /\ sd'.state = "WRITE09" /\ sd'.bytecnt = sd.bytecnt + 1
      /\ sd'.memADDR = t.memADDR /\ sd'.memREQ = t.memREQ
      /\ sd'.memBUF = t.memBUF /\ sd'.sdSTATE = t.sdSTATE /\ sd'.abort = t.abort
      /\ sd'.CS = t.CS /\ sd'.dmaRD = t.dmaRD /\ sd'.dmaWR = t.dmaWR
      /\ sd'.dmaDOUT = t.dmaDOUT /\ sd'.dmaADDR = t.dmaADDR
      /\ sd'.dmaREQ = t.dmaREQ /\ sd'.sdSTAT = t.sdSTAT
      /\ sd' \in SDRegisters
  BY <1>1, <1>3 DEF SDRegisters, SDState, OnSPI
<1> QED BY <1>1, <1>4, TickedIs
        DEF t, Tick, SameBus, Bus, Pulses, Says, Silent, Moved, Aborting

(* READ05 puts the first character of the card into the low half of the    *)
(* word.                                                                   *)
LEMMA LowRead ==
  ASSUME sd \in SDRegisters, NEW done, AtREAD05(done), Byte \in Nat
  PROVE  /\ Tick /\ Silent /\ Aborting
         /\ Bus(sd.memADDR, sd.memREQ, 256 * HighByte(sd.dmaDOUT) + LowByte(Byte))
         /\ Moved("READ06", sd.bytecnt + 1) /\ Pulses(0, 0) /\ done = 1
         /\ card' = [card EXCEPT !.sent = @ + 1]
<1> DEFINE t == Ticked
           w == 256 * HighByte(sd.dmaDOUT) + LowByte(Byte)
<1>1. /\ sd.bytecnt + 1 \in Nat /\ sd.state = "READ05" /\ done = 1
      /\ card' = [card EXCEPT !.sent = @ + 1]
      /\ w \in Word
  <2>1. HighByte(sd.dmaDOUT) \in Nibble /\ LowByte(Byte) \in Octet
    BY Ranges, Halves DEF SDRegisters
  <2> QED BY <2>1, Assembled DEF AtREAD05, At, SDRegisters
<1>2. sd' = [t EXCEPT !.state = "READ06", !.bytecnt = sd.bytecnt + 1, !.dmaDOUT = w]
  BY TickedIs DEF AtREAD05
<1> HIDE DEF t, w
<1>3. t \in SDRegisters /\ sd' = [t EXCEPT !.state = "READ06", !.bytecnt = sd.bytecnt + 1,
                                           !.dmaDOUT = w]
  BY <1>2, TickedType DEF t
<1>4. /\ sd'.state = "READ06" /\ sd'.bytecnt = sd.bytecnt + 1
      /\ sd'.memADDR = t.memADDR /\ sd'.memREQ = t.memREQ
      /\ sd'.memBUF = t.memBUF /\ sd'.sdSTATE = t.sdSTATE /\ sd'.abort = t.abort
      /\ sd'.CS = t.CS /\ sd'.dmaRD = t.dmaRD /\ sd'.dmaWR = t.dmaWR
      /\ sd'.dmaDOUT = w
      /\ sd'.dmaADDR = t.dmaADDR /\ sd'.dmaREQ = t.dmaREQ
      /\ sd'.sdSTAT = t.sdSTAT
      /\ sd' \in SDRegisters
  BY <1>1, <1>3 DEF SDRegisters, SDState, OnSPI
<1> QED BY <1>1, <1>4, TickedIs
        DEF w, t, Tick, SameBus, Bus, Pulses, Says, Silent, Moved, Aborting

(* READ06 puts the second into the high half.                              *)
LEMMA HighRead ==
  ASSUME sd \in SDRegisters, NEW done, AtREAD06(done), Byte \in Nat
  PROVE  /\ Tick /\ Silent /\ Aborting
         /\ Bus(sd.memADDR, sd.memREQ, 256 * HighByte(Byte) + LowByte(sd.dmaDOUT))
         /\ Moved("READ07", sd.bytecnt) /\ Pulses(0, 0) /\ done = 1
         /\ card' = [card EXCEPT !.sent = @ + 1]
<1> DEFINE t == Ticked
           w == 256 * HighByte(Byte) + LowByte(sd.dmaDOUT)
<1>1. /\ sd.state = "READ06" /\ done = 1
      /\ card' = [card EXCEPT !.sent = @ + 1]
      /\ w \in Word
  <2>1. HighByte(Byte) \in Nibble /\ LowByte(sd.dmaDOUT) \in Octet
    BY Ranges, Halves DEF SDRegisters
  <2> QED BY <2>1, Assembled DEF AtREAD06, At, SDRegisters
<1>2. sd' = [t EXCEPT !.state = "READ07", !.dmaDOUT = w]
  BY TickedIs DEF AtREAD06
<1> HIDE DEF t, w
<1>3. t \in SDRegisters /\ sd' = [t EXCEPT !.state = "READ07", !.dmaDOUT = w]
  BY <1>2, TickedType DEF t
<1>4. /\ sd'.state = "READ07" /\ sd'.bytecnt = t.bytecnt
      /\ sd'.memADDR = t.memADDR /\ sd'.memREQ = t.memREQ
      /\ sd'.memBUF = t.memBUF /\ sd'.sdSTATE = t.sdSTATE /\ sd'.abort = t.abort
      /\ sd'.CS = t.CS /\ sd'.dmaRD = t.dmaRD /\ sd'.dmaWR = t.dmaWR
      /\ sd'.dmaDOUT = w
      /\ sd'.dmaADDR = t.dmaADDR /\ sd'.dmaREQ = t.dmaREQ
      /\ sd'.sdSTAT = t.sdSTAT
      /\ sd' \in SDRegisters
  BY <1>1, <1>3 DEF SDRegisters, SDState, OnSPI
<1> QED BY <1>1, <1>4, TickedIs
        DEF w, t, Tick, SameBus, Bus, Pulses, Says, Silent, Moved, Aborting

(* After a word: the last, one of a half block that is left alone, another. *)
NoAbort == sd.abort = 0

(* READ08: the next word, the end of the block, or past a half block.      *)
LEMMA WordRead ==
  ASSUME sd \in SDRegisters, AtREAD08, NoAbort
  PROVE  /\ Tick /\ Silent /\ Pulses(0, 0) /\ Aborting /\ card' = card
         /\ IF sd.bytecnt = 2 * Words - 1
            THEN Moved("READ09", 0) /\ Bus(Next15(sd.memADDR), 0, sd.dmaDOUT)
            ELSE /\ Moved("READ05", sd.bytecnt + 1)
                 /\ IF sd.bytecnt >= Words - 1 /\ sd.bytecnt <= 2 * Words - 2 /\ sdLEN = 1
                    THEN Bus(sd.memADDR, 0, sd.dmaDOUT)
                    ELSE Bus(Next15(sd.memADDR), sd.memREQ, sd.dmaDOUT)
<1> DEFINE t == Ticked
           last == sd.bytecnt = 2 * Words - 1
           rest == sd.bytecnt >= Words - 1 /\ sd.bytecnt <= 2 * Words - 2 /\ sdLEN = 1
<1>1. /\ sd' = AfterRead /\ card' = card /\ sd.state = "READ08" /\ sd.bytecnt + 1 \in Nat
      /\ Next15(sd.memADDR) \in Address
      /\ t.bytecnt = sd.bytecnt /\ t.memADDR = sd.memADDR
  BY Next15Type, TickedIs DEF AtREAD08, Moves, At, SDRegisters
<1>2. t \in SDRegisters
  BY TickedType
<1>3. /\ rest <=> sd.bytecnt \in (Words - 1)..((2 * Words) - 2) /\ sdLEN = 1
      /\ ~(last /\ rest)
  BY WordsAssumption DEF SDRegisters
<1>4. AfterRead = IF last THEN [Go("READ09") EXCEPT !.memREQ = 0, !.memADDR = Next15(@)]
                  ELSE IF rest
                  THEN [t EXCEPT !.state = "READ05", !.bytecnt = @ + 1, !.memREQ = 0]
                  ELSE [t EXCEPT !.state = "READ05", !.bytecnt = @ + 1, !.memADDR = Next15(@)]
  <2> HIDE DEF rest
  <2> QED BY <1>3 DEF AfterRead, NoAbort
<1> HIDE DEF rest, last
<1>5. CASE last
  <2>1. sd' = [t EXCEPT !.state = "READ09", !.bytecnt = 0, !.memREQ = 0,
                        !.memADDR = Next15(sd.memADDR)]
    BY <1>1, <1>2, <1>4, <1>5 DEF Go, SDRegisters
  <2> HIDE DEF t
  <2>2. /\ t \in SDRegisters /\ sd.bytecnt + 1 \in Nat /\ Next15(sd.memADDR) \in Address
        /\ sd' = [t EXCEPT !.state = "READ09", !.bytecnt = 0, !.memREQ = 0,
                           !.memADDR = Next15(sd.memADDR)]
    BY <1>1, <2>1, TickedType, Next15Type DEF t, SDRegisters
  <2>3. /\ sd'.state = "READ09" /\ sd'.bytecnt = 0
        /\ sd'.memADDR = Next15(sd.memADDR) /\ sd'.memREQ = 0
        /\ sd'.memBUF = t.memBUF /\ sd'.sdSTATE = t.sdSTATE /\ sd'.abort = t.abort
        /\ sd'.CS = t.CS /\ sd'.dmaRD = t.dmaRD /\ sd'.dmaWR = t.dmaWR
        /\ sd'.dmaDOUT = t.dmaDOUT /\ sd'.dmaADDR = t.dmaADDR
        /\ sd'.dmaREQ = t.dmaREQ /\ sd'.sdSTAT = t.sdSTAT
        /\ sd' \in SDRegisters
    BY <2>2 DEF SDRegisters, SDState, OnSPI, Bit
  <2>4. Tick /\ Silent /\ Pulses(0, 0) /\ Aborting /\ Moved("READ09", 0)
        /\ Bus(Next15(sd.memADDR), 0, sd.dmaDOUT)
    BY <1>1, <2>3, TickedIs
       DEF t, Tick, Bus, Pulses, Says, Silent, Moved, Aborting
  <2> QED BY <1>1, <1>5, <2>4 DEF last, rest, SameBus
<1>6. CASE ~last /\ rest
  <2>1. sd' = [t EXCEPT !.state = "READ05", !.bytecnt = sd.bytecnt + 1, !.memREQ = 0]
    BY <1>1, <1>4, <1>6
  <2> HIDE DEF t
  <2>2. /\ t \in SDRegisters /\ sd.bytecnt + 1 \in Nat /\ Next15(sd.memADDR) \in Address
        /\ sd' = [t EXCEPT !.state = "READ05", !.bytecnt = sd.bytecnt + 1, !.memREQ = 0]
    BY <1>1, <2>1, TickedType, Next15Type DEF t, SDRegisters
  <2>3. /\ sd'.state = "READ05" /\ sd'.bytecnt = sd.bytecnt + 1
        /\ sd'.memADDR = t.memADDR /\ sd'.memREQ = 0 /\ sd'.memBUF = t.memBUF
        /\ sd'.sdSTATE = t.sdSTATE /\ sd'.abort = t.abort /\ sd'.CS = t.CS
        /\ sd'.dmaRD = t.dmaRD /\ sd'.dmaWR = t.dmaWR /\ sd'.dmaDOUT = t.dmaDOUT
        /\ sd'.dmaADDR = t.dmaADDR /\ sd'.dmaREQ = t.dmaREQ
        /\ sd'.sdSTAT = t.sdSTAT
        /\ sd' \in SDRegisters
    BY <2>2 DEF SDRegisters, SDState, OnSPI, Bit
  <2>4. Tick /\ Silent /\ Pulses(0, 0) /\ Aborting /\ Moved("READ05", sd.bytecnt + 1)
        /\ Bus(sd.memADDR, 0, sd.dmaDOUT)
    BY <1>1, <2>3, TickedIs
       DEF t, Tick, Bus, Pulses, Says, Silent, Moved, Aborting
  <2> QED BY <1>1, <1>6, <2>4 DEF last, rest, SameBus
<1>7. CASE ~last /\ ~rest
  <2>1. sd' = [t EXCEPT !.state = "READ05", !.bytecnt = sd.bytecnt + 1,
                        !.memADDR = Next15(sd.memADDR)]
    BY <1>1, <1>4, <1>7
  <2> HIDE DEF t
  <2>2. /\ t \in SDRegisters /\ sd.bytecnt + 1 \in Nat /\ Next15(sd.memADDR) \in Address
        /\ sd' = [t EXCEPT !.state = "READ05", !.bytecnt = sd.bytecnt + 1,
                           !.memADDR = Next15(sd.memADDR)]
    BY <1>1, <2>1, TickedType, Next15Type DEF t, SDRegisters
  <2>3. /\ sd'.state = "READ05" /\ sd'.bytecnt = sd.bytecnt + 1
        /\ sd'.memADDR = Next15(sd.memADDR) /\ sd'.memREQ = t.memREQ
        /\ sd'.memBUF = t.memBUF /\ sd'.sdSTATE = t.sdSTATE /\ sd'.abort = t.abort
        /\ sd'.CS = t.CS /\ sd'.dmaRD = t.dmaRD /\ sd'.dmaWR = t.dmaWR
        /\ sd'.dmaDOUT = t.dmaDOUT /\ sd'.dmaADDR = t.dmaADDR
        /\ sd'.dmaREQ = t.dmaREQ /\ sd'.sdSTAT = t.sdSTAT
        /\ sd' \in SDRegisters
    BY <2>2 DEF SDRegisters, SDState, OnSPI, Bit
  <2>4. Tick /\ Silent /\ Pulses(0, 0) /\ Aborting /\ Moved("READ05", sd.bytecnt + 1)
        /\ Bus(Next15(sd.memADDR), sd.memREQ, sd.dmaDOUT)
    BY <1>1, <2>3, TickedIs
       DEF t, Tick, Bus, Pulses, Says, Silent, Moved, Aborting
  <2> QED BY <1>1, <1>7, <2>4 DEF last, rest, SameBus
<1> QED BY <1>5, <1>6, <1>7 DEF last, rest

(* WRITE09: the same of a block written.                                   *)
LEMMA WordSent ==
  ASSUME sd \in SDRegisters, NEW done, AtWRITE09(done), NoAbort
  PROVE  /\ Tick /\ Silent /\ Pulses(0, 0) /\ Aborting /\ card' = card /\ done = 1
         /\ IF sd.bytecnt = 2 * Words - 3
            THEN Moved("WRITE10", 0) /\ Bus(sd.memADDR, 0, sd.dmaDOUT)
            ELSE /\ Moved("WRITE06", sd.bytecnt + 1)
                 /\ IF sd.bytecnt = Words - 3 /\ sdLEN = 1
                    THEN Bus(sd.memADDR, 0, sd.dmaDOUT)
                    ELSE SameBus
<1> DEFINE t == Ticked
           last == sd.bytecnt = 2 * Words - 3
           rest == sd.bytecnt = Words - 3 /\ sdLEN = 1
<1>1. /\ sd' = AfterWrite /\ card' = card /\ sd.state = "WRITE09" /\ sd.bytecnt + 1 \in Nat
      /\ done = 1 /\ t.bytecnt = sd.bytecnt
  BY TickedIs DEF AtWRITE09, Moves, At, SDRegisters
<1>2. t \in SDRegisters
  BY TickedType
<1>3. ~(last /\ rest)
  BY WordsAssumption DEF SDRegisters
<1>4. AfterWrite = IF last THEN [Go("WRITE10") EXCEPT !.memREQ = 0]
                   ELSE IF rest
                   THEN [t EXCEPT !.state = "WRITE06", !.bytecnt = @ + 1, !.memREQ = 0]
                   ELSE [t EXCEPT !.state = "WRITE06", !.bytecnt = @ + 1]
  BY <1>3 DEF AfterWrite, NoAbort
<1> HIDE DEF rest, last
<1>5. CASE last
  <2>1. sd' = [t EXCEPT !.state = "WRITE10", !.bytecnt = 0, !.memREQ = 0]
    BY <1>1, <1>2, <1>4, <1>5 DEF Go, SDRegisters
  <2> HIDE DEF t
  <2>2. /\ t \in SDRegisters /\ sd.bytecnt + 1 \in Nat /\ Next15(sd.memADDR) \in Address
        /\ sd' = [t EXCEPT !.state = "WRITE10", !.bytecnt = 0, !.memREQ = 0]
    BY <1>1, <2>1, TickedType, Next15Type DEF t, SDRegisters
  <2>3. /\ sd'.state = "WRITE10" /\ sd'.bytecnt = 0 /\ sd'.memADDR = t.memADDR
        /\ sd'.memREQ = 0 /\ sd'.memBUF = t.memBUF /\ sd'.sdSTATE = t.sdSTATE
        /\ sd'.abort = t.abort /\ sd'.CS = t.CS /\ sd'.dmaRD = t.dmaRD
        /\ sd'.dmaWR = t.dmaWR /\ sd'.dmaDOUT = t.dmaDOUT
        /\ sd'.dmaADDR = t.dmaADDR /\ sd'.dmaREQ = t.dmaREQ
        /\ sd'.sdSTAT = t.sdSTAT
        /\ sd' \in SDRegisters
    BY <2>2 DEF SDRegisters, SDState, OnSPI, Bit
  <2>4. Tick /\ Silent /\ Pulses(0, 0) /\ Aborting /\ Moved("WRITE10", 0)
        /\ Bus(sd.memADDR, 0, sd.dmaDOUT)
    BY <1>1, <2>3, TickedIs
       DEF t, Tick, Bus, Pulses, Says, Silent, Moved, Aborting
  <2> QED BY <1>1, <1>5, <2>4 DEF last, rest, SameBus
<1>6. CASE ~last /\ rest
  <2>1. sd' = [t EXCEPT !.state = "WRITE06", !.bytecnt = sd.bytecnt + 1, !.memREQ = 0]
    BY <1>1, <1>4, <1>6
  <2> HIDE DEF t
  <2>2. /\ t \in SDRegisters /\ sd.bytecnt + 1 \in Nat /\ Next15(sd.memADDR) \in Address
        /\ sd' = [t EXCEPT !.state = "WRITE06", !.bytecnt = sd.bytecnt + 1, !.memREQ = 0]
    BY <1>1, <2>1, TickedType, Next15Type DEF t, SDRegisters
  <2>3. /\ sd'.state = "WRITE06" /\ sd'.bytecnt = sd.bytecnt + 1
        /\ sd'.memADDR = t.memADDR /\ sd'.memREQ = 0 /\ sd'.memBUF = t.memBUF
        /\ sd'.sdSTATE = t.sdSTATE /\ sd'.abort = t.abort /\ sd'.CS = t.CS
        /\ sd'.dmaRD = t.dmaRD /\ sd'.dmaWR = t.dmaWR /\ sd'.dmaDOUT = t.dmaDOUT
        /\ sd'.dmaADDR = t.dmaADDR /\ sd'.dmaREQ = t.dmaREQ
        /\ sd'.sdSTAT = t.sdSTAT
        /\ sd' \in SDRegisters
    BY <2>2 DEF SDRegisters, SDState, OnSPI, Bit
  <2>4. Tick /\ Silent /\ Pulses(0, 0) /\ Aborting /\ Moved("WRITE06", sd.bytecnt + 1)
        /\ Bus(sd.memADDR, 0, sd.dmaDOUT)
    BY <1>1, <2>3, TickedIs
       DEF t, Tick, Bus, Pulses, Says, Silent, Moved, Aborting
  <2> QED BY <1>1, <1>6, <2>4 DEF last, rest, SameBus
<1>7. CASE ~last /\ ~rest
  <2>1. sd' = [t EXCEPT !.state = "WRITE06", !.bytecnt = sd.bytecnt + 1]
    BY <1>1, <1>4, <1>7
  <2> HIDE DEF t
  <2>2. /\ t \in SDRegisters /\ sd.bytecnt + 1 \in Nat /\ Next15(sd.memADDR) \in Address
        /\ sd' = [t EXCEPT !.state = "WRITE06", !.bytecnt = sd.bytecnt + 1]
    BY <1>1, <2>1, TickedType, Next15Type DEF t, SDRegisters
  <2>3. /\ sd'.state = "WRITE06" /\ sd'.bytecnt = sd.bytecnt + 1
        /\ sd'.memADDR = t.memADDR /\ sd'.memREQ = t.memREQ
        /\ sd'.memBUF = t.memBUF /\ sd'.sdSTATE = t.sdSTATE /\ sd'.abort = t.abort
        /\ sd'.CS = t.CS /\ sd'.dmaRD = t.dmaRD /\ sd'.dmaWR = t.dmaWR
        /\ sd'.dmaDOUT = t.dmaDOUT /\ sd'.dmaADDR = t.dmaADDR
        /\ sd'.dmaREQ = t.dmaREQ /\ sd'.sdSTAT = t.sdSTAT
        /\ sd' \in SDRegisters
    BY <2>2 DEF SDRegisters, SDState, OnSPI, Bit
  <2>4. Tick /\ Silent /\ Pulses(0, 0) /\ Aborting /\ Moved("WRITE06", sd.bytecnt + 1)
        /\ Bus(sd.memADDR, sd.memREQ, sd.dmaDOUT)
    BY <1>1, <2>3, TickedIs
       DEF t, Tick, Bus, Pulses, Says, Silent, Moved, Aborting
  <2> QED BY <1>1, <1>7, <2>4 DEF last, rest, SameBus
<1> QED BY <1>5, <1>6, <1>7 DEF last, rest

(* The command carries field, address and block.                           *)
LEMMA Commanding ==
  ASSUME sd \in SDRegisters, Command, sdMEMaddr \in Address
  PROVE  /\ Tick /\ Bus(sdMEMaddr, sd.memREQ, sd.dmaDOUT) /\ Pulses(0, 0) /\ Aborting
         /\ Moved(IF sd.state = "READ00" THEN "READ01" ELSE "WRITE01", 0)
         /\ Says(IF sd.state = "READ00" THEN "READ" ELSE "WRITE", 0)
         /\ card' = [sends |-> IF sd.state = "READ00" THEN Image[sdDISKaddr] ELSE <<>>,
                     sent |-> 0, got |-> <<>>]
<1> DEFINE t == Ticked
           address == sdMEMaddr
           next == IF sd.state = "READ00" THEN "READ01" ELSE "WRITE01"
           op == IF sd.state = "READ00" THEN "READ" ELSE "WRITE"
           r == [sends |-> IF sd.state = "READ00" THEN Image[sdDISKaddr] ELSE <<>>,
                 sent |-> 0, got |-> <<>>]
<1>1. sd.state \in {"READ00", "WRITE00"} /\ card' = r /\ address \in Address
  BY DEF Command, At
<1>2. next \in SDState /\ op \in Outward
  BY DEF SDState, OnSPI, Outward
<1>3. sd' = [[t EXCEPT !.state = next, !.bytecnt = 0] EXCEPT
                !.sdSTATE = op, !.memADDR = address, !.CS = 0]
  BY <1>1 DEF Command, At, Go
<1> HIDE DEF t, next, op, address, r
<1>4. t \in SDRegisters
  BY TickedType DEF t
<1>5. /\ sd'.state = next /\ sd'.bytecnt = 0 /\ sd'.memADDR = address
      /\ sd'.memREQ = t.memREQ /\ sd'.memBUF = t.memBUF /\ sd'.sdSTATE = op
      /\ sd'.abort = t.abort /\ sd'.CS = 0 /\ sd'.dmaRD = t.dmaRD
      /\ sd'.dmaWR = t.dmaWR /\ sd'.dmaDOUT = t.dmaDOUT
      /\ sd'.dmaADDR = t.dmaADDR /\ sd'.dmaREQ = t.dmaREQ
      /\ sd'.sdSTAT = t.sdSTAT
      /\ sd' \in SDRegisters
  BY <1>1, <1>2, <1>3, <1>4 DEF SDRegisters, Bit
<1> QED BY <1>1, <1>5, TickedIs
        DEF t, next, op, address, r, Tick, Bus, Pulses, Says, Moved, Aborting

-----------------------------------------------------------------------------
(* What happens to the controller on every clock, and what only an IOT changes. *)
Always(state) ==
  /\ rk' \in RKRegisters
  /\ rk'.sdstate = sd.sdSTAT /\ rk'.last = rk.sdstate /\ rk'.dmaGNT = sd.dmaREQ
  /\ rk'.data_break = BreakRequest(state)
  /\ rk'.dmaAddr = IF 1 \in {sd.dmaWR, sd.dmaRD} THEN sd.dmaADDR ELSE rk.dmaAddr
  /\ rk'.disk_flag = IF rk.status # {} THEN 1 ELSE 0

NextCar == IF rk.sdstate = "READY" /\ rk.last = "DONE" THEN sd.dmaADDR % 4096 ELSE rk.car
NextOp == IF rk.sdstate \in {"READ", "WRITE"} /\ rk.last = "READY" THEN "NOP" ELSE rk.sdOP

Plain == /\ rk'.status = ClockedStatus /\ rk'.car = NextCar /\ rk'.sdOP = NextOp
         /\ rk'.dar = rk.dar /\ rk'.cmd_reg = rk.cmd_reg /\ rk'.to_disk = rk.to_disk
         /\ rk'.disk_bus = rk.disk_bus

(* What the controller takes over at every edge.                           *)
LEMMA ClockedIs ==
  ASSUME rk \in RKRegisters, sd \in SDRegisters, NEW state
  PROVE  LET k == Clocked(state)
         IN /\ k \in RKRegisters
            /\ k.sdstate = sd.sdSTAT /\ k.last = rk.sdstate /\ k.dmaGNT = sd.dmaREQ
            /\ k.data_break = BreakRequest(state)
            /\ k.dmaAddr = IF 1 \in {sd.dmaWR, sd.dmaRD} THEN sd.dmaADDR ELSE rk.dmaAddr
            /\ k.disk_flag = IF rk.status # {} THEN 1 ELSE 0
            /\ k.status = ClockedStatus /\ k.car = NextCar /\ k.sdOP = NextOp
            /\ k.dar = rk.dar /\ k.cmd_reg = rk.cmd_reg /\ k.to_disk = rk.to_disk
            /\ k.disk_bus = rk.disk_bus /\ k.skip = rk.skip /\ k.write_lock = rk.write_lock
<1> DEFINE a == IF 1 \in {sd.dmaWR, sd.dmaRD} THEN sd.dmaADDR ELSE rk.dmaAddr
           f == IF rk.status # {} THEN 1 ELSE 0
           b == BreakRequest(state)
           s == ClockedStatus
           c == NextCar
           o == NextOp
           k == [rk EXCEPT !.sdstate = sd.sdSTAT, !.last = rk.sdstate, !.dmaAddr = a,
                           !.data_break = b, !.disk_flag = f, !.dmaGNT = sd.dmaREQ,
                           !.status = s, !.car = c, !.sdOP = o]
<1>1. Clocked(state) = k
  BY DEF Clocked, NextCar, NextOp, RKRegisters
<1>2. a \in Address /\ f \in Bit /\ b \in Bit /\ o \in Order
  BY DEF BreakRequest, RKRegisters, SDRegisters, Bit, NextOp, Order
<1>3. s \in SUBSET StatusBit
  BY DEF ClockedStatus, RKRegisters, StatusBit
<1>4. c \in Word
  <2>1. PICK n \in Int : n = sd.dmaADDR /\ 0 <= n
    BY Ranges DEF SDRegisters
  <2>2. PICK m \in Int : m = n % 4096 /\ 0 <= m /\ m < 4096
    BY <2>1
  <2>3. sd.dmaADDR % 4096 \in Word
    BY <2>1, <2>2, Ranges
  <2> QED BY <2>3 DEF NextCar, RKRegisters
<1>5. sd.sdSTAT \in Outward /\ sd.dmaREQ \in Bit
  BY DEF SDRegisters
<1> HIDE DEF a, f, b, s, c, o
<1>6. /\ k \in RKRegisters
      /\ k.sdstate = sd.sdSTAT /\ k.last = rk.sdstate /\ k.dmaGNT = sd.dmaREQ
      /\ k.data_break = b /\ k.dmaAddr = a /\ k.disk_flag = f
      /\ k.status = s /\ k.car = c /\ k.sdOP = o
      /\ k.dar = rk.dar /\ k.cmd_reg = rk.cmd_reg /\ k.to_disk = rk.to_disk
      /\ k.disk_bus = rk.disk_bus /\ k.skip = rk.skip /\ k.write_lock = rk.write_lock
  BY <1>2, <1>3, <1>4, <1>5 DEF RKRegisters
<1> HIDE DEF k
<1> QED BY <1>1, <1>6 DEF a, f, b, s, c, o

(* Outside F1 it takes nothing from the processor.                         *)
LEMMA NotObeyed ==
  ASSUME rk \in RKRegisters, sd \in SDRegisters, NEW state, state # "F1", NEW iot, NEW ac,
         RKEdge(state, iot, ac)
  PROVE  Always(state) /\ Plain /\ rk'.skip = rk.skip
<1>1. rk' = Clocked(state)
  BY DEF RKEdge
<1> QED BY <1>1, ClockedIs DEF Always, Plain

(* The IOTs, on top of it.                                                 *)
SamePlace == rk'.dar = rk.dar /\ rk'.to_disk = rk.to_disk

Started ==
  \/ rk.cmd_reg \div 512 \in {0, 1} /\ rk'.sdOP = "RD" /\ rk'.to_disk = 0
     /\ rk'.status = ClockedStatus
  \/ rk.cmd_reg \div 512 \in {4, 5} /\ rk'.sdOP = "WR" /\ rk'.to_disk = 1
     /\ rk'.status = ClockedStatus
NotStarted ==
  /\ rk'.sdOP = NextOp /\ rk'.to_disk = rk.to_disk
  /\ \/ rk'.status = ClockedStatus \cup {"cylinder"}
     \/ rk.cmd_reg \div 512 \notin {0, 1}

(* In F1 it obeys the IOT of the program.                                  *)
LEMMA Obeys ==
  ASSUME rk \in RKRegisters, sd \in SDRegisters, NEW iot, NEW ac \in Word,
         RKEdge("F1", iot, ac)
  PROVE  /\ Always("F1")
         /\ rk'.skip = (IF iot = "DSKP" THEN rk.disk_flag ELSE 0)
         /\ iot \in {"DSKP", "TLS", "TSF"} => Plain
         /\ iot = "DRST" => /\ rk'.disk_bus = rk.status /\ rk'.status = ClockedStatus
                            /\ rk'.car = NextCar /\ rk'.sdOP = NextOp
                            /\ rk'.cmd_reg = rk.cmd_reg /\ SamePlace
         /\ iot = "DLCA" => /\ rk'.car = ac /\ rk'.status = ClockedStatus
                            /\ rk'.sdOP = NextOp /\ rk'.cmd_reg = rk.cmd_reg /\ SamePlace
         /\ iot = "DLDC" => /\ rk'.cmd_reg = ac /\ rk'.sdOP = NextOp /\ SamePlace
                            /\ rk'.status = (IF Bit4(ac) = 1 THEN {"done"} ELSE {})
                            /\ rk'.car = NextCar
         /\ iot = "DCLR" => /\ rk'.status = {"done"} /\ rk'.sdOP \in {NextOp, "ABORT"}
         /\ iot = "CAF"  => /\ rk'.status = {} /\ rk'.sdOP = "NOP"
         /\ iot = "DLAG" => /\ rk'.dar = ac /\ rk'.car = NextCar /\ rk'.cmd_reg = rk.cmd_reg
                            /\ Started \/ NotStarted
<1> DEFINE k == Clocked("F1")
           r == [k EXCEPT !.skip = 0]
<1>1. rk' = IOT(iot, ac, r)
  BY DEF RKEdge
<1>2. /\ k \in RKRegisters
      /\ k.sdstate = sd.sdSTAT /\ k.last = rk.sdstate /\ k.dmaGNT = sd.dmaREQ
      /\ k.data_break = BreakRequest("F1")
      /\ k.dmaAddr = IF 1 \in {sd.dmaWR, sd.dmaRD} THEN sd.dmaADDR ELSE rk.dmaAddr
      /\ k.disk_flag = IF rk.status # {} THEN 1 ELSE 0
      /\ k.status = ClockedStatus /\ k.car = NextCar /\ k.sdOP = NextOp
      /\ k.dar = rk.dar /\ k.cmd_reg = rk.cmd_reg /\ k.to_disk = rk.to_disk
      /\ k.disk_bus = rk.disk_bus /\ k.write_lock = rk.write_lock
  BY ClockedIs
<1> HIDE DEF k
<1>3. /\ r \in RKRegisters /\ r.skip = 0
      /\ r.sdstate = k.sdstate /\ r.last = k.last /\ r.dmaGNT = k.dmaGNT
      /\ r.data_break = k.data_break /\ r.dmaAddr = k.dmaAddr /\ r.disk_flag = k.disk_flag
      /\ r.status = k.status /\ r.car = k.car /\ r.sdOP = k.sdOP
      /\ r.dar = k.dar /\ r.cmd_reg = k.cmd_reg /\ r.to_disk = k.to_disk
      /\ r.disk_bus = k.disk_bus /\ r.write_lock = k.write_lock
  BY <1>2 DEF RKRegisters, Bit
<1> HIDE DEF r
<1> DEFINE Untouched_(q) == /\ q.sdstate = r.sdstate /\ q.last = r.last /\ q.dmaGNT = r.dmaGNT
                            /\ q.data_break = r.data_break /\ q.dmaAddr = r.dmaAddr
                            /\ q.disk_flag = r.disk_flag
<1>4. ASSUME Untouched_(rk'), rk' \in RKRegisters PROVE Always("F1")
  BY <1>2, <1>3, <1>4 DEF Always
<1>5. CASE iot \notin {"DSKP", "DRST", "DLCA", "DLDC", "DCLR", "CAF", "DLAG"}
  <2>1. rk' = r
    BY <1>1, <1>5 DEF IOT
  <2> QED BY <1>2, <1>3, <1>4, <1>5, <2>1 DEF Plain
<1>6. CASE iot = "DSKP"
  <2>1. rk' = [r EXCEPT !.skip = rk.disk_flag]
    BY <1>1, <1>6 DEF IOT
  <2>2. rk.disk_flag \in Bit
    BY DEF RKRegisters
  <2>3. /\ rk' \in RKRegisters /\ Untouched_(rk') /\ rk'.skip = rk.disk_flag
        /\ rk'.status = r.status /\ rk'.car = r.car /\ rk'.sdOP = r.sdOP
        /\ rk'.dar = r.dar /\ rk'.cmd_reg = r.cmd_reg /\ rk'.to_disk = r.to_disk
        /\ rk'.disk_bus = r.disk_bus
    BY <1>3, <2>1, <2>2 DEF RKRegisters
  <2> QED BY <1>2, <1>3, <1>4, <1>6, <2>3 DEF Plain
<1>7. CASE iot = "DRST"
  <2>1. rk' = [r EXCEPT !.disk_bus = rk.status]
    BY <1>1, <1>7 DEF IOT
  <2>2. rk.status \in SUBSET StatusBit
    BY DEF RKRegisters
  <2>3. /\ rk' \in RKRegisters /\ Untouched_(rk') /\ rk'.skip = r.skip
        /\ rk'.status = r.status /\ rk'.car = r.car /\ rk'.sdOP = r.sdOP
        /\ rk'.dar = r.dar /\ rk'.cmd_reg = r.cmd_reg /\ rk'.to_disk = r.to_disk
        /\ rk'.disk_bus = rk.status
    BY <1>3, <2>1, <2>2 DEF RKRegisters
  <2> QED BY <1>2, <1>3, <1>4, <1>7, <2>3 DEF SamePlace
<1>8. CASE iot = "DLCA"
  <2>1. rk' = [r EXCEPT !.car = ac]
    BY <1>1, <1>8 DEF IOT
  <2>2. /\ rk' \in RKRegisters /\ Untouched_(rk') /\ rk'.skip = r.skip
        /\ rk'.status = r.status /\ rk'.car = ac /\ rk'.sdOP = r.sdOP
        /\ rk'.dar = r.dar /\ rk'.cmd_reg = r.cmd_reg /\ rk'.to_disk = r.to_disk
    BY <1>3, <2>1 DEF RKRegisters
  <2> QED BY <1>2, <1>3, <1>4, <1>8, <2>2 DEF SamePlace
<1>9. CASE iot = "DLDC"
  <2> DEFINE s == IF Bit4(ac) = 1 THEN {"done"} ELSE {}
  <2>1. rk' = [r EXCEPT !.cmd_reg = ac, !.status = s]
    BY <1>1, <1>9 DEF IOT
  <2>2. s \in SUBSET StatusBit
    BY DEF StatusBit
  <2> HIDE DEF s
  <2>3. /\ rk' \in RKRegisters /\ Untouched_(rk') /\ rk'.skip = r.skip
        /\ rk'.status = s /\ rk'.car = r.car /\ rk'.sdOP = r.sdOP
        /\ rk'.dar = r.dar /\ rk'.cmd_reg = ac /\ rk'.to_disk = r.to_disk
    BY <1>3, <2>1, <2>2 DEF RKRegisters
  <2> QED BY <1>2, <1>3, <1>4, <1>9, <2>3 DEF SamePlace, s
<1>10. CASE iot = "DCLR"
  <2> DEFINE o == IF ac % 4 = 1 THEN "ABORT" ELSE r.sdOP
  <2>1. rk' = [r EXCEPT !.status = {"done"}, !.sdOP = o]
    BY <1>1, <1>3, <1>10 DEF IOT, RKRegisters
  <2>2. {"done"} \in SUBSET StatusBit /\ o \in Order /\ o \in {r.sdOP, "ABORT"}
    BY <1>3 DEF StatusBit, Order, RKRegisters
  <2> HIDE DEF o
  <2>3. /\ rk' \in RKRegisters /\ Untouched_(rk') /\ rk'.skip = r.skip
        /\ rk'.status = {"done"} /\ rk'.sdOP = o
    BY <1>3, <2>1, <2>2 DEF RKRegisters
  <2> QED BY <1>2, <1>3, <1>4, <1>10, <2>2, <2>3
<1>11. CASE iot = "CAF"
  <2>1. PICK e, z, w, o, l : /\ e = {} /\ z = 0 /\ w = 0 /\ o = "NOP" /\ l = {}
                             /\ rk' = [r EXCEPT !.status = e, !.car = z, !.dar = z, !.cmd_reg = z,
                                                !.sdOP = o, !.to_disk = w, !.write_lock = l]
    BY <1>1, <1>11 DEF IOT
  <2>2. e \in SUBSET StatusBit /\ z \in Word /\ w \in Bit /\ o \in Order /\ l \in SUBSET Drives
    BY <2>1, Ranges DEF Bit, Order
  <2>3. rk' = [r EXCEPT !.status = e, !.car = z, !.dar = z, !.cmd_reg = z,
                        !.sdOP = o, !.to_disk = w, !.write_lock = l]
    BY <2>1
  <2>4. /\ rk' \in RKRegisters /\ Untouched_(rk') /\ rk'.skip = r.skip
        /\ rk'.status = e /\ rk'.sdOP = o
    BY <1>3, <2>2, <2>3 DEF RKRegisters
  <2> QED BY <1>2, <1>3, <1>4, <1>11, <2>1, <2>4
<1>12. CASE iot = "DLAG"
  <2> DEFINE go == [r EXCEPT !.dar = ac]
             c == Cylinder(ac)
             f == rk.cmd_reg \div 512
  <2>1. /\ go \in RKRegisters /\ Untouched_(go) /\ go.skip = 0 /\ go.dar = ac
        /\ go.status = r.status /\ go.car = r.car /\ go.sdOP = r.sdOP
        /\ go.cmd_reg = r.cmd_reg /\ go.to_disk = r.to_disk /\ go.write_lock = r.write_lock
    BY <1>3 DEF RKRegisters
  <2>2. rk' = LoadAndGo(r, ac)
    BY <1>1, <1>12 DEF IOT
  <2>3. c \in Int /\ f \in Int /\ Drive \in Drives
    <3>1. PICK n \in Nat, m \in Nat : n = rk.cmd_reg /\ m = ac
      BY Ranges DEF RKRegisters
    <3>2. (n \div 2) % 4 \in 0..3 /\ n \div 512 \in Int /\ (n % 2) * 128 + (m \div 32) \in Int
      OBVIOUS
    <3> QED BY <3>1, <3>2 DEF Drive, Drives, Cylinder
  <2> DEFINE Same(q) == /\ q \in RKRegisters /\ Untouched_(q) /\ q.skip = 0 /\ q.dar = ac
                        /\ q.car = r.car /\ q.cmd_reg = r.cmd_reg
             Told(s) == [go EXCEPT !.status = @ \cup {s}]
             Locked == [go EXCEPT !.write_lock = @ \cup {Drive}]
             Go_(w, op) == [go EXCEPT !.to_disk = w, !.sdOP = op]
  <2>4. rk' = (CASE c > 202 -> Told("cylinder")
                 [] c <= 202 /\ f \in {0, 1} -> Go_(0, "RD")
                 [] c <= 202 /\ f = 2 -> Locked
                 [] c <= 202 /\ f = 3 /\ Bit4(rk.cmd_reg) = 1 -> Told("done")
                 [] c <= 202 /\ f \in {4, 5} /\ Drive \in rk.write_lock -> Told("write_lock")
                 [] c <= 202 /\ f \in {4, 5} /\ Drive \notin rk.write_lock -> Go_(1, "WR")
                 [] OTHER -> go)
    <3>1. [go EXCEPT !.sdOP = "WR", !.to_disk = 1] = Go_(1, "WR")
      BY <2>1 DEF RKRegisters
    <3> HIDE DEF go, Told, Locked
    <3> QED BY <2>2, <3>1 DEF LoadAndGo, go, Told, Locked
  <2> HIDE DEF go
  <2>5. ASSUME NEW s \in StatusBit
        PROVE  /\ Same(Told(s)) /\ Told(s).status = r.status \cup {s}
               /\ Told(s).sdOP = r.sdOP /\ Told(s).to_disk = r.to_disk
    BY <2>1, <2>5 DEF RKRegisters
  <2>6. /\ Same(Locked) /\ Locked.status = r.status
        /\ Locked.sdOP = r.sdOP /\ Locked.to_disk = r.to_disk
    BY <2>1, <2>3 DEF RKRegisters
  <2>7. ASSUME NEW w \in Bit, NEW op \in Order
        PROVE  /\ Same(Go_(w, op)) /\ Go_(w, op).status = r.status
               /\ Go_(w, op).sdOP = op /\ Go_(w, op).to_disk = w
    BY <2>1, <2>7 DEF RKRegisters
  <2>8. Same(go)
    BY <2>1
  <2> HIDE DEF Told, Locked, Go_, c, f
  <2>9. ASSUME NEW q, Same(q), rk' = q
        PROVE  /\ Always("F1") /\ rk'.skip = 0 /\ rk'.dar = ac /\ rk'.car = NextCar
               /\ rk'.cmd_reg = rk.cmd_reg
    BY <1>2, <1>3, <1>4, <2>9
  <2> HIDE DEF Same
  <2>10. f = rk.cmd_reg \div 512
    BY DEF f
  <2>11. CASE c > 202
    <3>1. rk' = Told("cylinder")
      BY <2>3, <2>4, <2>11
    <3>2. Same(Told("cylinder")) /\ rk'.status = r.status \cup {"cylinder"}
          /\ rk'.sdOP = r.sdOP /\ rk'.to_disk = r.to_disk
      BY <2>5, <3>1 DEF StatusBit
    <3> QED BY <1>2, <1>3, <1>12, <2>9, <3>1, <3>2 DEF NotStarted
  <2>12. CASE c <= 202 /\ f \in {0, 1}
    <3>1. rk' = Go_(0, "RD")
      BY <2>3, <2>4, <2>12
    <3>2. Same(Go_(0, "RD")) /\ rk'.status = r.status /\ rk'.sdOP = "RD" /\ rk'.to_disk = 0
      BY <2>7, <3>1 DEF Bit, Order
    <3> QED BY <1>2, <1>3, <1>12, <2>9, <2>10, <2>12, <3>1, <3>2 DEF Started
  <2>13. CASE c <= 202 /\ f = 2
    <3>1. rk' = Locked
      BY <2>3, <2>4, <2>13
    <3>3. NotStarted
      BY <1>2, <1>3, <2>6, <2>10, <2>13, <3>1 DEF NotStarted
    <3> QED BY <1>2, <1>3, <1>12, <2>6, <2>9, <3>1, <3>3
  <2>14. CASE c <= 202 /\ f = 3
    <3>1. rk' = IF Bit4(rk.cmd_reg) = 1 THEN Told("done") ELSE go
      BY <2>3, <2>4, <2>14
    <3>2. Same(rk') /\ rk'.sdOP = r.sdOP /\ rk'.to_disk = r.to_disk
      BY <2>1, <2>5, <2>8, <3>1 DEF StatusBit
    <3> QED BY <1>2, <1>3, <1>12, <2>9, <2>10, <2>14, <3>2 DEF NotStarted
  <2>15. CASE c <= 202 /\ f \in {4, 5}
    <3>1. rk' = IF Drive \in rk.write_lock THEN Told("write_lock") ELSE Go_(1, "WR")
      BY <2>3, <2>4, <2>15
    <3>2. CASE rk' = Told("write_lock")
      <4>2. Same(rk') /\ rk'.sdOP = r.sdOP /\ rk'.to_disk = r.to_disk
        BY <2>5, <3>2 DEF StatusBit
      <4>3. NotStarted
        BY <1>2, <1>3, <2>10, <2>15, <4>2 DEF NotStarted
      <4> QED BY <1>2, <1>3, <1>12, <2>9, <4>2, <4>3
    <3>3. CASE rk' = Go_(1, "WR")
      <4>1. Same(rk') /\ rk'.status = r.status /\ rk'.sdOP = "WR" /\ rk'.to_disk = 1
        BY <2>7, <3>3 DEF Bit, Order
      <4> QED BY <1>2, <1>3, <1>12, <2>9, <2>10, <2>15, <4>1 DEF Started
    <3> QED BY <3>1, <3>2, <3>3
  <2>16. CASE c <= 202 /\ f \notin {0, 1, 2, 3, 4, 5}
    <3>1. rk' = go
      BY <2>3, <2>4, <2>16
    <3>3. NotStarted
      BY <1>2, <1>3, <2>1, <2>10, <2>16, <3>1 DEF NotStarted
    <3> QED BY <1>2, <1>3, <1>12, <2>8, <2>9, <3>1, <3>3
  <2> QED BY <2>3, <2>11, <2>12, <2>13, <2>14, <2>15, <2>16
<1> QED BY <1>5, <1>6, <1>7, <1>8, <1>9, <1>10, <1>11, <1>12
=============================================================================
