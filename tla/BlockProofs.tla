---------------------------- MODULE BlockProofs -----------------------------
(***************************************************************************)
(* A transfer as the four parts see it: what controller, interface and     *)
(* program may show each other from the DLAG that starts a block to the    *)
(* DRST that takes its status (Phases), and that no edge leaves it.        *)
(* DiskProofs has what each part does alone.  Then the words of a block on *)
(* their way between card and memory, and what follows once TransferInv is *)
(* known to be an invariant: the registers stay in range, a block read is  *)
(* in memory and a block written on the card before the program is told    *)
(* that it is done.                                                        *)
(***************************************************************************)
EXTENDS DiskProofs


(* The pair of words a dump packs is words of its buffer.                  *)
LEMMA PairOf ==
  ASSUME NEW p, Shaped(p), ProgramTyped(p), p.LOC < BLOCK, NEW mem \in [Addresses -> Word]
  PROVE  /\ mem[p.LSTBUF + p.LOC] \in Word /\ mem[p.LSTBUF + p.LOC + 1] \in Word
<1>1. p.LOC \in Nat /\ p.LOC + 1 < Words
  <2>1. p.LOC \in Nat /\ p.LOC % 2 = 0 /\ p.LOC < Words
    BY Constants DEF Shaped
  <2> QED BY <2>1, WordsAssumption
<1>2. PICK i \in Int, j \in Int : i = p.LOC /\ j = p.LOC + 1
  BY <1>1
<1>3. 0 <= i /\ i < Words /\ 0 <= j /\ j < Words
  BY <1>1, <1>2, Constants
<1>4. p.LSTBUF \in Buffers
  BY DEF ProgramTyped
<1>5. p.LSTBUF \in Nat /\ p.LSTBUF + i \in Addresses /\ p.LSTBUF + j \in Addresses
  BY <1>3, <1>4, BufferWords
<1>6. p.LSTBUF + p.LOC + 1 = p.LSTBUF + j
  BY <1>1, <1>2, <1>5
<1> QED BY <1>2, <1>5, <1>6

(* The IOT a program stands at, and its accumulator.                       *)
LEMMA CharType ==
  ASSUME NEW p, ProgramOK(p), ProgramTyped(p), p.pc = "TLS", NEW mem \in [Addresses -> Word]
  PROVE  Char(p, mem) \in Octet
<1> DEFINE a == mem[p.LSTBUF + p.LOC]
           b == mem[p.LSTBUF + p.LOC + 1]
           n == Negated(p.CHKSUM)
<1>1. Shaped(p) /\ p.what \in Whats /\ p.LOC < BLOCK
  BY DEF ProgramOK, Punching
<1>2. Low(a) \in Octet /\ Mid(a, b) \in Octet /\ High(b) \in Octet
  <2>1. a \in Word /\ b \in Word
    BY <1>1, PairOf
  <2> HIDE DEF a, b
  <2> QED BY <2>1, Packing
<1>3. Low(n) \in Octet /\ n \div 256 \in Octet
  <2>1. n \in Word
    BY Negation DEF ProgramTyped
  <2> HIDE DEF n
  <2>2. Low(n) \in Octet
    BY <2>1, Packing
  <2>3. PICK m \in Nat : m = n /\ m < 4096
    BY <2>1, Ranges
  <2>4. m \div 256 \in Int /\ 0 <= m \div 256 /\ m \div 256 < 256
    BY <2>3
  <2> QED BY <2>2, <2>3, <2>4, Ranges
<1>4. {253, 254, 255} \subseteq Octet
  BY Ranges
<1> HIDE DEF a, b, n
<1>5. Char(p, mem) \in {p.READST, Low(a), Mid(a, b), High(b), 254, Low(n), n \div 256}
  BY <1>1 DEF Char, Whats, a, b, n
<1> QED BY <1>2, <1>3, <1>4, <1>5 DEF ProgramTyped

(* What the program puts in the accumulator for each of its IOTs.          *)
LEMMA IOTs ==
  ASSUME NEW p, ProgramOK(p), ProgramTyped(p), ~Halted(p), NEW mem \in [Addresses -> Word]
  PROVE  LET iot == IOTOf(p)
             ac  == ACOf(p, mem)
         IN /\ ac \in Word
            /\ p.pc \in {"RD2", "W2"} => iot = "DLCA" /\ ac = Asked(p).curent
            /\ p.pc \in {"RD3", "W3"} => iot = "DLDC" /\ ac = Asked(p).command
            /\ p.pc \in {"RD4", "W4"} => iot = "DLAG" /\ ac = Asked(p).track
            /\ p.pc \in {"RC1", "RC3", "RD1", "W1"} => iot = "DCLR"
            /\ p.pc \in {"RC2", "RC5"} => iot = "DLDC"
            /\ p.pc \in {"RC4", "RC6", "CK1", "W5"} => iot = "DSKP"
            /\ p.pc \in {"RC7", "CK2", "CK3", "W6"} => iot = "DRST"
            /\ p.pc \in {"CAF", "TLS", "TSF"} => iot = p.pc
            /\ p.pc = "TLS" => ac \in Octet
<1> DEFINE iot == IOTOf(p)
           ac == ACOf(p, mem)
<1>1. /\ p.pc \in {"RD2", "W2"} => iot = "DLCA" /\ ac = Asked(p).curent
      /\ p.pc \in {"RD3", "W3"} => iot = "DLDC" /\ ac = Asked(p).command
      /\ p.pc \in {"RD4", "W4"} => iot = "DLAG" /\ ac = Asked(p).track
  BY DEF IOTOf, ACOf, Asked, IsJob, Writing
<1>2. /\ p.pc \in {"RC1", "RC3", "RD1", "W1"} => iot = "DCLR"
      /\ p.pc \in {"RC2", "RC5"} => iot = "DLDC"
      /\ p.pc \in {"RC4", "RC6", "CK1", "W5"} => iot = "DSKP"
      /\ p.pc \in {"RC7", "CK2", "CK3", "W6"} => iot = "DRST"
      /\ p.pc \in {"CAF", "TLS", "TSF"} => iot = p.pc
  BY DEF IOTOf
<1>3. p.pc = "TLS" => ac \in Octet
  BY CharType DEF ACOf
<1>4. \/ ac \in {0, 1, 2, 128}
      \/ ac \in Octet
      \/ ac \in {Asked(p).curent, Asked(p).command, Asked(p).track}
  <2>1. CASE p.pc \in {"RD2", "W2", "RD3", "W3", "RD4", "W4"}
    BY <1>1, <2>1
  <2>2. CASE p.pc = "TLS"
    BY <1>3, <2>2
  <2>3. CASE p.pc \notin {"RD2", "W2", "RD3", "W3", "RD4", "W4", "TLS"}
    BY <2>3 DEF ACOf
  <2> QED BY <2>1, <2>2, <2>3
<1> HIDE DEF iot, ac
<1>5. Asked(p).curent \in Word /\ Asked(p).command \in Word /\ Asked(p).track \in Word
  <2>1. Asked(p) \in Request
    BY AskedType
  <2>2. Asked(p).curent \in {512, 768} /\ Asked(p).command \in Word /\ Asked(p).track \in Word
    BY <2>1 DEF Request, Commands, Buffers, Buffer, OtherBuffer
  <2>3. {512, 768} \subseteq Word
    BY Ranges
  <2> QED BY <2>2, <2>3
<1>6. ac \in Word
  <2>1. {0, 1, 2, 128} \subseteq Word /\ \A n \in Octet : n \in Word
    BY Ranges
  <2> QED BY <1>4, <1>5, <2>1
<1> QED BY <1>1, <1>2, <1>3, <1>6 DEF iot, ac

-----------------------------------------------------------------------------
(* Every register in range; the card holds nothing it was not given.       *)
Machine == /\ sd \in SDRegisters /\ rk \in RKRegisters /\ cpu \in CPURegisters
           /\ memory \in [Addresses -> Word] /\ mem2disk \in Word
           /\ DumpInv /\ ProgramTyped(prog)

InBreak == cpu.state \in {"DB0", "DB1", "DB2"}
Obeyed == cpu.state = "F3"
Of(pcs) == prog.pc \in pcs

(* An edge of the clock, as the processor sees it: it obeys an IOT, goes   *)
(* on to the next, or neither; and it serves a break.                      *)
Skips == IF prog.pc = "TSF" THEN tx.skip ELSE rk.skip

Obeying ==
  /\ cpu.state = "F1" /\ cpu'.state = "F3" /\ prog' = prog /\ ~Halted(prog)
  /\ rk'.skip = (IF Of({"RC4", "RC6", "CK1", "W5"}) THEN rk.disk_flag ELSE 0)
  /\ Of({"RC4", "RC6", "CK1", "W5", "TLS", "TSF"}) => Plain
  /\ Of({"RD2", "W2"}) => /\ rk'.car = Asked(prog).curent /\ rk'.status = ClockedStatus
                          /\ rk'.sdOP = NextOp
  /\ Of({"RD3", "W3"}) => /\ rk'.cmd_reg = Asked(prog).command /\ rk'.status = {}
                          /\ rk'.sdOP = NextOp /\ rk'.car = NextCar
  /\ Of({"RD4", "W4"}) => /\ rk'.dar = Asked(prog).track /\ rk'.cmd_reg = rk.cmd_reg
                          /\ rk'.car = NextCar /\ (Started \/ NotStarted)
  /\ Of({"RC1", "RC3", "RD1", "W1"}) => rk'.status = {"done"} /\ rk'.sdOP \in {NextOp, "ABORT"}
  /\ Of({"RC2", "RC5"}) => rk'.status \subseteq {"done"} /\ rk'.sdOP = NextOp
  /\ Of({"RC7", "CK2", "CK3", "W6"}) => /\ rk'.disk_bus = rk.status
                                        /\ rk'.status = ClockedStatus /\ rk'.sdOP = NextOp
  /\ Of({"CAF"}) => rk'.status = {} /\ rk'.sdOP = "NOP"

Advancing ==
  /\ cpu.state = "F3" /\ cpu'.state = "F0" /\ ~Halted(prog)
  /\ ProgramTyped(prog') /\ Follows(prog, prog', Skips, rk.disk_bus)
  /\ ~NextSector(prog') => Asked(prog') = Asked(prog)
  /\ Plain /\ rk'.skip = rk.skip

Passing == /\ cpu.state \notin {"F1", "F3"} /\ cpu'.state # "F3" /\ prog' = prog
           /\ Plain /\ rk'.skip = rk.skip

Cycle ==
  /\ cpu' \in CPURegisters
  /\ cpu.state = "F0" => IF rk.data_break = 1
                         THEN cpu'.state = "DB0" /\ cpu'.eaddr = rk.dmaAddr
                         ELSE cpu'.state \in {"F0", "F1"}
  /\ cpu.state \in {"F1", "F3"} => cpu'.state \in {"F3", "F0"}
  /\ cpu.state = "DB0" => cpu'.state = "DB1" /\ cpu'.eaddr = cpu.eaddr
  /\ cpu.state = "DB1" => /\ cpu'.state = "DB2" /\ cpu'.eaddr = cpu.eaddr
                          /\ cpu'.mdin = sd.dmaDOUT /\ cpu'.write_en = 1 - rk.to_disk
  /\ IF cpu.state = "DB2"
     THEN /\ memory' = IF cpu.write_en = 1 THEN [memory EXCEPT ![cpu.eaddr] = cpu.mdin]
                       ELSE memory
          /\ mem2disk' = IF rk.to_disk = 1 THEN memory[cpu.eaddr] ELSE mem2disk
          /\ cpu'.state = "F0"
     ELSE memory' = memory /\ mem2disk' = mem2disk

OnEdge(done, rxd) == /\ SDEdge(done, rxd, mem2disk) /\ Always(cpu.state) /\ Cycle
                     /\ Obeying \/ Advancing \/ Passing

(* An edge of the processor as a step of one of its cycles.                *)
LEMMA Cycles ==
  ASSUME Machine, CPUEdge
  PROVE  Cycle
<1>1. /\ cpu \in CPURegisters /\ rk.dmaAddr \in Address /\ sd.dmaDOUT \in Word
      /\ rk.to_disk \in {0, 1} /\ rk.data_break \in {0, 1}
  BY DEF Machine, RKRegisters, SDRegisters, Bit
<1>2. CASE CPUAtF0
  BY <1>1, <1>2 DEF CPUAtF0, Cycle, CPURegisters
<1>3. CASE CPUAtF1
  BY <1>1, <1>3 DEF CPUAtF1, RunsIOT, Cycle, CPURegisters
<1>4. CASE CPUAtF3
  BY <1>1, <1>4 DEF CPUAtF3, Cycle, CPURegisters
<1>5. CASE CPUAtDB0
  BY <1>1, <1>5 DEF CPUAtDB0, Cycle, CPURegisters
<1>6. CASE CPUAtDB1
  <2>1. PICK n \in Bit : n = 1 - rk.to_disk
    BY <1>1 DEF Bit
  <2>2. cpu' = [cpu EXCEPT !.state = "DB2", !.mdin = sd.dmaDOUT, !.write_en = n]
    BY <1>6, <2>1 DEF CPUAtDB1
  <2>3. /\ cpu' \in CPURegisters /\ cpu'.state = "DB2" /\ cpu'.eaddr = cpu.eaddr
        /\ cpu'.mdin = sd.dmaDOUT /\ cpu'.write_en = n
    BY <1>1, <2>2 DEF CPURegisters
  <2> QED BY <1>6, <2>1, <2>3 DEF CPUAtDB1, Cycle
<1>7. CASE CPUAtDB2
  <2>1. /\ cpu' = [cpu EXCEPT !.state = "F0", !.write_en = 0] /\ cpu.state = "DB2"
    BY <1>7 DEF CPUAtDB2
  <2>2. /\ cpu' \in CPURegisters /\ cpu'.state = "F0"
    BY <1>1, <2>1 DEF CPURegisters, Bit
  <2> QED BY <1>7, <2>1, <2>2 DEF CPUAtDB2, Cycle
<1> QED BY <1>2, <1>3, <1>4, <1>5, <1>6, <1>7 DEF CPUEdge

(* What an edge does to each part, from the lemmas of the parts.           *)
LEMMA Edges ==
  ASSUME Machine, NEW done, NEW rxd, Edge(done, rxd)
  PROVE  OnEdge(done, rxd)
<1>1. /\ rk \in RKRegisters /\ sd \in SDRegisters /\ ProgramOK(prog) /\ ProgramTyped(prog)
      /\ memory \in [Addresses -> Word] /\ ProcessorOK /\ TransmitterOK
  BY DEF Machine, DumpInv
<1>2. /\ SDEdge(done, rxd, mem2disk) /\ Cycle /\ CPUEdge
      /\ RKEdge(cpu.state, IOTOf(prog), ACOf(prog, memory))
  BY Cycles DEF Edge
<1>3. CASE cpu.state = "F1"
  <2>1. cpu'.state = "F3" /\ prog' = prog /\ ~Halted(prog)
    BY <1>1, <1>2, <1>3
       DEF CPUEdge, CPUAtF0, CPUAtF1, CPUAtF3, CPUAtDB0, CPUAtDB1, CPUAtDB2, RunsIOT, ProcessorOK
  <2> DEFINE iot == IOTOf(prog)
             ac == ACOf(prog, memory)
  <2>2. /\ ac \in Word
        /\ Of({"RD2", "W2"}) => iot = "DLCA" /\ ac = Asked(prog).curent
        /\ Of({"RD3", "W3"}) => iot = "DLDC" /\ ac = Asked(prog).command
        /\ Of({"RD4", "W4"}) => iot = "DLAG" /\ ac = Asked(prog).track
        /\ Of({"RC1", "RC3", "RD1", "W1"}) => iot = "DCLR"
        /\ Of({"RC2", "RC5"}) => iot = "DLDC"
        /\ Of({"RC4", "RC6", "CK1", "W5"}) => iot = "DSKP"
        /\ Of({"RC7", "CK2", "CK3", "W6"}) => iot = "DRST"
        /\ Of({"CAF", "TLS", "TSF"}) => iot = prog.pc
    BY <1>1, <2>1, IOTs DEF Of
  <2>3. /\ Asked(prog) \in Request
        /\ \/ Of({"RD2", "W2", "RD3", "W3", "RD4", "W4", "RC1", "RC3", "RD1", "W1", "RC2", "RC5"})
           \/ Of({"RC4", "RC6", "CK1", "W5", "RC7", "CK2", "CK3", "W6", "CAF", "TLS", "TSF"})
    BY <1>1, <2>1, AskedType
       DEF ProgramOK, Halted, Recalibrating, Reading, Punching, Writing, Final, Of
  <2> HIDE DEF iot, ac
  <2>4. RKEdge("F1", iot, ac)
    BY <1>2, <1>3 DEF iot, ac
  <2>5. /\ Always("F1")
        /\ rk'.skip = (IF iot = "DSKP" THEN rk.disk_flag ELSE 0)
        /\ iot \in {"DSKP", "TLS", "TSF"} => Plain
        /\ iot = "DRST" => /\ rk'.disk_bus = rk.status /\ rk'.status = ClockedStatus
                           /\ rk'.sdOP = NextOp
        /\ iot = "DLCA" => rk'.car = ac /\ rk'.status = ClockedStatus /\ rk'.sdOP = NextOp
        /\ iot = "DLDC" => /\ rk'.cmd_reg = ac /\ rk'.sdOP = NextOp /\ rk'.car = NextCar
                           /\ rk'.status = (IF Bit4(ac) = 1 THEN {"done"} ELSE {})
        /\ iot = "DCLR" => rk'.status = {"done"} /\ rk'.sdOP \in {NextOp, "ABORT"}
        /\ iot = "CAF"  => rk'.status = {} /\ rk'.sdOP = "NOP"
        /\ iot = "DLAG" => /\ rk'.dar = ac /\ rk'.car = NextCar /\ rk'.cmd_reg = rk.cmd_reg
                           /\ (Started \/ NotStarted)
    BY <1>1, <2>2, <2>4, Obeys
  <2>6. Of({"RD3", "W3"}) => Bit4(ac) = 0
    BY <2>2, <2>3 DEF Request, Commands
  <2>7. Obeying
    BY <1>3, <2>1, <2>2, <2>3, <2>5, <2>6 DEF Obeying, Of
  <2> QED BY <1>2, <1>3, <2>5, <2>7 DEF OnEdge
<1>4. CASE cpu.state # "F1"
  <2>1. Always(cpu.state) /\ Plain /\ rk'.skip = rk.skip
    BY <1>1, <1>2, <1>4, NotObeyed
  <2>2. CASE cpu.state = "F3"
    <3>1. /\ cpu'.state = "F0" /\ ~Halted(prog)
          /\ prog' = Advance(prog, Skips, rk.disk_bus, memory)
      <4>1. CPUAtF3
        BY <1>2, <2>2 DEF CPUEdge, CPUAtF0, CPUAtF1, CPUAtDB0, CPUAtDB1, CPUAtDB2, RunsIOT
      <4> QED BY <1>1, <4>1 DEF CPUAtF3, ProcessorOK, Skips, CPURegisters
    <3>2. Skips \in {0, 1}
      BY <1>1 DEF Skips, RKRegisters, Bit, TransmitterOK
    <3>3. /\ ProgramTyped(prog') /\ Follows(prog, prog', Skips, rk.disk_bus)
          /\ ~NextSector(prog') => Asked(prog') = Asked(prog)
      BY <1>1, <3>1, <3>2, AdvanceTyped
    <3> QED BY <1>2, <2>1, <2>2, <3>1, <3>3 DEF OnEdge, Advancing
  <2>3. CASE cpu.state # "F3"
    <3>1. prog' = prog /\ cpu'.state # "F3"
      <4>1. cpu.state \in {"F0", "DB0", "DB1", "DB2"}
        BY <1>4, <2>3 DEF Machine, CPURegisters
      <4>2. prog' = prog
        BY <1>2, <4>1
           DEF CPUEdge, CPUAtF0, CPUAtF1, CPUAtF3, CPUAtDB0, CPUAtDB1, CPUAtDB2, RunsIOT
      <4>3. rk.data_break \in {0, 1}
        BY <1>1 DEF RKRegisters, Bit
      <4> QED BY <1>2, <4>1, <4>2, <4>3 DEF Cycle
    <3> QED BY <1>2, <1>4, <2>1, <2>3, <3>1 DEF OnEdge, Passing
  <2> QED BY <2>2, <2>3
<1> QED BY <1>3, <1>4

-----------------------------------------------------------------------------
(* The order has been given and the program waits for its end.  Before     *)
(* that it fills the controller's registers, one IOT each.                 *)
Issued == \/ Of({"RD4", "W4"}) /\ Obeyed
          \/ Of({"CK1", "W5"})
          \/ Of({"TLS", "TSF"}) /\ prog.then = "DMPLP"

HasAddress == \/ Of({"RD3", "W3"})
              \/ Of({"RD4", "W4"}) /\ ~Obeyed
              \/ Of({"RD2", "W2"}) /\ Obeyed

HasCommand == \/ Of({"RD4", "W4"}) /\ ~Obeyed
              \/ Of({"RD3", "W3"}) /\ Obeyed

SetUp ==
  /\ HasAddress => rk.car = Asked(prog).curent
  /\ HasCommand \/ Issued => rk.cmd_reg = Asked(prog).command
  /\ Issued => rk.dar = Asked(prog).track
  /\ HasCommand => rk.status = {}
  /\ Of({"RD4", "W4"}) => rk.disk_flag = 0

NoBreak == sd.dmaWR = 0 /\ sd.dmaRD = 0 /\ rk.data_break = 0 /\ ~InBreak

(* What sd.sv tells rk8e.sv takes two clocks, and shows for one more.      *)
Pipe(a, b, c, d) == sd.sdSTATE = a /\ sd.sdSTAT = b /\ rk.sdstate = c /\ rk.last = d

Op == IF rk.to_disk = 1 THEN "WRITE" ELSE "READ"

(* The transfer the program waits for is the one it asked for.             *)
Underway == /\ Issued /\ rk.disk_flag = 0 /\ sd.abort = 0
            /\ Of({"CK1", "W5"}) /\ Obeyed => rk.skip = 0
            /\ rk.to_disk = (IF IsRead(Asked(prog)) THEN 0 ELSE 1)

Quiet == /\ sd.state = "IDLE" /\ sd.abort = 0 /\ Pipe("READY", "READY", "READY", "READY")
         /\ rk.sdOP \in {"NOP", "ABORT"} /\ NoBreak

First  == IF rk.to_disk = 1 THEN "WRITE00" ELSE "READ00"
Second == IF rk.to_disk = 1 THEN "WRITE01" ELSE "READ01"
Third_ == IF rk.to_disk = 1 THEN "WRITE02" ELSE "READ02"

Starting ==
  /\ Underway /\ NoBreak /\ rk.status = {}
  /\ rk.sdOP = (IF rk.to_disk = 1 THEN "WR" ELSE "RD")
  /\ \/ /\ sd.state \in {"IDLE", First} /\ Pipe("READY", "READY", "READY", "READY")
        /\ rk.car = Asked(prog).curent
     \/ /\ sd.state \in {Second, Third_} /\ sd.CS = 0
        /\ sd.state = Third_ => sd.bytecnt <= 1
        /\ \/ sd.state = Second /\ Pipe(Op, "READY", "READY", "READY")
           \/ (sd.state = Third_ => sd.bytecnt = 0) /\ Pipe(Op, Op, "READY", "READY")
           \/ Pipe(Op, Op, Op, "READY")

ReadStates  == {"READ01", "READ02", "READ03", "READ04", "READ05", "READ06", "READ07", "READ08",
                "READ09"}
WriteStates == {"WRITE01", "WRITE02", "WRITE03", "WRITE04", "WRITE05", "WRITE06", "WRITE07",
                "WRITE08", "WRITE09", "WRITE10", "WRITE11", "WRITE12", "WRITE13", "WRITE14",
                "WRITE15", "WRITE16"}

(* The states in which a data break may be under way.                      *)
Breaking == {"READ05", "READ08", "READ09", "WRITE03", "WRITE07", "WRITE08"}

Running ==
  /\ Underway /\ rk.status = {} /\ rk.sdOP = "NOP" /\ Pipe(Op, Op, Op, Op)
  /\ \/ rk.to_disk = 0 /\ sd.state \in ReadStates /\ sd.CS = 0
     \/ rk.to_disk = 1 /\ sd.state \in WriteStates /\ sd.CS = 0
     \/ rk.to_disk = 1 /\ sd.state = "RWFAIL" /\ sd.CS = 1
     \/ sd.state \in {"FINI", "DONE"}
  /\ sd.state \notin Breaking => NoBreak

Ending ==
  /\ Underway /\ NoBreak /\ rk.sdOP = "NOP" /\ sd.state = "IDLE"
  /\ \/ rk.status = {} /\ Pipe("DONE", Op, Op, Op)
     \/ rk.status = {} /\ Pipe("READY", "DONE", Op, Op)
     \/ rk.status = {} /\ Pipe("READY", "READY", "DONE", Op)
     \/ rk.status = {"done"} /\ Pipe("READY", "READY", "READY", "DONE")

(* A failure is told for ever; the program comes to know of it.            *)
Reporting == /\ Underway /\ rk.sdOP = "NOP"
             /\ \/ rk.status = {} /\ Pipe("RWFAIL", Op, Op, Op)
                \/ rk.status = {} /\ Pipe("RWFAIL", "RWFAIL", Op, Op)
                \/ rk.status = {} /\ Pipe("RWFAIL", "RWFAIL", "RWFAIL", Op)
                \/ rk.status = {"drive"} /\ Pipe("RWFAIL", "RWFAIL", "RWFAIL", "RWFAIL")

Reported == /\ Pipe("RWFAIL", "RWFAIL", "RWFAIL", "RWFAIL")
            /\ rk.sdOP \in {"NOP", "ABORT"}
            /\ rk.status \subseteq {"done", "drive"}
            /\ ~Obeyed => rk.status = {"drive"}
            /\ \/ Issued
               \/ Of(Recalibrating \cup {"CK2", "CK3", "W6", "BADSTA", "W-error"})
            /\ Of({"CK2", "W6", "RC7"}) /\ Obeyed => rk.disk_bus = {"drive"}

Failed == /\ NoBreak /\ sd.CS = 1 /\ sd.state \in {"READ02", "READ03", "RWFAIL"}
          /\ Reporting \/ Reported

Phases == Quiet \/ Starting \/ Running \/ Ending \/ Failed

(* Where no break is asked for none begins, and no word moves.             *)
LEMMA NoBreakStays ==
  ASSUME Machine, NoBreak, NEW done, NEW rxd, OnEdge(done, rxd), Pulses(0, 0)
  PROVE  NoBreak' /\ memory' = memory /\ mem2disk' = mem2disk
<1>1. rk'.data_break = 0
  BY DEF OnEdge, Always, BreakRequest, NoBreak
<1>2. cpu'.state \in {"F0", "F1", "F3"} /\ memory' = memory /\ mem2disk' = mem2disk
  BY DEF OnEdge, Cycle, NoBreak, InBreak, Machine, CPURegisters
<1> QED BY <1>1, <1>2 DEF NoBreak, InBreak, Pulses

(* While the program waits it goes on sending, or comes to where it looks. *)
LEMMA IssuedGoes ==
  ASSUME Machine, Issued, NEW done, NEW rxd, OnEdge(done, rxd)
  PROVE  /\ \/ Issued' /\ Asked(prog)' = Asked(prog)
            \/ Of({"CK1", "W5"}) /\ Obeyed /\ rk.skip = 1
         /\ rk.disk_flag = 0 /\ (Of({"CK1", "W5"}) /\ Obeyed => rk.skip = 0) =>
              /\ Issued' /\ Asked(prog)' = Asked(prog) /\ Plain
              /\ (Of({"CK1", "W5"}) /\ Obeyed => rk.skip = 0)'
         /\ Of({"CK1", "W5"}) /\ Obeyed /\ rk.skip = 1 =>
              Of({"CK2", "W6"})' /\ ~Obeyed' /\ Asked(prog)' = Asked(prog)
         /\ Plain
<1>1. CASE Obeying
  BY <1>1 DEF Obeying, Issued, Of, Obeyed
<1>2. CASE Passing
  BY <1>2 DEF Passing, Issued, Of, Obeyed
<1>3. CASE Advancing
  <2>1. rk.skip \in {0, 1} /\ tx.skip \in {0, 1} /\ cpu.state = "F3" /\ cpu'.state = "F0" /\ Plain
    BY <1>3 DEF Machine, RKRegisters, Bit, Advancing, DumpInv, TransmitterOK
  <2>2. /\ Of({"CK1"}) => IF rk.skip = 0 THEN prog' = prog ELSE prog'.pc = "CK2"
        /\ Of({"W5"}) => IF rk.skip = 0 THEN prog' = prog ELSE prog'.pc = "W6"
        /\ Of({"RD4"}) => \/ prog'.pc = "TLS" /\ prog'.then = "DMPLP"
                          \/ prog'.pc = "CK1"
        /\ Of({"W4"}) => prog'.pc = "W5"
        /\ Of({"TLS"}) => prog'.pc = "TSF" /\ prog'.then = prog.then
        /\ Of({"TSF"}) => \/ prog' = prog
                          \/ prog'.pc = "TLS" /\ prog'.then = prog.then
                          \/ prog'.pc = "CK1"
                          \/ prog.then = "LAST"
    BY <1>3, <2>1 DEF Advancing, Follows, Waits, Skips, Of, Sequence, Issued
  <2>3. ~NextSector(prog') => Asked(prog)' = Asked(prog)
    BY <1>3 DEF Advancing
  <2> QED BY <2>1, <2>2, <2>3 DEF Issued, Of, Obeyed, NextSector
<1> QED BY <1>1, <1>2, <1>3 DEF OnEdge

(* Until the order is given nothing else has a hand in the registers.      *)
LEMMA AddressedQuietly ==
  ASSUME Phases, HasAddress \/ HasCommand, Machine
  PROVE  Quiet
<1>1. ~Issued
  BY DEF HasAddress, HasCommand, Issued, Of, Obeyed
<1>2. ~Reported
  BY <1>1 DEF Reported, HasAddress, HasCommand, Of, Obeyed, Recalibrating
<1> QED BY <1>1, <1>2 DEF Phases, Starting, Running, Ending, Failed, Reporting, Underway

(* A quiet interface leaves address and status as they are.                *)
LEMMA QuietRegisters ==
  ASSUME Quiet
  PROVE  NextCar = rk.car /\ NextOp = rk.sdOP /\ ClockedStatus = rk.status
  BY DEF Quiet, Pipe, NextCar, NextOp, ClockedStatus

(* The registers of the controller hold what the program gave them.        *)
LEMMA SetUpStep ==
  ASSUME Machine, SetUp, Phases, NEW done, NEW rxd, OnEdge(done, rxd)
  PROVE  SetUp'
<1> DEFINE Address_ == HasAddress => rk.car = Asked(prog).curent
           Command_ == HasCommand \/ Issued => rk.cmd_reg = Asked(prog).command
           Track_ == Issued => rk.dar = Asked(prog).track
           Clear_ == HasCommand => rk.status = {}
           Flag_ == Of({"RD4", "W4"}) => rk.disk_flag = 0
<1>1. /\ rk'.disk_flag = IF rk.status # {} THEN 1 ELSE 0
      /\ HasAddress \/ HasCommand => /\ NextCar = rk.car /\ NextOp = rk.sdOP
                                    /\ ClockedStatus = rk.status
  BY AddressedQuietly, QuietRegisters DEF OnEdge, Always
<1>2. CASE Obeying
  <2>1. /\ prog' = prog /\ cpu.state = "F1" /\ cpu'.state = "F3"
        /\ Of({"RD2", "W2"}) => rk'.car = Asked(prog).curent
        /\ Of({"RD3", "W3"}) => /\ rk'.cmd_reg = Asked(prog).command /\ rk'.status = {}
                                /\ rk'.car = NextCar
        /\ Of({"RD4", "W4"}) => rk'.dar = Asked(prog).track /\ rk'.cmd_reg = rk.cmd_reg
        /\ Of({"CK1", "W5", "TLS", "TSF"}) => rk'.cmd_reg = rk.cmd_reg /\ rk'.dar = rk.dar
    BY <1>2 DEF Obeying, Plain, Of
  <2>2. Address_' /\ Command_' /\ Track_' /\ Clear_' /\ Flag_'
    BY <1>1, <2>1 DEF SetUp, HasAddress, HasCommand, Issued, Of, Obeyed
  <2> QED BY <2>2 DEF SetUp
<1>3. CASE Passing
  <2>1. /\ prog' = prog /\ cpu.state # "F3" /\ cpu'.state # "F3"
        /\ rk'.car = NextCar /\ rk'.cmd_reg = rk.cmd_reg /\ rk'.dar = rk.dar
        /\ rk'.status = ClockedStatus
    BY <1>3 DEF Passing, Plain
  <2>2. Address_' /\ Command_' /\ Track_' /\ Clear_' /\ Flag_'
    BY <1>1, <2>1 DEF SetUp, HasAddress, HasCommand, Issued, Of, Obeyed
  <2> QED BY <2>2 DEF SetUp
<1>4. CASE Advancing
  <2>1. /\ cpu.state = "F3" /\ cpu'.state = "F0"
        /\ rk'.car = NextCar /\ rk'.cmd_reg = rk.cmd_reg /\ rk'.dar = rk.dar
        /\ rk'.status = ClockedStatus
    BY <1>4 DEF Advancing, Plain
  <2>2. \/ Of({"CK1", "W5", "TLS", "TSF"}) /\ Issued
        \/ ~Issued' /\ ~HasAddress' /\ ~HasCommand'
        \/ /\ Of({"RD2", "RD3", "RD4", "W2", "W3", "W4"})
           /\ prog'.pc # "TLS" \/ prog'.then = "DMPLP"
    <3>1. rk.skip \in {0, 1} /\ tx.skip \in {0, 1}
      BY DEF Machine, RKRegisters, Bit, DumpInv, TransmitterOK
    <3>2. Follows(prog, prog', Skips, rk.disk_bus) /\ ~Halted(prog) /\ ProgramOK(prog)
      BY <1>4 DEF Advancing, Machine, DumpInv
    <3>3. prog.pc \in {"CAF"} \cup Recalibrating \cup Reading \cup Punching \cup Writing
      BY <3>2 DEF ProgramOK, Halted, Final
    <3>4. CASE prog.pc \in {"CAF"} \cup Recalibrating \cup {"RD1", "W1", "W6", "CK2", "CK3"}
      <4>1. \/ prog' = prog
            \/ prog'.pc \in Recalibrating \cup {"RD2", "W2", "RD1", "BADSTA", "CK3", "W-finished",
                                               "W-error"}
            \/ prog'.pc = "TLS" /\ prog'.then = "LAST"
        BY <3>1, <3>2, <3>4 DEF Follows, Waits, Recalibrating, Sequence, NextSector
      <4> QED BY <2>1, <3>4, <4>1 DEF Issued, HasAddress, HasCommand, Of, Obeyed, Recalibrating
    <3>5. CASE prog.pc \in Punching /\ ~Issued
      <4>1. prog.then = "LAST"
        BY <3>2, <3>5 DEF Issued, Of, Punching, ProgramOK
      <4>2. \/ prog'.pc \in Punching /\ prog'.then = "LAST"
            \/ prog'.pc = "FINISH"
        BY <3>1, <3>2, <3>5, <4>1 DEF Follows, Waits, Skips, Punching
      <4> QED BY <2>1, <4>2 DEF Issued, HasAddress, HasCommand, Of, Obeyed, Punching
    <3>6. CASE prog.pc \in {"RD2", "RD3", "RD4", "W2", "W3", "W4"}
      <4>1. prog'.pc # "TLS" \/ prog'.then = "DMPLP"
        BY <3>2, <3>6 DEF Follows, Sequence
      <4> QED BY <3>6, <4>1 DEF Of
    <3>7. CASE (prog.pc \in Punching /\ Issued) \/ prog.pc \in {"CK1", "W5"}
      BY <3>7 DEF Issued, Of, Punching
    <3> QED BY <3>3, <3>4, <3>5, <3>6, <3>7 DEF Recalibrating, Reading, Punching, Writing
  <2>3. CASE Of({"CK1", "W5", "TLS", "TSF"}) /\ Issued
    <3>1. \/ Issued' /\ Asked(prog)' = Asked(prog)
          \/ Of({"CK2", "W6"})'
      <4>1. rk.skip \in {0, 1}
        BY DEF Machine, RKRegisters, Bit
      <4> QED BY <2>3, <4>1, IssuedGoes
    <3>2. ~HasAddress' /\ ~HasCommand' /\ ~Of({"RD4", "W4"})'
      BY <2>1, <3>1 DEF Issued, HasAddress, HasCommand, Of, Obeyed
    <3>3. Of({"CK2", "W6"})' => ~Issued'
      BY DEF Issued, Of
    <3>4. Address_' /\ Command_' /\ Track_' /\ Clear_' /\ Flag_'
      BY <2>1, <2>3, <3>1, <3>2, <3>3 DEF SetUp
    <3> QED BY <3>4 DEF SetUp
  <2>4. CASE ~Issued' /\ ~HasAddress' /\ ~HasCommand'
    <3>1. ~Of({"RD4", "W4"})'
      BY <2>1, <2>4 DEF HasAddress, Of, Obeyed
    <3>2. Address_' /\ Command_' /\ Track_' /\ Clear_' /\ Flag_'
      BY <2>4, <3>1
    <3> QED BY <3>2 DEF SetUp
  <2>5. CASE /\ Of({"RD2", "RD3", "RD4", "W2", "W3", "W4"})
             /\ prog'.pc # "TLS" \/ prog'.then = "DMPLP"
    <3>1. /\ Of({"RD2"}) => prog'.pc = "RD3"
          /\ Of({"RD3"}) => prog'.pc = "RD4"
          /\ Of({"RD4"}) => prog'.pc \in {"TLS", "CK1"}
          /\ Of({"W2"}) => prog'.pc = "W3"
          /\ Of({"W3"}) => prog'.pc = "W4"
          /\ Of({"W4"}) => prog'.pc = "W5"
          /\ Asked(prog') = Asked(prog)
      BY <1>4, <2>5 DEF Advancing, Follows, Of, Sequence, NextSector
    <3>2. Address_' /\ Command_' /\ Track_' /\ Clear_' /\ Flag_'
      BY <1>1, <2>1, <2>5, <3>1 DEF SetUp, HasAddress, HasCommand, Issued, Of, Obeyed
    <3> QED BY <3>2 DEF SetUp
  <2> QED BY <2>2, <2>3, <2>4, <2>5
<1> QED BY <1>2, <1>3, <1>4 DEF OnEdge

-----------------------------------------------------------------------------
(* From one edge to the next, phase by phase.                              *)
LEMMA QuietStep ==
  ASSUME Machine, SetUp, Quiet, NEW done, NEW rxd, OnEdge(done, rxd)
  PROVE  Quiet' \/ Starting'
<1>1. /\ sd'.abort = 0 /\ sd'.state = "IDLE" /\ sd'.sdSTATE = "READY" /\ sd'.sdSTAT = "READY"
      /\ Pulses(0, 0)
  <2>1. AtIDLE
    BY ByState DEF Quiet, OnEdge
  <2> QED BY <2>1, IdleEdge DEF Machine, Quiet, Pipe, Tick, Says, Moved
<1>2. rk'.sdstate = "READY" /\ rk'.last = "READY"
  BY DEF Quiet, Pipe, OnEdge, Always
<1>3. NoBreak'
  BY <1>1, NoBreakStays DEF Quiet
<1>4. rk'.sdOP \in {"NOP", "ABORT"} => Quiet'
  BY <1>1, <1>2, <1>3 DEF Quiet, Pipe
<1>5. NextOp = rk.sdOP /\ NextCar = rk.car /\ ClockedStatus = rk.status
  BY QuietRegisters
<1>6. CASE Obeying /\ Of({"RD4", "W4"})
  <2>1. HasAddress /\ HasCommand /\ ~Issued
    BY <1>6 DEF Obeying, HasAddress, HasCommand, Issued, Of, Obeyed
  <2>2. /\ rk.car = Asked(prog).curent /\ rk.cmd_reg = Asked(prog).command
        /\ rk.status = {} /\ rk.disk_flag = 0
    BY <1>6, <2>1 DEF SetUp
  <2>3. CASE NotStarted
    BY <1>4, <1>5, <2>3 DEF NotStarted, Quiet
  <2>4. CASE Started
    <3>1. /\ rk'.sdOP = (IF rk'.to_disk = 1 THEN "WR" ELSE "RD")
          /\ rk'.to_disk = (IF rk.cmd_reg \div 512 \in {0, 1} THEN 0 ELSE 1)
          /\ rk'.status = {} /\ rk'.car = rk.car
      BY <1>5, <1>6, <2>2, <2>4 DEF Started, Obeying
    <3>2. rk'.disk_flag = 0 /\ prog' = prog /\ cpu'.state = "F3"
      BY <1>6, <2>2 DEF OnEdge, Always, Obeying
    <3>3. Underway'
      BY <1>1, <1>6, <2>2, <3>1, <3>2 DEF Underway, Issued, Of, Obeyed, IsRead
    <3> QED BY <1>1, <1>2, <1>3, <2>2, <3>1, <3>2, <3>3 DEF Starting, Pipe
  <2> QED BY <1>6, <2>3, <2>4 DEF Obeying
<1>7. CASE Obeying /\ ~Of({"RD4", "W4"})
  <2>1. prog.pc \in {"CAF"} \cup Recalibrating \cup Reading \cup Punching \cup Writing
    BY <1>7 DEF Obeying, Machine, DumpInv, ProgramOK, Halted, Final
  <2>2. rk'.sdOP \in {NextOp, "NOP", "ABORT"}
    BY <1>7, <2>1 DEF Obeying, Of, Plain, Recalibrating, Reading, Punching, Writing
  <2> QED BY <1>4, <1>5, <2>2 DEF Quiet
<1>8. CASE Advancing \/ Passing
  BY <1>4, <1>5, <1>8 DEF Advancing, Passing, Plain, Quiet
<1> QED BY <1>6, <1>7, <1>8 DEF OnEdge

(* While a transfer is under way the program asks for nothing else.        *)
LEMMA UnderwayStep ==
  ASSUME Machine, Underway, NEW done, NEW rxd, OnEdge(done, rxd)
  PROVE  /\ Issued' /\ Asked(prog)' = Asked(prog) /\ Plain /\ rk'.to_disk = rk.to_disk /\ Op' = Op
         /\ rk.status = {} /\ sd'.abort = 0 => Underway'
<1>1. /\ Issued' /\ Asked(prog)' = Asked(prog) /\ Plain
      /\ (Of({"CK1", "W5"}) /\ Obeyed => rk.skip = 0)'
  BY IssuedGoes DEF Underway
<1>2. rk'.to_disk = rk.to_disk
  BY <1>1 DEF Plain
<1>3. rk.status = {} => rk'.disk_flag = 0
  BY DEF OnEdge, Always
<1> QED BY <1>1, <1>2, <1>3 DEF Underway, Op

(* The order reaches the card, and the controller hears of it.             *)
LEMMA StartingStep ==
  ASSUME Machine, SetUp, Starting, NEW done, NEW rxd, OnEdge(done, rxd),
         sd.state # "IDLE" => sdMEMaddr \in Address
  PROVE  Starting' \/ Running' \/ Failed'
<1>1. /\ Issued' /\ Asked(prog)' = Asked(prog) /\ Plain /\ rk'.to_disk = rk.to_disk /\ Op' = Op
      /\ sd'.abort = 0 => Underway'
  BY UnderwayStep DEF Starting
<1>2. rk'.sdstate = sd.sdSTAT /\ rk'.last = rk.sdstate
  BY DEF OnEdge, Always
<1>3. rk.to_disk \in {0, 1} /\ sd \in SDRegisters /\ rk.sdOP \in {"RD", "WR"} /\ sd.abort = 0
  BY DEF Machine, RKRegisters, Bit, Starting, Underway
<1>4. CASE sd.state = "IDLE"
  <2>1. AtIDLE /\ Pipe("READY", "READY", "READY", "READY") /\ rk.car = Asked(prog).curent
    BY <1>4, ByState DEF OnEdge, Starting, Second, Third_
  <2>2. /\ sd'.abort = 0 /\ sd'.sdSTATE = "READY" /\ sd'.sdSTAT = "READY" /\ Pulses(0, 0)
        /\ sd'.state = First
    BY <1>3, <2>1, IdleEdge DEF Machine, Pipe, Tick, Says, Moved, Starting, First
  <2>3. NoBreak'
    BY <2>2, NoBreakStays DEF Starting
  <2>4. rk'.status = {} /\ rk'.sdOP = rk.sdOP /\ rk'.car = rk.car
    BY <1>1, <2>1 DEF Plain, ClockedStatus, NextOp, NextCar, Pipe, Starting
  <2> QED BY <1>1, <1>2, <2>1, <2>2, <2>3, <2>4 DEF Starting, Pipe, First
<1>5. CASE sd.state = First
  <2>1. Command /\ Pipe("READY", "READY", "READY", "READY") /\ sd.state \in {"READ00", "WRITE00"}
    BY <1>5, ByState DEF OnEdge, Starting, Second, Third_, First
  <2>2. /\ sd'.abort = 0 /\ sd'.sdSTATE = Op /\ sd'.sdSTAT = "READY" /\ Pulses(0, 0)
        /\ sd'.state = Second /\ sd'.CS = 0
    BY <1>3, <1>5, <2>1, Commanding
       DEF Machine, Pipe, Tick, Says, Moved, Aborting, Starting, First, Second, Op
  <2>3. NoBreak'
    BY <2>2, NoBreakStays DEF Starting
  <2>4. rk'.status = {} /\ rk'.sdOP = rk.sdOP
    BY <1>1, <2>1 DEF Plain, ClockedStatus, NextOp, Pipe, Starting
  <2> QED BY <1>1, <1>2, <2>1, <2>2, <2>3, <2>4 DEF Starting, Pipe, Second, Third_
<1>6. CASE sd.state \in {Second, Third_} /\ rk.sdstate = "READY"
  <2>1. /\ Pipe(Op, "READY", "READY", "READY") \/ Pipe(Op, Op, "READY", "READY")
        /\ sd.CS = 0 /\ sd.sdSTATE = Op
        /\ \/ sd.state = Second
           \/ sd.state = Third_ /\ sd.bytecnt = 0 /\ Pipe(Op, Op, "READY", "READY")
    BY <1>6 DEF Starting, First, Second, Third_, Op, Pipe
  <2>2. /\ Tick /\ Aborting /\ Pulses(0, 0) /\ Silent
        /\ \/ sd.state = Second /\ sd'.state = Second
           \/ sd.state = Second /\ Moved(Third_, 0)
           \/ sd.state = Third_ /\ Moved(Third_, 1)
    <3>1. CASE sd.state = Second
      <4>1. Exchanging(done) \/ Commanded(done)
        BY <3>1, ByState DEF OnEdge, Second
      <4>2. CASE Exchanging(done)
        BY <1>3, <3>1, <4>2, Waited DEF Moved
      <4>3. CASE Commanded(done)
        BY <1>3, <3>1, <4>3, ByteStates DEF Moved, Second, Third_, Silent, Says
      <4> QED BY <4>1, <4>2, <4>3
    <3>2. CASE sd.state = Third_ /\ sd.bytecnt = 0
      <4>1. Exchanging(done) \/ Listen \/ Answer(done, rxd)
        BY <3>2, ByState DEF OnEdge, Third_
      <4>2. Asks
        BY <3>2 DEF Asks, At, Third_
      <4>3. Listen
        BY <4>1, <4>2 DEF Exchanging, Answer
      <4> QED BY <1>3, <3>2, <4>3, Listening DEF Again, Moved
    <3> QED BY <2>1, <3>1, <3>2
  <2>3. sd'.abort = 0 /\ sd'.sdSTATE = Op /\ sd'.sdSTAT = Op /\ sd'.CS = 0
    BY <1>3, <2>1, <2>2 DEF Aborting, Silent, Says, Tick
  <2>4. NoBreak'
    BY <2>2, NoBreakStays DEF Starting
  <2>5. rk'.status = {} /\ rk'.sdOP = rk.sdOP
    BY <1>1, <2>1 DEF Plain, ClockedStatus, NextOp, Pipe, Starting
  <2>6. Second' = Second /\ Third_' = Third_ /\ Second # Third_
    BY <1>1 DEF Second, Third_
  <2>7. /\ sd'.state \in {Second, Third_} /\ (sd'.state = Third_ => sd'.bytecnt <= 1)
        /\ Pipe(Op, "READY", "READY", "READY") => (sd'.state = Third_ => sd'.bytecnt = 0)
    <3>1. Op # "READY"
      BY DEF Op
    <3>2. CASE sd.state = Second
      BY <2>2, <2>6, <3>2 DEF Moved
    <3>3. CASE sd.state = Third_ /\ sd.bytecnt = 0 /\ Pipe(Op, Op, "READY", "READY")
      BY <2>2, <2>6, <3>1, <3>3 DEF Moved, Pipe
    <3> QED BY <2>1, <3>2, <3>3
  <2>8. \/ Pipe(Op, "READY", "READY", "READY") /\ Pipe(Op, Op, "READY", "READY")'
        \/ Pipe(Op, Op, Op, "READY")'
    BY <1>1, <1>2, <2>1, <2>3 DEF Pipe
  <2> QED BY <1>1, <2>3, <2>4, <2>5, <2>6, <2>7, <2>8 DEF Starting
<1>7. CASE sd.state \in {Second, Third_} /\ rk.sdstate # "READY"
  <2>1. /\ Pipe(Op, Op, Op, "READY") /\ sd.CS = 0
    BY <1>7 DEF Starting, First, Second, Third_, Op, Pipe
  <2>2. rk'.status = {} /\ rk'.sdOP = "NOP"
    BY <1>1, <2>1 DEF Plain, ClockedStatus, NextOp, Pipe, Starting, Op
  <2>3. /\ Tick /\ Aborting
        /\ \/ Silent /\ Pulses(0, 0) /\ sd'.state \in {Second, Third_}
           \/ Silent /\ sd'.state = (IF rk.to_disk = 1 THEN "WRITE03" ELSE "READ03")
              /\ (rk.to_disk = 0 => Pulses(0, 0))
           \/ Failing
    <3>1. CASE sd.state = Second
      <4>1. Exchanging(done) \/ Commanded(done)
        BY <3>1, ByState DEF OnEdge, Second
      <4>2. CASE Exchanging(done)
        BY <1>3, <3>1, <4>2, Waited DEF Moved
      <4>3. CASE Commanded(done)
        BY <1>3, <3>1, <4>3, ByteStates DEF Moved, Second, Third_, Silent, Says
      <4> QED BY <4>1, <4>2, <4>3
    <3>2. CASE sd.state = Third_
      <4>1. Exchanging(done) \/ Listen \/ Answer(done, rxd)
        BY <3>2, ByState DEF OnEdge, Third_
      <4>2. CASE Exchanging(done)
        BY <1>3, <3>2, <4>2, Waited DEF Moved
      <4>3. CASE Listen
        BY <1>3, <3>2, <4>3, Listening DEF Again, Moved
      <4>4. CASE Answer(done, rxd)
        BY <1>3, <3>2, <4>4, Answering DEF Again, Succeeded, Moved, Third_
      <4> QED BY <4>1, <4>2, <4>3, <4>4
    <3> QED BY <1>7, <3>1, <3>2
  <2>4. sd'.abort = 0 /\ sd'.sdSTAT = Op
    BY <1>3, <2>1, <2>3 DEF Aborting, Tick, Pipe
  <2>5. rk'.sdstate = Op /\ rk'.last = Op
    BY <1>2, <2>1 DEF Pipe
  <2>6. Pulses(0, 0) => NoBreak'
    BY NoBreakStays DEF Starting
  <2>7. CASE Silent
    <3>1. sd'.sdSTATE = Op /\ sd'.CS = 0
      BY <2>1, <2>7 DEF Silent, Says, Pipe
    <3>2. \/ Pulses(0, 0) /\ sd'.state \in {Second, Third_, "READ03"}
          \/ rk.to_disk = 1 /\ sd'.state = "WRITE03"
          \/ Failing /\ sd'.CS = 1
      BY <1>3, <2>3 DEF Failing, Says
    <3>3. CASE rk.to_disk = 1
      <4>1. \/ Pulses(0, 0) /\ sd'.state \in {"WRITE01", "WRITE02"}
            \/ sd'.state = "WRITE03"
        BY <2>3, <3>1, <3>3 DEF Second, Third_, Failing, Says
      <4> QED BY <1>1, <2>2, <2>4, <2>5, <2>6, <3>1, <3>3, <4>1
              DEF Running, Pipe, WriteStates, Breaking
    <3>4. CASE rk.to_disk = 0
      <4>1. Pulses(0, 0) /\ sd'.state \in {"READ01", "READ02", "READ03"}
        BY <2>3, <3>1, <3>4 DEF Second, Third_, Failing, Says
      <4> QED BY <1>1, <2>2, <2>4, <2>5, <2>6, <3>1, <3>4, <4>1
              DEF Running, Pipe, ReadStates, Breaking
    <3> QED BY <1>3, <3>3, <3>4
  <2>8. CASE Failing
    <3>1. NoBreak' /\ sd'.CS = 1
      BY <2>6, <2>8 DEF Failing, Says
    <3>2. CASE rk.to_disk = 1
      <4>1. sd'.state = "RWFAIL" /\ sd'.sdSTATE = Op
        BY <1>7, <2>1, <2>8, <3>2 DEF Failing, Moved, Says, Second, Third_, Pipe
      <4> QED BY <1>1, <2>2, <2>4, <2>5, <3>1, <3>2, <4>1 DEF Running, Pipe
    <3>3. CASE rk.to_disk = 0 /\ sd.state = "READ02"
      <4>1. sd'.state = "READ02" /\ sd'.sdSTATE = "RWFAIL"
        BY <2>8, <3>3 DEF Failing, Moved, Says
      <4> QED BY <1>1, <2>2, <2>4, <2>5, <3>1, <3>3, <4>1 DEF Failed, Reporting, Pipe
    <3>4. CASE rk.to_disk = 0 /\ sd.state = "READ01"
      <4>1. ~Failing
        <5>1. Exchanging(done) \/ Commanded(done)
          BY <3>4, ByState DEF OnEdge
        <5>2. sd'.CS = 0
          BY <1>3, <2>1, <3>4, <5>1, Waited, ByteStates DEF Silent, Says
        <5> QED BY <5>2 DEF Failing, Says
      <4> QED BY <2>8, <4>1
    <3> QED BY <1>3, <1>7, <3>2, <3>3, <3>4 DEF Second, Third_
  <2> QED BY <2>3, <2>7, <2>8
<1> QED BY <1>4, <1>5, <1>6, <1>7 DEF Starting

(* Where a transfer goes from each of its states.                          *)
Transferring == ReadStates \cup WriteStates \cup {"RWFAIL", "FINI", "DONE"}

Proceeds ==
  \/ sd.state \in ReadStates /\ sd'.state \in ReadStates /\ Silent
  \/ sd.state \in WriteStates /\ sd'.state \in WriteStates /\ Silent
  \/ sd.state \in {"READ09", "WRITE16"} /\ sd'.state = "FINI" /\ Says(sd.sdSTATE, 1)
  \/ sd.state = "FINI" /\ sd'.state \in {"FINI", "DONE"} /\ Silent
  \/ sd.state = "DONE" /\ sd'.state = "IDLE" /\ Says("DONE", sd.CS)
  \/ sd.state = "RWFAIL" /\ sd'.state = "RWFAIL" /\ Says("RWFAIL", sd.CS)
  \/ sd.state \in {"READ02", "READ03"} \cup WriteStates /\ Failing

Quietly(done) ==
  sd'.state \notin Breaking => Pulses(0, 0) /\ (sd.state \notin Breaking \/ done = 1)

(* In its transferring states the interface goes on or fails.              *)
LEMMA Transfers ==
  ASSUME sd \in SDRegisters, mem2disk \in Word, NoAbort, NEW done, NEW rxd,
         SDEdge(done, rxd, mem2disk), sd.state \in Transferring,
         sd.state \in {"READ05", "READ06"} => Byte \in Nat
  PROVE  Tick /\ Aborting /\ Proceeds /\ Quietly(done)
<1> DEFINE Goal == Tick /\ Aborting /\ Proceeds /\ Quietly(done)
<1> USE DEF Moved, ReadStates, WriteStates, Breaking
<1>1. CASE Exchanging(done)
  <2>1. Tick /\ Aborting /\ Silent /\ sd'.state = sd.state /\ Pulses(0, 0)
    BY <1>1, Waited
  <2>2. sd.state \in OnSPI /\ (sd.state \in Breaking => sd'.state \in Breaking)
    BY <1>1, <2>1 DEF Exchanging, At
  <2> QED BY <2>1, <2>2 DEF Proceeds, Quietly, OnSPI
<1>2. CASE sd.state \in {"READ01", "WRITE01", "WRITE13", "WRITE03", "WRITE10", "FINI", "READ09",
                         "WRITE16"} /\ ~Exchanging(done)
  <2>1. \/ Commanded(done) \/ AtWRITE03(done) \/ AtWRITE10(done) \/ AtFINI(done)
        \/ AtREAD09(done) \/ AtWRITE16(done)
    BY <1>2, ByState
  <2>2. /\ Tick /\ Pulses(0, 0) /\ Aborting /\ done = 1
        /\ sd'.state = CASE sd.state = "READ01" -> "READ02" [] sd.state = "WRITE01" -> "WRITE02"
                    [] sd.state = "WRITE13" -> "WRITE14" [] sd.state = "WRITE03" -> "WRITE04"
                    [] sd.state = "WRITE10" -> "WRITE11" [] sd.state = "FINI" -> "DONE"
                    [] OTHER -> "FINI"
        /\ Says(sd.sdSTATE, IF sd.state \in {"READ09", "WRITE16"} THEN 1 ELSE sd.CS)
    BY <2>1, ByteStates
  <2> QED BY <1>2, <2>2 DEF Proceeds, Quietly, Silent
<1>3. CASE sd.state \in {"READ02", "READ03", "WRITE02", "WRITE14"} /\ ~Exchanging(done)
  <2>1. Listen \/ Answer(done, rxd)
    BY <1>3, ByState
  <2>2. CASE Listen
    BY <1>3, <2>2, Listening DEF Again, Proceeds, Quietly
  <2>3. CASE Answer(done, rxd)
    <3>1. /\ Tick /\ Aborting
          /\ \/ Again
             \/ Failing
             \/ sd.state = "READ02" /\ Succeeded("READ03", 0)
             \/ sd.state = "READ03" /\ Succeeded("READ04", 0)
             \/ sd.state = "WRITE02" /\ Succeeded("WRITE03", 1)
             \/ sd.state = "WRITE14" /\ Succeeded("WRITE15", 0)
      BY <2>3, Answering
    <3> QED BY <1>3, <3>1 DEF Again, Succeeded, Failing, Proceeds, Quietly
  <2> QED BY <2>1, <2>2, <2>3
<1>4. CASE sd.state \in {"WRITE11", "WRITE12", "WRITE15"} /\ ~Exchanging(done)
  <2>1. AtWRITE11(done, rxd) \/ AtWRITE12(done, rxd) \/ AtWRITE15(done, rxd)
    BY <1>4, ByState
  <2>2. /\ Tick /\ Aborting
        /\ \/ sd.state = "WRITE12" /\ Again
           \/ Failing
           \/ sd.state = "WRITE11" /\ Succeeded("WRITE12", 0)
           \/ sd.state = "WRITE12" /\ Succeeded("WRITE13", 0)
           \/ sd.state = "WRITE15" /\ Succeeded("WRITE16", 0)
    BY <2>1, Responses
  <2> QED BY <1>4, <2>2 DEF Again, Succeeded, Failing, Proceeds, Quietly
<1>5. CASE sd.state \in {"READ04", "WRITE05"}
  <2>1. Granted
    BY <1>5, ByState
  <2>2. /\ Tick /\ Silent /\ Pulses(0, 0) /\ Aborting
        /\ \/ sd'.state = sd.state
           \/ sd'.state = (IF sd.state = "READ04" THEN "READ05" ELSE "WRITE06")
    BY <2>1, Granting
  <2> QED BY <1>5, <2>2 DEF Proceeds, Quietly
<1>6. CASE sd.state \in {"READ05", "READ06"} /\ ~Exchanging(done)
  <2>1. AtREAD05(done) \/ AtREAD06(done)
    BY <1>6, ByState
  <2>2. /\ Tick /\ Silent /\ Aborting /\ Pulses(0, 0) /\ done = 1
        /\ sd'.state = (IF sd.state = "READ05" THEN "READ06" ELSE "READ07")
    BY <1>6, <2>1, LowRead, HighRead DEF AtREAD05, AtREAD06, At
  <2> QED BY <1>6, <2>2 DEF Proceeds, Quietly
<1>7. CASE sd.state = "READ07"
  BY <1>7, ByState, AskingRead DEF Proceeds, Quietly
<1>8. CASE sd.state = "READ08"
  <2>1. Tick /\ Silent /\ Pulses(0, 0) /\ Aborting /\ sd'.state \in {"READ05", "READ09"}
    BY <1>8, ByState, WordRead
  <2> QED BY <1>8, <2>1 DEF Proceeds, Quietly
<1>9. CASE sd.state = "WRITE04" /\ ~Exchanging(done)
  BY <1>9, ByState, WritingOn DEF Proceeds, Quietly
<1>10. CASE sd.state = "WRITE06"
  BY <1>10, ByState, AskingWrite DEF Proceeds, Quietly
<1>11. CASE sd.state = "WRITE07"
  BY <1>11, ByState, LowSent DEF Proceeds, Quietly
<1>12. CASE sd.state = "WRITE08" /\ ~Exchanging(done)
  BY <1>12, ByState, HighSent DEF Proceeds, Quietly
<1>13. CASE sd.state = "WRITE09" /\ ~Exchanging(done)
  <2>1. Tick /\ Silent /\ Pulses(0, 0) /\ Aborting /\ sd'.state \in {"WRITE06", "WRITE10"}
    BY <1>13, ByState, WordSent
  <2> QED BY <1>13, <2>1 DEF Proceeds, Quietly
<1>14. CASE sd.state = "DONE"
  BY <1>14, ByState, DoneEdge DEF Proceeds, Quietly
<1>15. CASE sd.state = "RWFAIL"
  BY <1>15, ByState, FailedEdge DEF Proceeds, Quietly
<1> QED BY <1>1, <1>2, <1>3, <1>4, <1>5, <1>6, <1>7, <1>8, <1>9, <1>10, <1>11, <1>12, <1>13,
           <1>14, <1>15 DEF Transferring

(* The block goes through, and the controller hears of the end.            *)
LEMMA RunningStep ==
  ASSUME Machine, Running, NEW done, NEW rxd, OnEdge(done, rxd), done = 1 => NoBreak,
         sd.state \in {"READ05", "READ06"} => Byte \in Nat
  PROVE  sd' \in SDRegisters /\ (Running' \/ Ending' \/ Failed')
<1>1. /\ Issued' /\ Asked(prog)' = Asked(prog) /\ Plain /\ rk'.to_disk = rk.to_disk /\ Op' = Op
      /\ sd'.abort = 0 => Underway'
  BY UnderwayStep DEF Running
<1>2. /\ rk'.sdstate = Op /\ rk'.last = Op /\ rk'.status = {} /\ rk'.sdOP = "NOP"
  BY <1>1 DEF OnEdge, Always, Running, Pipe, Plain, ClockedStatus, NextOp, Op
<1>3. /\ rk.to_disk \in {0, 1} /\ sd \in SDRegisters /\ mem2disk \in Word /\ NoAbort
      /\ SDEdge(done, rxd, mem2disk) /\ sd.sdSTATE = Op /\ rk.sdOP = "NOP"
      /\ sd.state \in Transferring
  BY DEF Machine, RKRegisters, Bit, Running, Underway, NoAbort, OnEdge, Pipe, Transferring
<1>4. Tick /\ Aborting /\ Proceeds /\ Quietly(done)
  BY <1>3, Transfers
<1> SUFFICES Running' \/ Ending' \/ Failed'
  BY <1>4 DEF Tick
<1>5. sd'.abort = 0 /\ sd'.sdSTAT = Op
  BY <1>3, <1>4 DEF Aborting, NoAbort, Tick
<1>6. sd'.state \notin Breaking => NoBreak'
  BY <1>4, NoBreakStays DEF Quietly, Running
<1>7. CASE Silent
  <2>1. sd'.sdSTATE = Op /\ sd'.CS = sd.CS
    BY <1>3, <1>7 DEF Silent, Says
  <2>2. \/ sd.state \in ReadStates /\ sd'.state \in ReadStates
        \/ sd.state \in WriteStates /\ sd'.state \in WriteStates
        \/ sd'.state \in {"FINI", "DONE"}
        \/ Failing /\ sd.state \in {"READ02", "READ03"} \cup WriteStates
    BY <1>3, <1>4, <1>7 DEF Proceeds, Silent, Says, Op
  <2>3. CASE Failing /\ sd.state \in {"READ02", "READ03"} \cup WriteStates
    BY <2>1, <2>3 DEF Failing, Says, Running, ReadStates, WriteStates
  <2>4. /\ sd.state \in ReadStates => rk.to_disk = 0 /\ sd.CS = 0
        /\ sd.state \in WriteStates => rk.to_disk = 1 /\ sd.CS = 0
    BY DEF Running, ReadStates, WriteStates
  <2>5. /\ Underway' /\ rk'.status = {} /\ rk'.sdOP = "NOP" /\ Pipe(Op, Op, Op, Op)'
        /\ sd'.state \notin Breaking' => NoBreak'
    BY <1>1, <1>2, <1>5, <1>6, <2>1 DEF Pipe, Breaking
  <2>6. CASE sd.state \in ReadStates /\ sd'.state \in ReadStates
    <3>1. rk'.to_disk = 0 /\ sd'.CS = 0
      BY <1>1, <2>1, <2>4, <2>6
    <3> QED BY <2>5, <2>6, <3>1 DEF Running, ReadStates
  <2>7. CASE sd.state \in WriteStates /\ sd'.state \in WriteStates
    <3>1. rk'.to_disk = 1 /\ sd'.CS = 0
      BY <1>1, <2>1, <2>4, <2>7
    <3> QED BY <2>5, <2>7, <3>1 DEF Running, WriteStates
  <2>8. CASE sd'.state \in {"FINI", "DONE"}
    BY <2>5, <2>8 DEF Running
  <2> QED BY <1>4, <2>2, <2>3, <2>6, <2>7, <2>8 DEF Tick
<1>8. CASE sd'.state = "FINI" /\ Says(sd.sdSTATE, 1)
  BY <1>1, <1>2, <1>3, <1>4, <1>5, <1>6, <1>8 DEF Running, Pipe, Says, Tick
<1>9. CASE sd'.state = "IDLE" /\ Says("DONE", sd.CS)
  BY <1>1, <1>2, <1>3, <1>4, <1>5, <1>6, <1>9 DEF Ending, Pipe, Says, Breaking, Tick
<1>10. CASE sd.state = "RWFAIL" /\ sd'.state = "RWFAIL" /\ Says("RWFAIL", sd.CS)
  <2>1. sd.CS = 1
    BY <1>10 DEF Running, ReadStates, WriteStates
  <2> QED BY <1>1, <1>2, <1>3, <1>4, <1>5, <1>6, <1>10, <2>1
          DEF Failed, Reporting, Pipe, Says, Breaking, Tick
<1>11. CASE sd.state \in {"READ02", "READ03"} /\ Failing
  <2>1. sd'.state = sd.state /\ sd'.sdSTATE = "RWFAIL" /\ sd'.CS = 1
    BY <1>11 DEF Failing, Moved, Says
  <2> QED BY <1>1, <1>2, <1>3, <1>4, <1>5, <1>6, <1>11, <2>1
          DEF Failed, Reporting, Pipe, Breaking, Tick
<1>12. CASE sd.state \in WriteStates /\ Failing
  <2>1. sd'.state = "RWFAIL" /\ sd'.sdSTATE = Op /\ sd'.CS = 1 /\ rk.to_disk = 1
    BY <1>3, <1>12 DEF Failing, Moved, Says, WriteStates, Running, ReadStates
  <2> QED BY <1>1, <1>2, <1>3, <1>4, <1>5, <1>6, <2>1
          DEF Running, Pipe, Breaking, Tick
<1> QED BY <1>4, <1>7, <1>8, <1>9, <1>10, <1>11, <1>12 DEF Proceeds

(* After a transfer the interface comes back to IDLE.                      *)
LEMMA EndingStep ==
  ASSUME Machine, Ending, NEW done, NEW rxd, OnEdge(done, rxd)
  PROVE  sd' \in SDRegisters /\ (Ending' \/ Quiet')
<1>1. /\ Issued' /\ Asked(prog)' = Asked(prog) /\ Plain /\ rk'.to_disk = rk.to_disk /\ Op' = Op
      /\ rk.status = {} /\ sd'.abort = 0 => Underway'
  BY UnderwayStep DEF Ending
<1>2. /\ Tick /\ Pulses(0, 0) /\ sd'.sdSTATE = "READY" /\ sd'.state = "IDLE" /\ sd'.abort = 0
  <2>1. AtIDLE /\ sd \in SDRegisters /\ rk.sdOP = "NOP"
    BY ByState DEF OnEdge, Ending, Machine
  <2> QED BY <2>1, IdleEdge DEF Says, Moved
<1>3. NoBreak'
  BY <1>2, NoBreakStays DEF Ending
<1>4. rk'.sdstate = sd.sdSTAT /\ rk'.last = rk.sdstate /\ sd'.sdSTAT = sd.sdSTATE
  BY <1>2 DEF OnEdge, Always, Tick
<1>5. rk.to_disk \in {0, 1} /\ rk'.sdOP = "NOP"
  BY <1>1 DEF Machine, RKRegisters, Bit, Ending, Plain, NextOp
<1>6. CASE rk.status = {}
  <2>1. rk'.status = (IF Pipe("READY", "READY", "DONE", Op) THEN {"done"} ELSE {})
    BY <1>1, <1>6 DEF Plain, ClockedStatus, Ending, Pipe, Op
  <2> QED BY <1>1, <1>2, <1>3, <1>4, <1>5, <1>6, <2>1 DEF Ending, Pipe, Op, Tick
<1>7. CASE rk.status = {"done"}
  BY <1>2, <1>3, <1>4, <1>5, <1>7 DEF Ending, Pipe, Quiet, Tick
<1> QED BY <1>6, <1>7 DEF Ending

(* Nothing but another order gets a failed transfer out of its state, and  *)
(* the program never gives one: it finds the drive in error.               *)
LEMMA FailedStep ==
  ASSUME Machine, Failed, NEW done, NEW rxd, OnEdge(done, rxd), rxd = "ff"
  PROVE  sd' \in SDRegisters /\ Failed'
<1>1. /\ sd \in SDRegisters /\ SDEdge(done, rxd, mem2disk) /\ sd.CS = 1
      /\ sd.state \in {"READ02", "READ03", "RWFAIL"} /\ sd.sdSTATE = "RWFAIL"
  BY DEF Machine, OnEdge, Failed, Reporting, Reported, Pipe
<1>2. /\ Tick /\ Pulses(0, 0) /\ Says("RWFAIL", 1) /\ sd'.state = sd.state /\ Aborting
  <2>1. CASE sd.state = "RWFAIL"
    BY <1>1, <2>1, ByState, FailedEdge DEF Moved
  <2>2. CASE sd.state \in {"READ02", "READ03"}
    <3>1. Exchanging(done) \/ Listen \/ Answer(done, rxd)
      BY <1>1, <2>2, ByState
    <3>2. CASE Exchanging(done)
      BY <1>1, <3>2, Waited DEF Moved, Silent
    <3>3. CASE Listen
      BY <1>1, <3>3, Listening DEF Again, Moved, Silent
    <3>4. CASE Answer(done, rxd)
      <4>1. Tick /\ Aborting /\ (Again \/ Failing)
        BY <1>1, <3>4, Answering
      <4> QED BY <1>1, <2>2, <4>1 DEF Again, Failing, Moved, Silent
    <3> QED BY <3>1, <3>2, <3>3, <3>4
  <2> QED BY <1>1, <2>1, <2>2
<1>3. /\ NoBreak' /\ sd'.CS = 1 /\ sd'.state \in {"READ02", "READ03", "RWFAIL"}
      /\ sd'.sdSTATE = "RWFAIL"
  BY <1>1, <1>2, NoBreakStays DEF Failed, Says
<1>4. sd'.sdSTAT = "RWFAIL" /\ rk'.sdstate = sd.sdSTAT /\ rk'.last = rk.sdstate
  BY <1>1, <1>2 DEF OnEdge, Always, Tick
<1> SUFFICES Reporting' \/ Reported'
  BY <1>2, <1>3 DEF Failed, Tick
<1>5. CASE Reporting
  <2>1. /\ Issued' /\ Plain /\ Op' = Op /\ rk.sdOP = "NOP"
        /\ rk.status = {} => Underway'
    BY <1>2, <1>5, UnderwayStep DEF Reporting, Underway, Aborting
  <2>2. rk'.sdOP = "NOP"
    BY <2>1 DEF Plain, NextOp
  <2>3. CASE rk.status = {} /\ rk.sdstate = Op
    <3>1. rk'.status = {}
      BY <2>1, <2>3 DEF Plain, ClockedStatus, Op
    <3> QED BY <1>3, <1>4, <1>5, <2>1, <2>2, <2>3, <3>1 DEF Reporting, Pipe, Op
  <2>4. CASE rk.status = {} /\ rk.sdstate = "RWFAIL"
    <3>1. rk'.status = {"drive"}
      BY <2>1, <2>4 DEF Plain, ClockedStatus
    <3> QED BY <1>3, <1>4, <1>5, <2>1, <2>2, <2>4, <3>1 DEF Reporting, Pipe, Op
  <2>5. CASE rk.status = {"drive"}
    <3>1. rk.sdstate = "RWFAIL" /\ sd.sdSTAT = "RWFAIL"
      BY <1>5, <2>5 DEF Reporting, Pipe
    <3>2. rk'.status = {"drive"}
      BY <2>1, <2>5, <3>1 DEF Plain, ClockedStatus
    <3>3. ~Of({"CK2", "W6", "RC7"})'
      BY <2>1 DEF Issued, Of
    <3> QED BY <1>3, <1>4, <2>1, <2>2, <3>1, <3>2, <3>3 DEF Reported, Pipe
  <2> QED BY <1>5, <2>3, <2>4, <2>5 DEF Reporting, Pipe
<1>6. CASE Reported
  <2>1. /\ rk.sdstate = "RWFAIL" /\ sd.sdSTAT = "RWFAIL" /\ rk.last = "RWFAIL"
        /\ rk.sdOP \in {"NOP", "ABORT"} /\ rk.status \subseteq {"done", "drive"}
        /\ ~Obeyed => rk.status = {"drive"}
        /\ NextOp = rk.sdOP /\ ClockedStatus = {"drive"}
    BY <1>6 DEF Reported, Pipe, NextOp, ClockedStatus
  <2>2. Pipe("RWFAIL", "RWFAIL", "RWFAIL", "RWFAIL")'
    BY <1>3, <1>4, <2>1 DEF Pipe
  <2> DEFINE Pc == Issued \/ Of(Recalibrating \cup {"CK2", "CK3", "W6", "BADSTA", "W-error"})
             Status_ == /\ rk.sdOP \in {"NOP", "ABORT"}
                        /\ rk.status \subseteq {"done", "drive"}
                        /\ ~Obeyed => rk.status = {"drive"}
             Bus_ == Of({"CK2", "W6", "RC7"}) /\ Obeyed => rk.disk_bus = {"drive"}
  <2>3. Pc /\ Bus_
    BY <1>6 DEF Reported
  <2>4. CASE Issued
    <3>1. Plain /\ (Issued' \/ (Of({"CK2", "W6"})' /\ ~Obeyed'))
      <4>1. rk.skip \in {0, 1}
        BY DEF Machine, RKRegisters, Bit
      <4> QED BY <2>4, <4>1, IssuedGoes
    <3>2. Status_'
      <4>1. rk'.status = {"drive"} /\ rk'.sdOP = rk.sdOP
        BY <2>1, <3>1 DEF Plain
      <4> QED BY <2>1, <4>1
    <3>3. Pc'
      BY <3>1 DEF Of
    <3>4. Bus_'
      BY <3>1 DEF Issued, Of
    <3> QED BY <2>2, <3>2, <3>3, <3>4 DEF Reported
  <2>5. CASE ~Issued /\ Obeying
    <3>1. /\ prog' = prog /\ cpu.state = "F1" /\ cpu'.state = "F3" /\ ~Obeyed /\ Obeyed'
          /\ Of(Recalibrating \cup {"CK2", "CK3", "W6"})
      BY <2>3, <2>5 DEF Obeying, Obeyed, Of, Halted
    <3>2. /\ rk'.sdOP \in {NextOp, "ABORT"}
          /\ rk'.status \in {{"done"}, {}, ClockedStatus}
          /\ Of({"CK2", "W6", "RC7"}) => rk'.disk_bus = rk.status
      <4>1. \/ Of({"RC4", "RC6"}) \/ Of({"RC1", "RC3"}) \/ Of({"RC2", "RC5"})
            \/ Of({"RC7", "CK2", "CK3", "W6"})
        BY <3>1 DEF Of, Recalibrating
      <4>2. rk'.status \subseteq {"done"} => rk'.status \in {{"done"}, {}}
        OBVIOUS
      <4> QED BY <2>5, <4>1, <4>2 DEF Obeying, Of, Plain
    <3>3. Status_'
      BY <2>1, <3>1, <3>2
    <3>4. Pc' /\ Bus_'
      BY <2>1, <3>1, <3>2 DEF Of
    <3> QED BY <2>2, <3>3, <3>4 DEF Reported
  <2>6. CASE ~Issued /\ Passing
    <3>1. prog' = prog /\ ~Obeyed' /\ Plain
      BY <2>6 DEF Passing, Obeyed
    <3>2. Status_' /\ Pc' /\ Bus_'
      BY <2>1, <2>3, <2>6, <3>1 DEF Plain, Of
    <3> QED BY <2>2, <3>2 DEF Reported
  <2>7. CASE ~Issued /\ Advancing
    <3>1. /\ ~Obeyed' /\ Obeyed /\ Plain /\ ~Halted(prog)
          /\ Follows(prog, prog', Skips, rk.disk_bus)
      BY <2>7 DEF Advancing, Obeyed
    <3>2. Of(Recalibrating \cup {"CK2", "CK3", "W6"})
      BY <2>3, <2>7, <3>1 DEF Of, Halted
    <3>3. prog'.pc \in Recalibrating \cup {"CK3", "BADSTA", "W-error"}
      <4>1. prog.pc \in {"RC7", "CK2", "W6"} => rk.disk_bus # {"done"}
        BY <2>3, <3>1 DEF Of
      <4>2. rk.skip \in {0, 1}
        BY DEF Machine, RKRegisters, Bit
      <4>3. Skips = rk.skip
        BY <3>2 DEF Skips, Of, Recalibrating
      <4> QED BY <3>1, <3>2, <4>1, <4>2, <4>3
              DEF Follows, Waits, Recalibrating, Sequence, Of
    <3>4. Pc' /\ Status_' /\ Bus_'
      BY <2>1, <3>1, <3>3 DEF Plain, Of
    <3> QED BY <2>2, <3>4 DEF Reported
  <2> QED BY <2>4, <2>5, <2>6, <2>7 DEF OnEdge
<1> QED BY <1>5, <1>6 DEF Failed

-----------------------------------------------------------------------------
(* A break that the pulse of this clock is going to ask for, and one that  *)
(* has been asked for and not served.                                      *)
Requested(a) == /\ rk.data_break = 0 /\ ~InBreak /\ sd.dmaADDR = a
                /\ sd.dmaRD = rk.to_disk /\ sd.dmaWR = 1 - rk.to_disk

Pending(a) ==
  /\ sd.dmaWR = 0 /\ sd.dmaRD = 0
  /\ \/ /\ rk.data_break = 1 /\ rk.dmaAddr = a /\ cpu.state # "DB2"
        /\ InBreak => cpu.eaddr = a
     \/ /\ rk.data_break = 0 /\ cpu.state = "DB2" /\ cpu.eaddr = a
        /\ cpu.write_en = 1 - rk.to_disk
        /\ rk.to_disk = 0 => cpu.mdin = sd.dmaDOUT

-----------------------------------------------------------------------------
(* Where the words asked for go, which they are, and how many.             *)
Target == Asked(prog).curent
Block  == BlockOf(Asked(prog))
Count  == Length(Asked(prog))

(* The first k of them are in memory.                                      *)
In(k) == \A i \in 1..Count : i <= k => memory[Target + i - 1] = Content(Block)[i]

(* The next word is stored, unless a half block is complete.               *)
Stores(k) == /\ sd.memREQ = (IF k < Count THEN 1 ELSE 0)
             /\ k < Count => sd.memADDR = Target + k

(* The last word is on its way, or there.                                  *)
Arriving(k) == \/ NoBreak /\ In(k)
               \/ /\ 0 < k /\ k <= Count /\ Pending(Target + (k - 1))
                  /\ sd.dmaDOUT = Content(Block)[k] /\ In(k - 1)

(* sd.sv has read k whole words.                                           *)
ReadAt(k) ==
  /\ card.sends = Image[Block]
  /\ sd.state \in {"READ01", "READ02", "READ03", "READ04"} =>
       k = 0 /\ card.sent = 0 /\ sd.memADDR = Target /\ NoBreak
  /\ sd.state = "READ05" =>
       k < Words /\ card.sent = 2 * k /\ sd.bytecnt = 2 * k /\ Stores(k) /\ Arriving(k)
  /\ sd.state = "READ06" =>
       /\ k < Words /\ card.sent = 2 * k + 1 /\ sd.bytecnt = 2 * k + 1 /\ Stores(k)
       /\ NoBreak /\ In(k) /\ LowByte(sd.dmaDOUT) = LowByte(Image[Block][k + 1])
  /\ sd.state \in {"READ07", "READ08"} =>
       /\ k < Words /\ card.sent = 2 * k + 2 /\ sd.bytecnt = 2 * k + 1 /\ Stores(k)
       /\ In(k) /\ sd.dmaDOUT = Content(Block)[k + 1]
       /\ IF sd.state = "READ08" /\ sd.memREQ = 1 THEN Requested(Target + k) ELSE NoBreak
  /\ sd.state = "READ09" => k = Words /\ Arriving(k)
  /\ sd.state \in {"FINI", "DONE"} => NoBreak /\ In(Words)

ReadInv == sd.sdSTATE = "READ" => \E k \in 0..Words : ReadAt(k)

(* sd.sv has sent k whole words, and has the next from memory.             *)
Fetches(k) == sd.memREQ = (IF k < Count - 1 THEN 1 ELSE 0)
Fetched(i) == mem2disk = memory[Target + i]

WriteAt(k) ==
  /\ sd.state \in {"WRITE01", "WRITE02", "WRITE03", "WRITE04", "WRITE05"} =>
       k = 0 /\ card.got = <<>>
  /\ sd.state \in {"WRITE01", "WRITE02", "WRITE03", "WRITE04"} => sd.memADDR = Target
  /\ sd.state = "WRITE03" => \/ Requested(Target) \/ Pending(Target)
                             \/ NoBreak /\ Fetched(0)
  /\ sd.state = "WRITE04" => Fetched(0)
  /\ sd.state = "WRITE05" => Fetched(0) /\ sd.memADDR = Target + 1
  /\ sd.state \in {"WRITE06", "WRITE07"} =>
       /\ k <= Words - 2 /\ Len(card.got) = 2 * k /\ sd.bytecnt = 2 * k /\ Fetches(k)
       /\ sd.memREQ = 1 => Fetched(k) /\ sd.memADDR = Target + (k + 1)
  /\ sd.state = "WRITE07" => IF sd.memREQ = 1 THEN Requested(Target + (k + 1)) ELSE NoBreak
  /\ sd.state = "WRITE08" =>
       /\ k <= Words - 2 /\ Len(card.got) = 2 * k + 1 /\ sd.bytecnt = 2 * k /\ Fetches(k)
       /\ IF sd.memREQ = 1
          THEN /\ sd.memADDR = Target + (k + 2)
               /\ card.got[2 * k + 1] = LowByte(memory[Target + k])
               /\ sd.memBUF = HighByte(memory[Target + k])
               /\ Pending(Target + (k + 1)) \/ (NoBreak /\ Fetched(k + 1))
          ELSE card.got[2 * k + 1] = 0 /\ sd.memBUF = 0 /\ NoBreak
  /\ sd.state = "WRITE09" =>
       /\ k <= Words - 2 /\ Len(card.got) = 2 * k + 2 /\ sd.bytecnt = 2 * k + 1 /\ Fetches(k)
       /\ sd.memREQ = 1 => Fetched(k + 1) /\ sd.memADDR = Target + (k + 2)

WriteInv == sd.sdSTATE = "WRITE" => \E k \in 0..Words : WriteAt(k)

(* What has been sent stays what memory holds.                             *)
SentInv == /\ IsRead(Asked(prog)) => card.got = <<>>
           /\ \A i \in 1..(Len(card.got) \div 2) :
                \/ SentWord(i) = memory[Target + i - 1]
                \/ IsHalf(Asked(prog)) /\ i >= Words \div 2 /\ SentWord(i) = 0

(* The program is told, or about to be, that its read is done.             *)
Told == \/ Ending
        \/ Quiet /\ Issued /\ "done" \in rk.status
        \/ Of({"CK2", "W6"}) /\ IF Obeyed THEN rk.disk_bus = {"done"} ELSE "done" \in rk.status
        \/ Of({"W-finished"})

Arrived == Told /\ IsRead(Asked(prog)) => Holds(Target, Block, Count)

Outside == /\ IsJob(prog) => Untouched(Addresses \ Filling(Target, Count))
           /\ Untouched(Addresses \ (Filling(Buffer, Words)
                                        \cup Filling(OtherBuffer(Buffer), Words)))

(* How far each state of sd.sv counts.                                     *)
Bound == CASE sd.state \in {"READ02", "WRITE02", "WRITE14"} -> nCR
           [] sd.state = "READ03"  -> nAC
           [] sd.state = "WRITE12" -> nBZ
           [] sd.state \in {"READ05", "READ06", "READ07", "READ08"} -> 2 * Words
           [] sd.state \in {"WRITE06", "WRITE07", "WRITE08", "WRITE09"} -> 2 * Words
           [] OTHER -> 0
Counts == sd.bytecnt <= Bound

CardOK == /\ DOMAIN card = {"sends", "sent", "got"}
          /\ card.sent \in Nat /\ card.got \in Seq(Octet)

TransferInv == /\ Machine /\ CardOK /\ SetUp /\ Phases /\ Counts /\ ReadInv /\ WriteInv /\ SentInv
               /\ Arrived /\ Outside

-----------------------------------------------------------------------------
(* Words of the card are numbers.                                          *)
LEMMA ImageWords ==
  ASSUME NEW a \in Address, NEW i \in 1..Words
  PROVE  Image[a][i] \in Nat
<1>1. \A n \in CardWord : n \in Nat
  BY DEF CardWord
<1> QED BY <1>1, ImageAssumption

(* Where a block goes and how long it is.                                  *)
LEMMA Places ==
  ASSUME Machine
  PROVE  /\ Target \in Buffers /\ Target \in Nat /\ Block \in Address
         /\ Asked(prog).command \in Commands
         /\ Count \in Nat /\ 2 <= Count /\ Count <= Words
         /\ Count # Words => IsHalf(Asked(prog)) /\ 2 * Count = Words
         /\ IsHalf(Asked(prog)) => 2 * Count = Words
         /\ \A i \in Int : 0 <= i /\ i < Words => /\ Target + i \in Addresses /\ Target + i \in Nat
                                                 /\ Target + i < 32767
         /\ \A i \in Int : 1 <= i /\ i <= Words =>
              /\ Image[Block][i] \in Nat /\ Content(Block)[i] = Image[Block][i] % 4096
              /\ Content(Block)[i] \in Word
<1>1. Asked(prog) \in Request
  BY AskedType DEF Machine, DumpInv
<1>2. Target \in Buffers /\ Asked(prog).command \in Commands /\ Asked(prog).track \in Word
  BY <1>1 DEF Request, Target
<1>3. Words \in Nat /\ 2 < Words /\ Words <= 256
  BY Constants
<1>4. /\ Count \in Nat /\ 2 <= Count /\ Count <= Words
      /\ Count # Words => IsHalf(Asked(prog)) /\ 2 * Count = Words
      /\ IsHalf(Asked(prog)) => 2 * Count = Words
  <2>1. PICK w \in Nat : Words = 2 * w /\ w = Words \div 2
    BY <1>3, WordsAssumption
  <2> QED BY <1>3, <2>1 DEF Count, Length
<1>5. Block \in Address
  <2>1. PICK c \in Nat : c = Asked(prog).command
    BY <1>2, Ranges DEF Commands
  <2>2. PICK t \in Nat : t = Asked(prog).track /\ t < 4096
    BY <1>2, Ranges
  <2>3. PICK f \in Nat : f = c % 8 /\ f < 8
    BY <2>1
  <2>4. Block = f * 4096 + t
    BY <2>1, <2>2, <2>3 DEF Block, BlockOf
  <2>5. f * 4096 + t \in Int /\ 0 <= f * 4096 + t /\ f * 4096 + t < 32768
    BY <2>2, <2>3
  <2> QED BY <2>4, <2>5, Ranges
<1>6. ASSUME NEW i \in Int, 0 <= i, i < Words
      PROVE  Target + i \in Addresses /\ Target + i \in Nat /\ Target + i < 32767
  <2>1. Target \in {512, 768} /\ Target + i \in Addresses
    BY <1>2, <1>6, BufferWords
  <2> QED BY <1>3, <1>6, <2>1
<1>7. ASSUME NEW i \in Int, 1 <= i, i <= Words
      PROVE  /\ Image[Block][i] \in Nat /\ Content(Block)[i] = Image[Block][i] % 4096
             /\ Content(Block)[i] \in Word
  <2>1. i \in 1..Words
    BY <1>3, <1>7
  <2>3. Image[Block][i] \in Nat
    BY <1>5, <2>1, ImageWords
  <2>4. Content(Block)[i] = Image[Block][i] % 4096
    BY <2>1 DEF Content
  <2>5. PICK n \in Nat : n = Image[Block][i]
    BY <2>3
  <2>6. n % 4096 \in Int /\ 0 <= n % 4096 /\ n % 4096 < 4096
    BY <2>5
  <2> QED BY <2>3, <2>4, <2>5, <2>6, Ranges
<1>8. Target \in Nat
  BY <1>2, BufferWords
<1> QED BY <1>2, <1>4, <1>5, <1>6, <1>7, <1>8

(* Along a transfer the program asks for the same words.                   *)
LEMMA SamePlaces ==
  ASSUME Asked(prog)' = Asked(prog)
  PROVE  Target' = Target /\ Block' = Block /\ Count' = Count
  BY DEF Target, Block, Count

-----------------------------------------------------------------------------
(* A data break, from the pulse of sd.sv to the word in its place.         *)
LEMMA BreakAsked ==
  ASSUME Machine, NEW a, a = sd.memADDR, NoBreak, NEW done, NEW rxd, OnEdge(done, rxd), Tick,
         rk'.to_disk = rk.to_disk, Pulses(rk.to_disk, 1 - rk.to_disk)
  PROVE  Requested(a)' /\ memory' = memory /\ mem2disk' = mem2disk
<1>1. rk'.data_break = 0
  BY DEF OnEdge, Always, BreakRequest, NoBreak
<1>2. cpu'.state \in {"F0", "F1", "F3"} /\ memory' = memory /\ mem2disk' = mem2disk
  BY DEF OnEdge, Cycle, NoBreak, InBreak, Machine, CPURegisters
<1> QED BY <1>1, <1>2 DEF Requested, InBreak, Pulses, Tick

(* A requested break is pending after the next edge.                       *)
LEMMA BreakMade ==
  ASSUME Machine, NEW a, Requested(a), NEW done, NEW rxd, OnEdge(done, rxd),
         rk'.to_disk = rk.to_disk, Pulses(0, 0)
  PROVE  Pending(a)' /\ memory' = memory /\ mem2disk' = mem2disk
<1>1. 1 \in {sd.dmaWR, sd.dmaRD} /\ cpu.state \in {"F0", "F1", "F3"} /\ rk.data_break = 0
  BY DEF Requested, InBreak, Machine, CPURegisters, RKRegisters, Bit
<1>2. rk'.data_break = 1 /\ rk'.dmaAddr = a
  BY <1>1 DEF OnEdge, Always, BreakRequest, Requested
<1>3. cpu'.state \in {"F0", "F1", "F3"} /\ memory' = memory /\ mem2disk' = mem2disk
  BY <1>1 DEF OnEdge, Cycle
<1> QED BY <1>2, <1>3 DEF Pending, InBreak, Pulses

(* A pending break stays pending or moves its word.                        *)
LEMMA BreakGoes ==
  ASSUME Machine, NEW a, Pending(a), NEW done, NEW rxd, OnEdge(done, rxd),
         rk'.to_disk = rk.to_disk, Pulses(0, 0), sd'.dmaDOUT = sd.dmaDOUT
  PROVE  \/ Pending(a)' /\ memory' = memory /\ mem2disk' = mem2disk
         \/ /\ NoBreak'
            /\ IF rk.to_disk = 1 THEN memory' = memory /\ mem2disk' = memory[a]
               ELSE mem2disk' = mem2disk /\ memory' = [memory EXCEPT ![a] = sd.dmaDOUT]
<1>1. rk.to_disk \in {0, 1} /\ cpu.state \in {"F0", "F1", "F3", "DB0", "DB1", "DB2"}
  BY DEF Machine, RKRegisters, CPURegisters, Bit
<1>2. /\ sd.dmaWR = 0 /\ sd.dmaRD = 0 /\ rk'.data_break = BreakRequest(cpu.state)
      /\ rk'.dmaAddr = rk.dmaAddr /\ Cycle
  BY DEF Pending, OnEdge, Always
<1>3. CASE cpu.state = "DB2"
  <2>1. /\ rk.data_break = 0 /\ cpu.eaddr = a /\ cpu.write_en = 1 - rk.to_disk
        /\ rk.to_disk = 0 => cpu.mdin = sd.dmaDOUT
    BY <1>3 DEF Pending
  <2>2. cpu'.state = "F0" /\ rk'.data_break = 0
    BY <1>2, <1>3, <2>1 DEF Cycle, BreakRequest
  <2>3. /\ memory' = IF cpu.write_en = 1 THEN [memory EXCEPT ![cpu.eaddr] = cpu.mdin] ELSE memory
        /\ mem2disk' = IF rk.to_disk = 1 THEN memory[cpu.eaddr] ELSE mem2disk
    BY <1>2, <1>3 DEF Cycle
  <2>4. CASE rk.to_disk = 1
    BY <2>1, <2>2, <2>3, <2>4 DEF NoBreak, InBreak, Pulses
  <2>5. CASE rk.to_disk = 0
    <3>1. cpu.write_en = 1
      BY <2>1, <2>5
    <3> DEFINE Stored(x, w) == [memory EXCEPT ![x] = w]
    <3>2. memory' = Stored(cpu.eaddr, cpu.mdin) /\ mem2disk' = mem2disk
      BY <2>3, <2>5, <3>1
    <3> HIDE DEF Stored
    <3>3. memory' = Stored(a, sd.dmaDOUT)
      BY <2>1, <2>5, <3>2
    <3> USE DEF Stored
    <3>4. NoBreak'
      BY <2>2 DEF NoBreak, InBreak, Pulses
    <3>5. rk.to_disk # 1
      BY <2>5
    <3> HIDE DEF Stored
    <3>6. Stored(a, sd.dmaDOUT) = [memory EXCEPT ![a] = sd.dmaDOUT]
      BY DEF Stored
    <3>7. memory' = [memory EXCEPT ![a] = sd.dmaDOUT]
      BY <3>3, <3>6
    <3> QED BY <3>2, <3>4, <3>5, <3>7
  <2> QED BY <1>1, <2>4, <2>5
<1>4. CASE cpu.state = "DB1"
  BY <1>2, <1>4 DEF Pending, Cycle, BreakRequest, InBreak, Pulses
<1>5. CASE cpu.state \in {"F0", "F1", "F3", "DB0"}
  <2>1. /\ rk.data_break = 1 /\ rk.dmaAddr = a
        /\ cpu.state = "DB0" => cpu.eaddr = a
    BY <1>5 DEF Pending, InBreak
  <2>2. rk'.data_break = 1 /\ memory' = memory /\ mem2disk' = mem2disk
    BY <1>2, <1>5, <2>1 DEF Cycle, BreakRequest
  <2>3. cpu'.state \in {"F0", "F3"} \/ (cpu'.state \in {"DB0", "DB1"} /\ cpu'.eaddr = a)
    BY <1>2, <1>5, <2>1 DEF Cycle
  <2> QED BY <1>2, <2>1, <2>2, <2>3 DEF Pending, InBreak, Pulses
<1> QED BY <1>1, <1>3, <1>4, <1>5

-----------------------------------------------------------------------------
(* What is in memory stays there, and the next word is added to it.        *)
LEMMA InStays ==
  ASSUME Machine, Asked(prog)' = Asked(prog), memory' = memory, NEW k \in Nat, In(k)
  PROVE  In(k)'
  BY SamePlaces DEF In

(* One more word in memory.                                                *)
LEMMA InGrows ==
  ASSUME Machine, Asked(prog)' = Asked(prog), NEW k \in Nat, 0 < k, k <= Count, In(k - 1),
         memory' = [memory EXCEPT ![Target + (k - 1)] = Content(Block)[k]]
  PROVE  In(k)'
<1>1. /\ Target \in Nat /\ Count \in Nat /\ Count <= Words
      /\ Target + (k - 1) \in Addresses
  BY Places, Constants
<1>2. memory \in [Addresses -> Word]
  BY DEF Machine
<1>3. ASSUME NEW i \in 1..Count, i <= k
      PROVE  memory'[Target + i - 1] = Content(Block)[i]
  <2>1. CASE i = k
    BY <1>1, <1>2, <2>1
  <2>2. CASE i # k
    <3>1. i <= k - 1 /\ Target + i - 1 # Target + (k - 1)
      BY <1>1, <1>3, <2>2
    <3>2. memory'[Target + i - 1] = memory[Target + i - 1]
      <4>1. PICK j \in Int : j = i - 1 /\ 0 <= j /\ j < Words
        BY <1>1, <1>3, Constants
      <4>2. Target + j \in Addresses /\ Target + i - 1 = Target + j
        BY <1>1, <4>1, Places
      <4>3. \A n \in Addresses : n # Target + (k - 1) => memory'[n] = memory[n]
        BY <1>1, <1>2
      <4> QED BY <3>1, <4>2, <4>3
    <3> QED BY <3>1, <3>2 DEF In
  <2> QED BY <2>1, <2>2
<1> QED BY <1>3, SamePlaces DEF In

(* All of the words in memory: the block is held.                          *)
LEMMA InFull ==
  ASSUME Machine, NEW k \in Nat, Count <= k, In(k), NEW j \in Nat
  PROVE  In(j) /\ Holds(Target, Block, Count)
<1>1. Count \in Nat
  BY Places
<1>2. \A i \in 1..Count : i <= k
  BY <1>1
<1> QED BY <1>2 DEF In, Holds

(* A word on its way to memory arrives or stays on its way.                *)
LEMMA ArrivingStep ==
  ASSUME Machine, NEW k \in Nat, k <= Words, Arriving(k), rk.to_disk = 0, rk'.to_disk = 0,
         Asked(prog)' = Asked(prog), NEW done, NEW rxd, OnEdge(done, rxd), Pulses(0, 0),
         sd'.dmaDOUT = sd.dmaDOUT
  PROVE  /\ Arriving(k)' /\ mem2disk' = mem2disk
         /\ \/ memory' = memory
            \/ /\ 0 < k /\ k <= Count
               /\ memory' = [memory EXCEPT ![Target + (k - 1)] = sd.dmaDOUT]
<1>1. Target' = Target /\ Block' = Block /\ Count' = Count
  BY SamePlaces
<1>2. CASE NoBreak /\ In(k)
  <2>1. NoBreak' /\ memory' = memory /\ mem2disk' = mem2disk
    BY <1>2, NoBreakStays
  <2> QED BY <1>2, <2>1, InStays DEF Arriving
<1>3. CASE /\ 0 < k /\ k <= Count /\ Pending(Target + (k - 1))
           /\ sd.dmaDOUT = Content(Block)[k] /\ In(k - 1)
  <2> DEFINE a == Target + (k - 1)
  <2>1. \A x : x = a =>
          \/ Pending(x)' /\ memory' = memory /\ mem2disk' = mem2disk
          \/ NoBreak' /\ mem2disk' = mem2disk /\ memory' = [memory EXCEPT ![x] = sd.dmaDOUT]
    <3>1. SUFFICES ASSUME NEW x, x = a
          PROVE  \/ Pending(x)' /\ memory' = memory /\ mem2disk' = mem2disk
                 \/ NoBreak' /\ mem2disk' = mem2disk /\ memory' = [memory EXCEPT ![x] = sd.dmaDOUT]
      OBVIOUS
    <3>2. Pending(x)
      BY <1>3, <3>1
    <3> HIDE DEF a
    <3> QED BY <3>2, BreakGoes
  <2>2. CASE memory' = memory /\ mem2disk' = mem2disk /\ \A x : x = a => Pending(x)'
    <3>1. k - 1 \in Nat
      BY <1>3
    <3>2. In(k - 1)'
      BY <1>3, <2>2, <3>1, InStays
    <3>3. Pending(Target + (k - 1))'
      BY <1>1, <2>2
    <3> QED BY <1>1, <1>3, <2>2, <3>2, <3>3 DEF Arriving
  <2>3. CASE NoBreak' /\ mem2disk' = mem2disk /\ memory' = [memory EXCEPT ![a] = sd.dmaDOUT]
    <3>1. In(k)'
      BY <1>3, <2>3, InGrows
    <3> QED BY <1>3, <2>3, <3>1 DEF Arriving
  <2> QED BY <2>1, <2>2, <2>3
<1> QED BY <1>2, <1>3 DEF Arriving

-----------------------------------------------------------------------------
(* While sd.sv reports a transfer, it is the one the program waits for.    *)
LEMMA Midway ==
  ASSUME Machine, SetUp, Phases, sd.sdSTATE \in {"READ", "WRITE"},
         NEW done, NEW rxd, OnEdge(done, rxd)
  PROVE  /\ rk.to_disk = (IF sd.sdSTATE = "WRITE" THEN 1 ELSE 0) /\ rk'.to_disk = rk.to_disk
         /\ IsRead(Asked(prog)) <=> rk.to_disk = 0
         /\ NoAbort /\ Issued' /\ Asked(prog)' = Asked(prog)
         /\ sd.state \in Transferring /\ (sd.state \notin Breaking => NoBreak)
         /\ sd.sdSTATE = "READ" => sd.state \in ReadStates \cup {"FINI", "DONE"}
         /\ sd.sdSTATE = "WRITE" => sd.state \in WriteStates \cup {"FINI", "DONE", "RWFAIL"}
         /\ sdLEN = (IF IsHalf(Asked(prog)) THEN 1 ELSE 0)
<1>1. Starting \/ Running
  <2>1. Quiet => sd.sdSTATE = "READY"
    BY DEF Quiet, Pipe
  <2>2. Ending => sd.sdSTATE \in {"READY", "DONE"}
    BY DEF Ending, Pipe
  <2>3. Failed => sd.sdSTATE = "RWFAIL"
    BY DEF Failed, Reporting, Reported, Pipe
  <2> QED BY <2>1, <2>2, <2>3 DEF Phases
<1>2. Underway /\ sd.sdSTATE = Op /\ rk.to_disk \in {0, 1}
  BY <1>1 DEF Starting, Running, Pipe, Machine, RKRegisters, Bit
<1>3. /\ rk.to_disk = (IF sd.sdSTATE = "WRITE" THEN 1 ELSE 0)
      /\ IsRead(Asked(prog)) <=> rk.to_disk = 0
      /\ NoAbort
  BY <1>2 DEF Op, Underway, NoAbort
<1>4. Issued' /\ Asked(prog)' = Asked(prog) /\ rk'.to_disk = rk.to_disk
  BY <1>2, UnderwayStep
<1>5. /\ sd.state \in Transferring /\ (sd.state \notin Breaking => NoBreak)
      /\ sd.sdSTATE = "READ" => sd.state \in ReadStates \cup {"FINI", "DONE"}
      /\ sd.sdSTATE = "WRITE" => sd.state \in WriteStates \cup {"FINI", "DONE", "RWFAIL"}
  <2>1. CASE Starting
    BY <1>2, <1>3, <2>1
       DEF Starting, Pipe, First, Second, Third_, Transferring, ReadStates, WriteStates, Breaking
  <2>2. CASE Running
    BY <1>3, <2>2 DEF Running, Transferring
  <2> QED BY <1>1, <2>1, <2>2
<1>6. sdLEN = (IF IsHalf(Asked(prog)) THEN 1 ELSE 0)
  <2>1. rk.cmd_reg = Asked(prog).command
    BY <1>2 DEF Underway, SetUp
  <2>2. PICK c \in Nat : c = Asked(prog).command
    BY Places, Ranges DEF Commands
  <2>3. PICK h \in Nat : h = (c \div 64) % 2 /\ (h = 0 \/ h = 1)
    BY <2>2
  <2> QED BY <2>1, <2>2, <2>3 DEF sdLEN, IsHalf
<1> QED BY <1>3, <1>4, <1>5, <1>6

(* A step of a read: a word is stored, or none; the count of words goes on *)
(* with it.                                                                *)
Puts(k) == memory' = [memory EXCEPT ![Target + (k - 1)] = sd.dmaDOUT]
Kept == memory' = memory \/ \E k \in 1..Count : Puts(k)

ReadsOn == /\ CardOK' /\ mem2disk' = mem2disk /\ Kept
           /\ sd'.sdSTATE = "READ" => \E k \in 0..Words : ReadAt(k)'

(* Before the first word of a block read.                                  *)
LEMMA CommandedStep ==
  ASSUME Machine, CardOK, NEW k \in Nat, k <= Words, ReadAt(k), rk.to_disk = 0, rk'.to_disk = 0,
         Asked(prog)' = Asked(prog), NEW done, NEW rxd, OnEdge(done, rxd),
         sd.state \in {"READ01", "READ02", "READ03", "READ04"}
  PROVE  ReadsOn
<1>1. /\ k = 0 /\ card.sent = 0 /\ sd.memADDR = Target /\ NoBreak /\ card.sends = Image[Block]
  BY DEF ReadAt
<1>2. sd \in SDRegisters /\ SDEdge(done, rxd, mem2disk)
  BY DEF Machine, OnEdge
<1>3. /\ sd'.memADDR = sd.memADDR /\ Pulses(0, 0) /\ card' = card
      /\ \/ sd'.state \in {"READ01", "READ02", "READ03", "READ04"}
         \/ sd'.state = "READ05" /\ sd'.memREQ = 1 /\ sd'.bytecnt = 0
         \/ sd'.sdSTATE = "RWFAIL"
  <2>1. CASE Exchanging(done)
    BY <1>2, <2>1, Waited DEF SameBus, Bus, Moved
  <2>2. CASE sd.state = "READ01" /\ ~Exchanging(done)
    BY <1>2, <2>2, ByState, ByteStates DEF SameBus, Bus, Moved
  <2>3. CASE sd.state \in {"READ02", "READ03"} /\ ~Exchanging(done)
    <3>1. Listen \/ Answer(done, rxd)
      BY <1>2, <2>3, ByState
    <3>2. CASE Listen
      BY <1>2, <2>3, <3>2, Listening DEF SameBus, Bus, Again, Moved
    <3>3. CASE Answer(done, rxd)
      <4>1. /\ SameBus /\ card' = card
            /\ \/ Again \/ Failing
               \/ sd.state = "READ02" /\ Succeeded("READ03", 0)
               \/ sd.state = "READ03" /\ Succeeded("READ04", 0)
        BY <1>2, <2>3, <3>3, Answering
      <4> QED BY <2>3, <4>1 DEF SameBus, Bus, Again, Failing, Succeeded, Moved, Says
    <3> QED BY <3>1, <3>2, <3>3
  <2>4. CASE sd.state = "READ04"
    BY <1>2, <2>4, ByState, Granting DEF Bus
  <2> QED BY <2>1, <2>2, <2>3, <2>4
<1>4. NoBreak' /\ memory' = memory /\ mem2disk' = mem2disk
  BY <1>1, <1>3, NoBreakStays
<1>5. /\ Target' = Target /\ Block' = Block /\ Count' = Count
      /\ Target \in Nat /\ Count \in Nat /\ 2 <= Count /\ Words \in Nat /\ 2 < Words
  BY SamePlaces, Places, Constants
<1>6. In(0)'
  BY <1>5 DEF In
<1>7. sd'.sdSTATE = "READ" => ReadAt(0)'
  <2>1. card'.sends = Image[Block]' /\ card'.sent = 0 /\ sd'.memADDR = Target'
    BY <1>1, <1>3, <1>5
  <2>2. CASE sd'.state \in {"READ01", "READ02", "READ03", "READ04"}
    BY <1>4, <2>1, <2>2 DEF ReadAt
  <2>3. CASE sd'.state = "READ05" /\ sd'.memREQ = 1 /\ sd'.bytecnt = 0
    <3>1. Stores(0)'
      BY <1>5, <2>1, <2>3 DEF Stores
    <3>2. Arriving(0)'
      BY <1>4, <1>6 DEF Arriving
    <3> QED BY <1>5, <2>1, <2>3, <3>1, <3>2 DEF ReadAt
  <2> QED BY <1>3, <2>2, <2>3
<1>8. CardOK'
  BY <1>3 DEF CardOK
<1> QED BY <1>4, <1>5, <1>7, <1>8 DEF ReadsOn, Kept

(* The low half of a word read.                                            *)
LEMMA LowStep ==
  ASSUME Machine, CardOK, NEW k \in Nat, k <= Words, ReadAt(k), rk.to_disk = 0, rk'.to_disk = 0,
         Asked(prog)' = Asked(prog), NEW done, NEW rxd, OnEdge(done, rxd), done = 1 => NoBreak,
         sd.state = "READ05"
  PROVE  ReadsOn /\ Byte \in Nat
<1>1. /\ k < Words /\ card.sent = 2 * k /\ sd.bytecnt = 2 * k /\ Stores(k) /\ Arriving(k)
      /\ card.sends = Image[Block]
  BY DEF ReadAt
<1>2. sd \in SDRegisters /\ SDEdge(done, rxd, mem2disk) /\ sd.dmaDOUT \in Nat
  BY Ranges DEF Machine, OnEdge, SDRegisters
<1>3. /\ Target' = Target /\ Block' = Block /\ Count' = Count
      /\ Target \in Nat /\ Count \in Nat /\ 2 <= Count /\ Words \in Nat /\ 2 < Words
  BY SamePlaces, Places, Constants
<1>4. Byte = Image[Block][k + 1] /\ Byte \in Nat
  <2>1. (card.sent \div 2) + 1 = k + 1 /\ 1 <= k + 1 /\ k + 1 <= Words /\ k + 1 \in Int
    BY <1>1, <1>3
  <2>2. Image[Block][k + 1] \in Nat
    BY <2>1, Places
  <2> QED BY <1>1, <2>1, <2>2 DEF Byte
<1>5. CASE Exchanging(done)
  <2>1. /\ SameBus /\ Pulses(0, 0) /\ sd'.state = "READ05" /\ sd'.bytecnt = sd.bytecnt
        /\ card' = card
    BY <1>2, <1>5, Waited DEF Moved
  <2>2. /\ Arriving(k)' /\ mem2disk' = mem2disk
        /\ \/ memory' = memory
           \/ /\ 0 < k /\ k <= Count
              /\ memory' = [memory EXCEPT ![Target + (k - 1)] = sd.dmaDOUT]
    BY <1>1, <2>1, ArrivingStep DEF SameBus, Bus
  <2>3. Stores(k)'
    BY <1>1, <1>3, <2>1 DEF Stores, SameBus, Bus
  <2>4. ReadAt(k)'
    BY <1>1, <1>3, <2>1, <2>2, <2>3 DEF ReadAt
  <2>5. CardOK' /\ k \in 0..Words
    BY <1>3, <2>1 DEF CardOK
  <2>6. Kept
    <3>1. memory' = memory \/ (0 < k /\ k <= Count /\ Puts(k))
      BY <2>2 DEF Puts
    <3> QED BY <1>3, <3>1 DEF Kept
  <2> QED BY <1>4, <2>2, <2>4, <2>5, <2>6 DEF ReadsOn
<1>6. CASE AtREAD05(done)
  <2>1. /\ Bus(sd.memADDR, sd.memREQ, 256 * HighByte(sd.dmaDOUT) + LowByte(Byte))
        /\ Moved("READ06", sd.bytecnt + 1) /\ Pulses(0, 0) /\ done = 1
        /\ card' = [card EXCEPT !.sent = @ + 1]
    BY <1>2, <1>4, <1>6, LowRead
  <2>2. NoBreak /\ sd.dmaWR = 0
    BY <2>1 DEF NoBreak
  <2>3. NoBreak' /\ memory' = memory /\ mem2disk' = mem2disk
    BY <2>1, <2>2, NoBreakStays
  <2>4. In(k)
    BY <1>1, <2>2 DEF Arriving, Pending, NoBreak, InBreak
  <2>5. In(k)'
    BY <2>3, <2>4, InStays
  <2>6. card'.sent = 2 * k + 1 /\ card'.sends = Image[Block]' /\ CardOK'
    BY <1>1, <1>3, <2>1 DEF CardOK
  <2>7. LowByte(sd'.dmaDOUT) = LowByte(Image[Block][k + 1])
    <3>1. HighByte(sd.dmaDOUT) \in Nibble /\ LowByte(Byte) \in Octet
      BY <1>2, <1>4, Halves
    <3> QED BY <1>4, <2>1, <3>1, Assembled DEF Bus
  <2>8. Stores(k)' /\ sd'.bytecnt = 2 * k + 1 /\ sd'.state = "READ06"
    BY <1>1, <1>3, <2>1 DEF Stores, Bus, Moved
  <2>9. ReadAt(k)'
    BY <1>1, <1>3, <2>3, <2>5, <2>6, <2>7, <2>8 DEF ReadAt
  <2>10. k \in 0..Words
    BY <1>3
  <2> QED BY <1>4, <2>3, <2>6, <2>9, <2>10 DEF ReadsOn, Kept
<1> QED BY <1>2, <1>5, <1>6, ByState

(* Its high half: the word is whole in dmaDOUT.                            *)
LEMMA HighStep ==
  ASSUME Machine, CardOK, NEW k \in Nat, k <= Words, ReadAt(k), rk.to_disk = 0, rk'.to_disk = 0,
         Asked(prog)' = Asked(prog), NEW done, NEW rxd, OnEdge(done, rxd),
         sd.state = "READ06"
  PROVE  ReadsOn /\ Byte \in Nat
<1>1. /\ k < Words /\ card.sent = 2 * k + 1 /\ sd.bytecnt = 2 * k + 1 /\ Stores(k) /\ In(k)
      /\ NoBreak /\ LowByte(sd.dmaDOUT) = LowByte(Image[Block][k + 1])
      /\ card.sends = Image[Block]
  BY DEF ReadAt
<1>2. sd \in SDRegisters /\ SDEdge(done, rxd, mem2disk)
  BY DEF Machine, OnEdge
<1>3. /\ Target' = Target /\ Block' = Block /\ Count' = Count
      /\ Target \in Nat /\ Count \in Nat /\ 2 <= Count /\ Words \in Nat /\ 2 < Words
      /\ k \in 0..Words
  BY SamePlaces, Places, Constants
<1>4. /\ Byte = Image[Block][k + 1] /\ Byte \in Nat
      /\ Content(Block)[k + 1] = Image[Block][k + 1] % 4096
  <2>1. (card.sent \div 2) + 1 = k + 1 /\ 1 <= k + 1 /\ k + 1 <= Words /\ k + 1 \in Int
    BY <1>1, <1>3
  <2>2. /\ Image[Block][k + 1] \in Nat
        /\ Content(Block)[k + 1] = Image[Block][k + 1] % 4096
    BY <2>1, Places
  <2> QED BY <1>1, <2>1, <2>2 DEF Byte
<1>5. Pulses(0, 0)
  BY <1>2, <1>4, ByState, Waited, HighRead
<1>6. NoBreak' /\ memory' = memory /\ mem2disk' = mem2disk
  BY <1>1, <1>5, NoBreakStays
<1>7. In(k)'
  BY <1>1, <1>6, InStays
<1>8. CASE Exchanging(done)
  <2>1. SameBus /\ sd'.state = "READ06" /\ sd'.bytecnt = sd.bytecnt /\ card' = card
    BY <1>2, <1>8, Waited DEF Moved
  <2>2. Stores(k)'
    BY <1>1, <1>3, <2>1 DEF Stores, SameBus, Bus
  <2>3. ReadAt(k)'
    BY <1>1, <1>3, <1>6, <1>7, <2>1, <2>2 DEF ReadAt, SameBus, Bus
  <2>4. CardOK'
    BY <2>1 DEF CardOK
  <2> QED BY <1>3, <1>4, <1>6, <2>3, <2>4 DEF ReadsOn, Kept
<1>9. CASE AtREAD06(done)
  <2>1. /\ Bus(sd.memADDR, sd.memREQ, 256 * HighByte(Byte) + LowByte(sd.dmaDOUT))
        /\ Moved("READ07", sd.bytecnt) /\ card' = [card EXCEPT !.sent = @ + 1]
    BY <1>2, <1>4, <1>9, HighRead
  <2>2. card'.sent = 2 * k + 2 /\ card'.sends = Image[Block]' /\ CardOK'
    BY <1>1, <1>3, <2>1 DEF CardOK
  <2>3. sd'.dmaDOUT = Content(Block)[k + 1]
    BY <1>1, <1>4, <2>1, Halves DEF Bus
  <2>4. Stores(k)' /\ sd'.bytecnt = 2 * k + 1 /\ sd'.state = "READ07"
    BY <1>1, <1>3, <2>1 DEF Stores, Bus, Moved
  <2>5. ReadAt(k)'
    <3>1. Content(Block)' = Content(Block)
      BY <1>3 DEF Content
    <3> QED BY <1>1, <1>3, <1>6, <1>7, <2>2, <2>3, <2>4, <3>1 DEF ReadAt
  <2> QED BY <1>3, <1>4, <1>6, <2>2, <2>5 DEF ReadsOn, Kept
<1> QED BY <1>2, <1>8, <1>9, ByState

(* The word is asked for in its place, unless a half block is complete.    *)
LEMMA AskStep ==
  ASSUME Machine, CardOK, NEW k \in Nat, k <= Words, ReadAt(k), rk.to_disk = 0, rk'.to_disk = 0,
         Asked(prog)' = Asked(prog), NEW done, NEW rxd, OnEdge(done, rxd),
         sd.state = "READ07"
  PROVE  ReadsOn
<1>1. /\ k < Words /\ card.sent = 2 * k + 2 /\ sd.bytecnt = 2 * k + 1 /\ Stores(k) /\ In(k)
      /\ sd.dmaDOUT = Content(Block)[k + 1] /\ NoBreak /\ card.sends = Image[Block]
  BY DEF ReadAt
<1>2. sd \in SDRegisters /\ SDEdge(done, rxd, mem2disk)
  BY DEF Machine, OnEdge
<1>3. /\ Target' = Target /\ Block' = Block /\ Count' = Count
      /\ Target \in Nat /\ Count \in Nat /\ Words \in Nat /\ k \in 0..Words
      /\ Content(Block)' = Content(Block)
  BY SamePlaces, Places, Constants DEF Content
<1>4. /\ Tick /\ SameBus /\ card' = card /\ Moved("READ08", sd.bytecnt) /\ Pulses(0, sd.memREQ)
  BY <1>2, ByState, AskingRead
<1>5. Stores(k)' /\ sd'.memREQ = sd.memREQ
  BY <1>1, <1>3, <1>4 DEF Stores, SameBus, Bus
<1>6. /\ IF sd'.memREQ = 1 THEN Requested(Target + k)' ELSE NoBreak'
      /\ memory' = memory /\ mem2disk' = mem2disk
  <2>1. CASE sd.memREQ = 1
    <3>1. sd.memADDR = Target + k
      BY <1>1, <1>3, <2>1 DEF Stores
    <3>2. \A a : a = sd.memADDR => Requested(a)' /\ memory' = memory /\ mem2disk' = mem2disk
      <4>1. Pulses(rk.to_disk, 1 - rk.to_disk)
        BY <1>4, <2>1
      <4>2. rk'.to_disk = rk.to_disk
        OBVIOUS
      <4>3. SUFFICES ASSUME NEW a, a = sd.memADDR
            PROVE  Requested(a)' /\ memory' = memory /\ mem2disk' = mem2disk
        OBVIOUS
      <4> QED BY <1>1, <1>4, <4>1, <4>2, <4>3, BreakAsked
    <3> QED BY <1>3, <1>5, <2>1, <3>1, <3>2
  <2>2. CASE sd.memREQ = 0
    BY <1>1, <1>4, <1>5, <2>2, NoBreakStays
  <2>3. sd.memREQ \in {0, 1}
    BY <1>2 DEF SDRegisters, Bit
  <2> QED BY <2>1, <2>2, <2>3
<1>7. In(k)'
  BY <1>1, <1>6, InStays
<1>8. ReadAt(k)'
  BY <1>1, <1>3, <1>4, <1>5, <1>6, <1>7 DEF ReadAt, SameBus, Bus, Moved
<1> QED BY <1>3, <1>4, <1>6, <1>8 DEF ReadsOn, Kept, CardOK

(* The next word, unless this was the last.                                *)
LEMMA WordStep ==
  ASSUME Machine, CardOK, NEW k \in Nat, k <= Words, ReadAt(k), rk.to_disk = 0, rk'.to_disk = 0,
         Asked(prog)' = Asked(prog), NEW done, NEW rxd, OnEdge(done, rxd), NoAbort,
         sdLEN = (IF IsHalf(Asked(prog)) THEN 1 ELSE 0), sd.state = "READ08"
  PROVE  ReadsOn
<1>1. /\ k < Words /\ card.sent = 2 * k + 2 /\ sd.bytecnt = 2 * k + 1 /\ Stores(k) /\ In(k)
      /\ sd.dmaDOUT = Content(Block)[k + 1] /\ card.sends = Image[Block]
      /\ IF sd.memREQ = 1 THEN Requested(Target + k) ELSE NoBreak
  BY DEF ReadAt
<1>2. sd \in SDRegisters /\ SDEdge(done, rxd, mem2disk)
  BY DEF Machine, OnEdge
<1>3. /\ Target' = Target /\ Block' = Block /\ Count' = Count
      /\ Target \in Nat /\ Count \in Nat /\ Words \in Nat /\ Count <= Words
      /\ Content(Block)' = Content(Block)
  BY SamePlaces, Places, Constants DEF Content
<1>4. PICK j \in Nat : j = k + 1 /\ j - 1 = k /\ j <= Words
  BY <1>1, <1>3
<1>5. /\ Tick /\ Pulses(0, 0) /\ card' = card /\ sd'.dmaDOUT = sd.dmaDOUT
      /\ sd'.state \in {"READ05", "READ09"}
  BY <1>2, ByState, WordRead DEF Bus, Moved
<1>6. sd.memREQ = (IF k < Count THEN 1 ELSE 0) /\ (k < Count => sd.memADDR = Target + k)
  BY <1>1 DEF Stores
<1>7. Arriving(j)' /\ memory' = memory /\ mem2disk' = mem2disk
  <2>1. CASE k < Count
    <3>1. \A a : a = Target + k => Pending(a)' /\ memory' = memory /\ mem2disk' = mem2disk
      <4>1. SUFFICES ASSUME NEW a, a = Target + k
            PROVE  Pending(a)' /\ memory' = memory /\ mem2disk' = mem2disk
        OBVIOUS
      <4>2. Requested(a)
        BY <1>1, <1>6, <2>1, <4>1
      <4>3. rk'.to_disk = rk.to_disk
        OBVIOUS
      <4> QED BY <1>5, <4>2, <4>3, BreakMade
    <3>2. In(j - 1)'
      BY <1>1, <1>4, <3>1, InStays
    <3>3. Pending(Target + (j - 1))'
      BY <1>3, <1>4, <3>1
    <3>4. 0 < j /\ j <= Count' /\ sd'.dmaDOUT = Content(Block)'[j]
      BY <1>1, <1>3, <1>4, <1>5, <2>1
    <3> QED BY <1>3, <3>1, <3>2, <3>3, <3>4 DEF Arriving
  <2>2. CASE Count <= k
    <3>1. NoBreak
      BY <1>1, <1>3, <1>6, <2>2
    <3>2. NoBreak' /\ memory' = memory /\ mem2disk' = mem2disk
      BY <1>5, <3>1, NoBreakStays
    <3>3. In(j)
      BY <1>1, <2>2, InFull
    <3>4. In(j)'
      BY <3>2, <3>3, InStays
    <3> QED BY <3>2, <3>4 DEF Arriving
  <2> QED BY <1>3, <2>1, <2>2
<1>8. ReadAt(j)'
  <2>1. CASE sd.bytecnt = 2 * Words - 1
    <3>1. j = Words
      BY <1>1, <1>3, <1>4, <2>1
    <3>2. sd'.state = "READ09" /\ card'.sends = Image[Block]'
      BY <1>1, <1>2, <1>3, <1>5, <2>1, ByState, WordRead DEF Moved
    <3> QED BY <1>7, <3>1, <3>2 DEF ReadAt
  <2>2. CASE sd.bytecnt # 2 * Words - 1
    <3>1. /\ Moved("READ05", sd.bytecnt + 1)
          /\ IF sd.bytecnt >= Words - 1 /\ sd.bytecnt <= 2 * Words - 2 /\ sdLEN = 1
             THEN Bus(sd.memADDR, 0, sd.dmaDOUT)
             ELSE Bus(Next15(sd.memADDR), sd.memREQ, sd.dmaDOUT)
      BY <1>2, <2>2, ByState, WordRead
    <3>2. j < Words /\ sd'.state = "READ05" /\ sd'.bytecnt = 2 * j
      BY <1>1, <1>3, <1>4, <2>2, <3>1 DEF Moved
    <3>3. Stores(j)'
      <4>1. /\ sd'.memREQ = (IF j < Count THEN 1 ELSE 0)
            /\ j < Count => sd'.memADDR = Next15(sd.memADDR)
        <5>1. CASE IsHalf(Asked(prog))
          <6>1. sdLEN = 1 /\ 2 * Count = Words
            BY <5>1, Places
          <6> QED BY <1>1, <1>3, <1>4, <1>6, <3>1, <3>2, <6>1 DEF Bus
        <5>2. CASE ~IsHalf(Asked(prog))
          <6>1. sdLEN = 0 /\ Count = Words
            BY <5>2, Places
          <6> QED BY <1>1, <1>3, <1>4, <1>6, <3>1, <3>2, <6>1 DEF Bus
        <5> QED BY <5>1, <5>2
      <4>2. j < Count => Next15(sd.memADDR) = Target + j
        <5>1. SUFFICES ASSUME j < Count PROVE Next15(sd.memADDR) = Target + j
          OBVIOUS
        <5>2. sd.memADDR = Target + k /\ k \in Int /\ 0 <= k /\ k < Words
          BY <1>1, <1>3, <1>4, <1>6, <5>1
        <5>3. PICK t \in Nat : t = Target + k /\ t < 32767
          BY <5>2, Places
        <5>4. (t + 1) % 32768 = t + 1
          BY <5>3
        <5> QED BY <1>3, <1>4, <5>2, <5>3, <5>4 DEF Next15
      <4> QED BY <1>3, <4>1, <4>2 DEF Stores
    <3>4. card'.sent = 2 * j /\ card'.sends = Image[Block]'
      BY <1>1, <1>3, <1>4, <1>5
    <3> QED BY <1>3, <1>7, <3>2, <3>3, <3>4 DEF ReadAt
  <2> QED BY <2>1, <2>2
<1>9. j \in 0..Words /\ CardOK'
  BY <1>3, <1>4, <1>5 DEF CardOK
<1> QED BY <1>7, <1>8, <1>9 DEF ReadsOn, Kept

(* The last word arrives while the checksum is read.                       *)
LEMMA LastStep ==
  ASSUME Machine, CardOK, NEW k \in Nat, k <= Words, ReadAt(k), rk.to_disk = 0, rk'.to_disk = 0,
         Asked(prog)' = Asked(prog), NEW done, NEW rxd, OnEdge(done, rxd), done = 1 => NoBreak,
         sd.state \in {"READ09", "FINI", "DONE"}
  PROVE  /\ ReadsOn
         /\ sd'.state \notin {"READ09"} => In(Words)'
<1>1. /\ sd.state = "READ09" => k = Words /\ Arriving(k)
      /\ sd.state \in {"FINI", "DONE"} => NoBreak /\ In(Words)
      /\ card.sends = Image[Block]
  BY DEF ReadAt
<1>2. sd \in SDRegisters /\ SDEdge(done, rxd, mem2disk)
  BY DEF Machine, OnEdge
<1>3. /\ Target' = Target /\ Block' = Block /\ Count' = Count
      /\ Target \in Nat /\ Count \in Nat /\ Words \in Nat
  BY SamePlaces, Places, Constants
<1>4. /\ Tick /\ SameBus /\ Pulses(0, 0) /\ card' = card
      /\ sd.state = "READ09" => \/ Exchanging(done) /\ sd'.state = "READ09"
                                \/ done = 1 /\ sd'.state = "FINI"
      /\ sd.state \in {"FINI", "DONE"} => sd'.state \in {"FINI", "DONE", "IDLE"}
  <2>1. CASE Exchanging(done)
    <3>1. sd.state # "DONE"
      BY <2>1 DEF Exchanging, At, OnSPI
    <3> QED BY <1>2, <2>1, <3>1, Waited DEF Moved
  <2>2. CASE AtREAD09(done) \/ AtFINI(done)
    <3>1. sd.state # "DONE"
      BY <2>2, Guards
    <3> QED BY <1>2, <2>2, <3>1, ByteStates DEF Moved
  <2>3. CASE AtDONE
    <3>1. sd.state = "DONE"
      BY <2>3, Guards
    <3> QED BY <1>2, <2>3, <3>1, DoneEdge DEF Moved
  <2> QED BY <1>2, <2>1, <2>2, <2>3, ByState
<1>5. card'.sends = Image[Block]' /\ CardOK' /\ sd'.dmaDOUT = sd.dmaDOUT
  BY <1>1, <1>3, <1>4 DEF CardOK, SameBus, Bus
<1>6. CASE NoBreak /\ In(Words)
  <2>1. NoBreak' /\ memory' = memory /\ mem2disk' = mem2disk
    BY <1>4, <1>6, NoBreakStays
  <2>2. In(Words)'
    BY <1>3, <1>6, <2>1, InStays
  <2>3. ReadAt(Words)'
    BY <1>4, <1>5, <2>1, <2>2 DEF ReadAt, Arriving
  <2>4. Words \in 0..Words
    BY <1>3
  <2> QED BY <1>5, <2>1, <2>2, <2>3, <2>4 DEF ReadsOn, Kept
<1>7. CASE sd.state = "READ09" /\ ~(NoBreak /\ In(Words))
  <2>1. k = Words /\ Arriving(k) /\ done # 1 /\ sd'.state = "READ09"
    BY <1>1, <1>4, <1>7 DEF Arriving, Pending, NoBreak, InBreak
  <2>2. /\ Arriving(k)' /\ mem2disk' = mem2disk
        /\ \/ memory' = memory
           \/ /\ 0 < k /\ k <= Count
              /\ memory' = [memory EXCEPT ![Target + (k - 1)] = sd.dmaDOUT]
    BY <1>4, <1>5, <2>1, ArrivingStep
  <2>3. ReadAt(k)'
    BY <1>5, <2>1, <2>2 DEF ReadAt
  <2>4. Kept
    <3>1. memory' = memory \/ (0 < k /\ k <= Count /\ Puts(k))
      BY <2>2 DEF Puts
    <3> QED BY <1>3, <3>1 DEF Kept
  <2>5. k \in 0..Words
    BY <1>3
  <2> QED BY <1>5, <2>1, <2>2, <2>3, <2>4, <2>5 DEF ReadsOn
<1> QED BY <1>1, <1>6, <1>7

(* A read from edge to edge.                                               *)
LEMMA ReadStep ==
  ASSUME Machine, CardOK, SetUp, Phases, ReadInv, sd.sdSTATE = "READ",
         NEW done, NEW rxd, OnEdge(done, rxd), done = 1 => NoBreak
  PROVE  /\ ReadsOn /\ (sd.state \in {"READ05", "READ06"} => Byte \in Nat)
         /\ sd'.sdSTATE = "DONE" => In(Words)'
<1>1. /\ rk.to_disk = 0 /\ rk'.to_disk = 0 /\ NoAbort /\ Asked(prog)' = Asked(prog)
      /\ sd.state \in Transferring
      /\ sd.state \in ReadStates \cup {"FINI", "DONE"}
      /\ sdLEN = (IF IsHalf(Asked(prog)) THEN 1 ELSE 0)
  BY Midway
<1>2. PICK k \in 0..Words : ReadAt(k)
  BY DEF ReadInv
<1>3. k \in Nat /\ k <= Words
  BY Constants
<1>4. ReadsOn /\ (sd.state \in {"READ05", "READ06"} => Byte \in Nat)
  <2>1. CASE sd.state \in {"READ01", "READ02", "READ03", "READ04"}
    BY <1>1, <1>2, <1>3, <2>1, CommandedStep
  <2>2. CASE sd.state = "READ05"
    BY <1>1, <1>2, <1>3, <2>2, LowStep
  <2>3. CASE sd.state = "READ06"
    BY <1>1, <1>2, <1>3, <2>3, HighStep
  <2>4. CASE sd.state = "READ07"
    BY <1>1, <1>2, <1>3, <2>4, AskStep
  <2>5. CASE sd.state = "READ08"
    BY <1>1, <1>2, <1>3, <2>5, WordStep
  <2>6. CASE sd.state \in {"READ09", "FINI", "DONE"}
    BY <1>1, <1>2, <1>3, <2>6, LastStep
  <2> QED BY <1>1, <2>1, <2>2, <2>3, <2>4, <2>5, <2>6 DEF ReadStates
<1>5. sd'.sdSTATE = "DONE" => sd.state = "DONE" /\ sd'.state = "IDLE"
  <2>1. Proceeds
    BY <1>1, <1>4, Transfers DEF Machine, OnEdge
  <2> QED BY <2>1 DEF Proceeds, Silent, Says, Failing
<1>6. sd.state = "DONE" /\ sd'.state = "IDLE" => In(Words)'
  BY <1>1, <1>2, <1>3, LastStep
<1> QED BY <1>4, <1>5, <1>6

-----------------------------------------------------------------------------
(* The bytes sent, as words.                                               *)
LEMMA SentStays ==
  ASSUME SentInv, Asked(prog)' = Asked(prog), memory' = memory, card'.got = card.got
  PROVE  SentInv'
<1>1. Target' = Target
  BY SamePlaces
<1>2. \A i : SentWord(i)' = SentWord(i)
  BY DEF SentWord
<1> QED BY <1>1, <1>2 DEF SentInv

(* The card has one more low half.                                         *)
LEMMA LowAppended ==
  ASSUME CardOK, SentInv, ~IsRead(Asked(prog)), Asked(prog)' = Asked(prog), memory' = memory,
         NEW k \in Nat, Len(card.got) = 2 * k, NEW b \in Octet, card'.got = Append(card.got, b)
  PROVE  /\ SentInv' /\ Len(card'.got) = 2 * k + 1 /\ card'.got[2 * k + 1] = b
         /\ card'.got \in Seq(Octet)
<1>1. /\ card.got \in Seq(Octet) /\ card'.got \in Seq(Octet) /\ Len(card'.got) = 2 * k + 1
      /\ card'.got[2 * k + 1] = b /\ \A n \in 1..(2 * k) : card'.got[n] = card.got[n]
  BY DEF CardOK
<1>2. Target' = Target
  BY SamePlaces
<1>3. Len(card.got) \div 2 = k /\ Len(card'.got) \div 2 = k
  BY <1>1
<1>4. ASSUME NEW i \in 1..k
      PROVE  SentWord(i)' = SentWord(i)
  <2>1. 2 * i - 1 \in 1..(2 * k) /\ 2 * i \in 1..(2 * k)
    OBVIOUS
  <2> QED BY <1>1, <2>1 DEF SentWord
<1> QED BY <1>1, <1>2, <1>3, <1>4 DEF SentInv

(* The card has the high half too, of the word in memory or of 0.          *)
LEMMA HighAppended ==
  ASSUME Machine, CardOK, SentInv, ~IsRead(Asked(prog)),
         Asked(prog)' = Asked(prog), memory' = memory,
         NEW k \in Nat, Len(card.got) = 2 * k + 1,
         NEW b \in Octet, card'.got = Append(card.got, b),
         \/ card.got[2 * k + 1] + 256 * b = memory[Target + k]
         \/ IsHalf(Asked(prog)) /\ k + 1 >= Words \div 2 /\ card.got[2 * k + 1] + 256 * b = 0
  PROVE  SentInv' /\ Len(card'.got) = 2 * k + 2 /\ card'.got \in Seq(Octet)
<1>1. /\ card.got \in Seq(Octet) /\ card'.got \in Seq(Octet) /\ Len(card'.got) = 2 * k + 2
      /\ card'.got[2 * k + 2] = b /\ \A n \in 1..(2 * k + 1) : card'.got[n] = card.got[n]
  BY DEF CardOK
<1>2. Target' = Target
  BY SamePlaces
<1>3. Len(card.got) \div 2 = k /\ Len(card'.got) \div 2 = k + 1
  BY <1>1
<1>4. ASSUME NEW i \in 1..k
      PROVE  SentWord(i)' = SentWord(i)
  <2>1. 2 * i - 1 \in 1..(2 * k + 1) /\ 2 * i \in 1..(2 * k + 1)
    OBVIOUS
  <2> QED BY <1>1, <2>1 DEF SentWord
<1>5. SentWord(k + 1)' = card.got[2 * k + 1] + 256 * b
  <2>1. 2 * (k + 1) - 1 = 2 * k + 1 /\ 2 * (k + 1) = 2 * k + 2 /\ 2 * k + 1 \in 1..(2 * k + 1)
    OBVIOUS
  <2> QED BY <1>1, <2>1 DEF SentWord
<1>6. ASSUME NEW i \in 1..(k + 1)
      PROVE  \/ SentWord(i)' = memory[Target + i - 1]
             \/ IsHalf(Asked(prog)) /\ i >= Words \div 2 /\ SentWord(i)' = 0
  <2>1. CASE i = k + 1
    <3>1. Target + (k + 1) - 1 = Target + k
      BY Places
    <3> QED BY <1>5, <2>1, <3>1
  <2>2. CASE i \in 1..k
    BY <1>3, <1>4, <2>2 DEF SentInv
  <2> QED BY <2>1, <2>2
<1> QED BY <1>1, <1>2, <1>3, <1>6 DEF SentInv

(* A step of a write: memory stays, and what is sent is what it holds.     *)
WritesOn == /\ CardOK' /\ memory' = memory /\ mem2disk' \in Word /\ SentInv'
            /\ sd'.sdSTATE = "WRITE" => \E k \in 0..Words : WriteAt(k)'

(* The buffer asked for holds words.                                       *)
LEMMA WordsHeld ==
  ASSUME Machine
  PROVE  \A i \in Int : 0 <= i /\ i < Words => memory[Target + i] \in Word
  BY Places DEF Machine

(* Before the first word of a block written.                               *)
LEMMA OpenedStep ==
  ASSUME Machine, CardOK, SentInv, NEW k \in Nat, k <= Words, WriteAt(k),
         rk.to_disk = 1, rk'.to_disk = 1, Asked(prog)' = Asked(prog),
         NEW done, NEW rxd, OnEdge(done, rxd), NoBreak,
         sd.state \in {"WRITE01", "WRITE02", "WRITE04", "WRITE05"}
  PROVE  WritesOn
<1>1. /\ k = 0 /\ card.got = <<>>
      /\ sd.state \in {"WRITE01", "WRITE02", "WRITE04"} => sd.memADDR = Target
      /\ sd.state \in {"WRITE04", "WRITE05"} => Fetched(0)
      /\ sd.state = "WRITE05" => sd.memADDR = Target + 1
  BY DEF WriteAt
<1>2. sd \in SDRegisters /\ SDEdge(done, rxd, mem2disk) /\ mem2disk \in Word
  BY DEF Machine, OnEdge
<1>3. /\ Target' = Target /\ Count' = Count /\ Target \in Nat
      /\ Count \in Nat /\ 2 <= Count /\ Words \in Nat /\ 2 < Words
  BY SamePlaces, Places, Constants
<1>4. /\ card' = card /\ sd'.dmaDOUT = sd.dmaDOUT /\ Tick
      /\ \/ /\ sd'.state \in {"WRITE01", "WRITE02"} /\ sd'.memADDR = sd.memADDR /\ Pulses(0, 0)
            /\ sd.state \in {"WRITE01", "WRITE02"}
         \/ /\ sd'.state = "WRITE03" /\ sd'.memADDR = sd.memADDR /\ Pulses(1, 0)
            /\ sd.state = "WRITE02"
         \/ /\ sd'.state = "WRITE04" /\ sd'.memADDR = sd.memADDR /\ Pulses(0, 0)
            /\ sd.state = "WRITE04"
         \/ /\ sd'.state = "WRITE05" /\ Pulses(0, 0)
            /\ \/ sd.state = "WRITE04" /\ sd'.memADDR = Next15(sd.memADDR)
               \/ sd.state = "WRITE05" /\ sd'.memADDR = sd.memADDR
         \/ /\ sd'.state = "WRITE06" /\ sd'.memADDR = sd.memADDR /\ Pulses(0, 0)
            /\ sd.state = "WRITE05" /\ sd'.bytecnt = 0 /\ sd'.memREQ = 1
         \/ sd'.state = "RWFAIL" /\ Pulses(0, 0)
  <2>1. CASE Exchanging(done)
    <3>1. sd.state # "WRITE05"
      BY <2>1 DEF Exchanging, At, OnSPI
    <3> QED BY <1>2, <2>1, <3>1, Waited DEF SameBus, Bus, Moved
  <2>2. CASE sd.state = "WRITE01" /\ ~Exchanging(done)
    BY <1>2, <2>2, ByState, ByteStates DEF SameBus, Bus, Moved
  <2>3. CASE sd.state = "WRITE02" /\ ~Exchanging(done)
    <3>1. Listen \/ Answer(done, rxd)
      BY <1>2, <2>3, ByState
    <3>2. CASE Listen
      BY <1>2, <2>3, <3>2, Listening DEF SameBus, Bus, Again, Moved
    <3>3. CASE Answer(done, rxd)
      <4>1. Tick /\ SameBus /\ card' = card /\ (Again \/ Failing \/ Succeeded("WRITE03", 1))
        BY <1>2, <2>3, <3>3, Answering
      <4> QED BY <2>3, <4>1 DEF SameBus, Bus, Again, Failing, Succeeded, Moved
    <3> QED BY <3>1, <3>2, <3>3
  <2>4. CASE sd.state = "WRITE04" /\ ~Exchanging(done)
    BY <1>2, <2>4, ByState, WritingOn DEF Bus, Moved
  <2>5. CASE sd.state = "WRITE05"
    BY <1>2, <2>5, ByState, Granting DEF Bus
  <2> QED BY <2>1, <2>2, <2>3, <2>4, <2>5
<1>5. /\ memory' = memory /\ mem2disk' = mem2disk
      /\ sd'.state # "WRITE03" => NoBreak'
  BY <1>4, NoBreakStays DEF OnEdge, Cycle, NoBreak, InBreak
<1>6. CardOK' /\ SentInv' /\ card'.got = <<>>
  BY <1>1, <1>4, <1>5, SentStays DEF CardOK
<1>7. WriteAt(0)'
  <2>1. CASE sd'.state \in {"WRITE01", "WRITE02"}
    BY <1>1, <1>3, <1>4, <1>6, <2>1 DEF WriteAt
  <2>2. CASE sd'.state = "WRITE03"
    <3>1. Pulses(1, 0) /\ sd.memADDR = Target /\ sd'.memADDR = Target
      BY <1>1, <1>4, <2>2
    <3>2. \A a : a = sd.memADDR => Requested(a)'
      <4>1. Pulses(rk.to_disk, 1 - rk.to_disk)
        BY <3>1
      <4>2. rk'.to_disk = rk.to_disk
        OBVIOUS
      <4>3. SUFFICES ASSUME NEW a, a = sd.memADDR PROVE Requested(a)'
        OBVIOUS
      <4> QED BY <1>4, <4>1, <4>2, <4>3, BreakAsked
    <3>3. Requested(Target)'
      BY <1>3, <3>1, <3>2
    <3> QED BY <1>3, <1>6, <2>2, <3>1, <3>3 DEF WriteAt
  <2>3. CASE sd'.state = "WRITE04"
    <3>1. Fetched(0)' /\ sd'.memADDR = Target'
      BY <1>1, <1>3, <1>4, <1>5, <2>3 DEF Fetched
    <3> QED BY <1>6, <2>3, <3>1 DEF WriteAt
  <2>4. CASE sd'.state = "WRITE05"
    <3>1. Fetched(0)'
      BY <1>1, <1>3, <1>4, <1>5, <2>4 DEF Fetched
    <3>2. sd'.memADDR = Target + 1
      <4>1. Next15(Target) = Target + 1
        <5>1. Target + 0 < 32767
          BY <1>3, Places
        <5> QED BY <1>3, <5>1 DEF Next15
      <4> QED BY <1>1, <1>4, <2>4, <4>1
    <3> QED BY <1>3, <1>6, <2>4, <3>1, <3>2 DEF WriteAt
  <2>5. CASE sd'.state = "WRITE06"
    <3>1. Fetched(0)' /\ sd'.memADDR = Target + 1 /\ sd'.bytecnt = 0 /\ sd'.memREQ = 1
      BY <1>1, <1>3, <1>4, <1>5, <2>5 DEF Fetched
    <3>2. Len(card'.got) = 2 * 0 /\ Fetches(0)'
      BY <1>3, <1>6, <3>1 DEF Fetches
    <3>3. 0 <= Words - 2 /\ 0 + 1 = 1 /\ 2 * 0 = 0
      BY <1>3
    <3> QED BY <1>3, <1>6, <2>5, <3>1, <3>2, <3>3 DEF WriteAt
  <2>6. CASE sd'.state = "RWFAIL"
    BY <2>6 DEF WriteAt
  <2> QED BY <1>4, <2>1, <2>2, <2>3, <2>4, <2>5, <2>6
<1>8. 0 \in 0..Words
  BY <1>3
<1> QED BY <1>2, <1>5, <1>6, <1>7, <1>8 DEF WritesOn

(* A word is on its way from memory, or there.                             *)
LEMMA FetchStep ==
  ASSUME Machine, NEW i \in Int, 0 <= i, i < Words, rk.to_disk = 1, rk'.to_disk = 1,
         Asked(prog)' = Asked(prog), NEW done, NEW rxd, OnEdge(done, rxd), Pulses(0, 0),
         sd'.dmaDOUT = sd.dmaDOUT,
         Requested(Target + i) \/ Pending(Target + i) \/ (NoBreak /\ Fetched(i))
  PROVE  /\ Pending(Target + i)' \/ (NoBreak' /\ Fetched(i)')
         /\ memory' = memory /\ mem2disk' \in Word
<1>1. Target' = Target /\ memory[Target + i] \in Word /\ mem2disk \in Word
  BY SamePlaces, WordsHeld DEF Machine
<1>2. rk'.to_disk = rk.to_disk /\ rk.to_disk = 1
  OBVIOUS
<1>3. CASE Requested(Target + i)
  <2>1. \A a : a = Target + i => Pending(a)' /\ memory' = memory /\ mem2disk' = mem2disk
    <3>1. SUFFICES ASSUME NEW a, a = Target + i
          PROVE  Pending(a)' /\ memory' = memory /\ mem2disk' = mem2disk
      OBVIOUS
    <3>2. Requested(a)
      BY <1>3, <3>1
    <3> QED BY <1>2, <3>2, BreakMade
  <2> QED BY <1>1, <2>1
<1>4. CASE Pending(Target + i)
  <2>1. \A a : a = Target + i =>
          \/ Pending(a)' /\ memory' = memory /\ mem2disk' = mem2disk
          \/ NoBreak' /\ memory' = memory /\ mem2disk' = memory[a]
    <3>1. SUFFICES ASSUME NEW a, a = Target + i
          PROVE  \/ Pending(a)' /\ memory' = memory /\ mem2disk' = mem2disk
                 \/ NoBreak' /\ memory' = memory /\ mem2disk' = memory[a]
      OBVIOUS
    <3>2. Pending(a)
      BY <1>4, <3>1
    <3> QED BY <1>2, <3>2, BreakGoes
  <2> QED BY <1>1, <2>1 DEF Fetched
<1>5. CASE NoBreak /\ Fetched(i)
  BY <1>1, <1>5, NoBreakStays DEF Fetched
<1> QED BY <1>3, <1>4, <1>5

(* The first word is fetched while the command's last byte is exchanged.   *)
LEMMA FirstStep ==
  ASSUME Machine, CardOK, SentInv, NEW k \in Nat, k <= Words, WriteAt(k),
         rk.to_disk = 1, rk'.to_disk = 1, Asked(prog)' = Asked(prog),
         NEW done, NEW rxd, OnEdge(done, rxd), done = 1 => NoBreak,
         sd.state = "WRITE03"
  PROVE  WritesOn
<1>1. /\ k = 0 /\ card.got = <<>> /\ sd.memADDR = Target
      /\ Requested(Target) \/ Pending(Target) \/ (NoBreak /\ Fetched(0))
  BY DEF WriteAt
<1>2. sd \in SDRegisters /\ SDEdge(done, rxd, mem2disk)
  BY DEF Machine, OnEdge
<1>3. Target' = Target /\ Target \in Nat /\ Target + 0 = Target /\ Words \in Nat /\ 2 < Words
  BY SamePlaces, Places, Constants
<1>4. /\ SameBus /\ Pulses(0, 0) /\ card' = card
      /\ sd'.state = "WRITE03" \/ (sd'.state = "WRITE04" /\ done = 1)
  BY <1>2, ByState, Waited, ByteStates DEF Moved
<1>5. /\ Pending(Target)' \/ (NoBreak' /\ Fetched(0)')
      /\ memory' = memory /\ mem2disk' \in Word
  <2>1. sd'.dmaDOUT = sd.dmaDOUT
    BY <1>4 DEF SameBus, Bus
  <2>2. 0 \in Int /\ 0 <= 0 /\ 0 < Words
    BY <1>3
  <2>3. Requested(Target + 0) \/ Pending(Target + 0) \/ (NoBreak /\ Fetched(0))
    BY <1>1, <1>3
  <2>4. /\ Pending(Target + 0)' \/ (NoBreak' /\ Fetched(0)')
        /\ memory' = memory /\ mem2disk' \in Word
    BY <1>4, <2>1, <2>2, <2>3, FetchStep
  <2>5. (Target + 0)' = Target'
    BY <1>3
  <2> QED BY <2>4, <2>5
<1>6. done = 1 => Fetched(0)'
  <2>1. done = 1 => NoBreak /\ Fetched(0)
    BY <1>1 DEF NoBreak, Requested, Pending, InBreak
  <2> QED BY <1>3, <1>4, <1>5, <2>1, NoBreakStays DEF Fetched
<1>7. CardOK' /\ SentInv' /\ card'.got = <<>> /\ sd'.memADDR = Target'
  BY <1>1, <1>3, <1>4, <1>5, SentStays DEF CardOK, SameBus, Bus
<1>8. WriteAt(0)'
  BY <1>4, <1>5, <1>6, <1>7 DEF WriteAt
<1>9. 0 \in 0..Words
  BY <1>3
<1> QED BY <1>5, <1>7, <1>8, <1>9 DEF WritesOn

(* The next word is asked for, unless it is past the end of a half block.  *)
LEMMA AheadStep ==
  ASSUME Machine, CardOK, SentInv, NEW k \in Nat, k <= Words, WriteAt(k),
         rk.to_disk = 1, rk'.to_disk = 1, Asked(prog)' = Asked(prog),
         NEW done, NEW rxd, OnEdge(done, rxd), NoBreak,
         sd.state = "WRITE06"
  PROVE  WritesOn
<1>1. /\ k <= Words - 2 /\ Len(card.got) = 2 * k /\ sd.bytecnt = 2 * k /\ Fetches(k)
      /\ sd.memREQ = 1 => Fetched(k) /\ sd.memADDR = Target + (k + 1)
  BY DEF WriteAt
<1>2. sd \in SDRegisters /\ SDEdge(done, rxd, mem2disk) /\ mem2disk \in Word
  BY DEF Machine, OnEdge
<1>3. Target' = Target /\ Count' = Count /\ Target \in Nat /\ k \in 0..Words
  BY SamePlaces, Places, Constants
<1>4. /\ Tick /\ SameBus /\ card' = card /\ Moved("WRITE07", sd.bytecnt) /\ Pulses(sd.memREQ, 0)
  BY <1>2, ByState, AskingWrite
<1>5. /\ IF sd.memREQ = 1 THEN Requested(Target + (k + 1))' ELSE NoBreak'
      /\ memory' = memory /\ mem2disk' = mem2disk
  <2>1. CASE sd.memREQ = 1
    <3>1. \A a : a = sd.memADDR => Requested(a)' /\ memory' = memory /\ mem2disk' = mem2disk
      <4>1. Pulses(rk.to_disk, 1 - rk.to_disk)
        BY <1>4, <2>1
      <4>2. rk'.to_disk = rk.to_disk
        OBVIOUS
      <4>3. SUFFICES ASSUME NEW a, a = sd.memADDR
            PROVE  Requested(a)' /\ memory' = memory /\ mem2disk' = mem2disk
        OBVIOUS
      <4> QED BY <1>4, <4>1, <4>2, <4>3, BreakAsked
    <3> QED BY <1>1, <1>3, <2>1, <3>1
  <2>2. CASE sd.memREQ = 0
    BY <1>4, <2>2, NoBreakStays
  <2>3. sd.memREQ \in {0, 1}
    BY <1>2 DEF SDRegisters, Bit
  <2> QED BY <2>1, <2>2, <2>3
<1>6. CardOK' /\ SentInv'
  BY <1>4, <1>5, SentStays DEF CardOK
<1>7. WriteAt(k)'
  <2>1. Fetches(k)' /\ (sd'.memREQ = 1 => Fetched(k)')
    BY <1>1, <1>3, <1>4, <1>5 DEF Fetches, Fetched, SameBus, Bus
  <2> QED BY <1>1, <1>3, <1>4, <1>5, <2>1 DEF WriteAt, SameBus, Bus, Moved
<1> QED BY <1>2, <1>3, <1>5, <1>6, <1>7 DEF WritesOn

(* The low byte goes out, and the high byte waits in memBUF.               *)
LEMMA LowSentStep ==
  ASSUME Machine, CardOK, SentInv, NEW k \in Nat, k <= Words, WriteAt(k),
         rk.to_disk = 1, rk'.to_disk = 1, Asked(prog)' = Asked(prog), ~IsRead(Asked(prog)),
         NEW done, NEW rxd, OnEdge(done, rxd),
         sd.state = "WRITE07"
  PROVE  WritesOn
<1>1. /\ k <= Words - 2 /\ Len(card.got) = 2 * k /\ sd.bytecnt = 2 * k /\ Fetches(k)
      /\ sd.memREQ = 1 => Fetched(k) /\ sd.memADDR = Target + (k + 1)
      /\ IF sd.memREQ = 1 THEN Requested(Target + (k + 1)) ELSE NoBreak
  BY DEF WriteAt
<1>2. /\ sd \in SDRegisters /\ SDEdge(done, rxd, mem2disk) /\ mem2disk \in Word
      /\ sd.memREQ \in {0, 1}
  BY DEF Machine, OnEdge, SDRegisters, Bit
<1>3. /\ Target' = Target /\ Count' = Count /\ Target \in Nat /\ k \in 0..Words
      /\ k + 1 \in Int /\ 0 <= k + 1 /\ k + 1 < Words /\ Words \in Nat
  BY <1>1, SamePlaces, Places, Constants
<1> DEFINE b == IF sd.memREQ = 1 THEN LowByte(mem2disk) ELSE 0
<1>4. /\ Tick /\ Bus(Next15(sd.memADDR), sd.memREQ, sd.dmaDOUT) /\ Moved("WRITE08", sd.bytecnt)
      /\ Pulses(0, 0) /\ sd'.memBUF = (IF sd.memREQ = 1 THEN HighByte(mem2disk) ELSE 0)
      /\ card' = [card EXCEPT !.got = Append(@, b)]
  BY <1>2, ByState, LowSent
<1>5. b \in Octet
  <2>1. mem2disk \in Nat /\ 0 \in Octet
    BY <1>2, Ranges
  <2> QED BY <2>1, Halves
<1>6. card'.got = Append(card.got, b) /\ DOMAIN card' = DOMAIN card /\ card'.sent = card.sent
  BY <1>4 DEF CardOK
<1> HIDE DEF b
<1>7. CASE sd.memREQ = 1
  <2>1. sd'.dmaDOUT = sd.dmaDOUT
    BY <1>4 DEF Bus
  <2>2. /\ Pending(Target + (k + 1))' \/ (NoBreak' /\ Fetched(k + 1)')
        /\ memory' = memory /\ mem2disk' \in Word
    BY <1>1, <1>3, <1>4, <1>7, <2>1, FetchStep
  <2>3. /\ SentInv' /\ Len(card'.got) = 2 * k + 1 /\ card'.got[2 * k + 1] = b
        /\ card'.got \in Seq(Octet)
    BY <1>1, <1>5, <1>6, <2>2, LowAppended
  <2>4. CardOK'
    BY <1>6, <2>3 DEF CardOK
  <2>5. b = LowByte(memory'[Target' + k]) /\ sd'.memBUF = HighByte(memory'[Target' + k])
    BY <1>1, <1>3, <1>4, <1>7, <2>2 DEF Fetched, b
  <2>6. sd'.memADDR = Target' + (k + 2)
    <3>1. Next15(sd.memADDR) = Target + (k + 2)
      <4>1. sd.memADDR = Target + (k + 1)
        BY <1>1, <1>7
      <4>2. PICK t \in Nat : t = Target + (k + 1) /\ t < 32767
        <5>1. PICK m \in Int : m = k + 1 /\ 0 <= m /\ m < Words
          BY <1>3
        <5>2. Target + m \in Nat /\ Target + m < 32767
          BY <5>1, Places
        <5> QED BY <5>1, <5>2
      <4>3. (t + 1) % 32768 = t + 1
        BY <4>2
      <4> QED BY <1>3, <4>1, <4>2, <4>3 DEF Next15
    <3> QED BY <1>3, <1>4, <3>1 DEF Bus
  <2>7. Fetches(k)' /\ sd'.memREQ = 1
    BY <1>1, <1>3, <1>4, <1>7 DEF Fetches, Bus
  <2>8. WriteAt(k)'
    BY <1>1, <1>3, <1>4, <2>2, <2>3, <2>5, <2>6, <2>7 DEF WriteAt, Moved
  <2> QED BY <1>3, <2>2, <2>3, <2>4, <2>8 DEF WritesOn
<1>8. CASE sd.memREQ = 0
  <2>1. NoBreak' /\ memory' = memory /\ mem2disk' = mem2disk
    BY <1>1, <1>4, <1>8, NoBreakStays
  <2>2. /\ SentInv' /\ Len(card'.got) = 2 * k + 1 /\ card'.got[2 * k + 1] = b
        /\ card'.got \in Seq(Octet)
    BY <1>1, <1>5, <1>6, <2>1, LowAppended
  <2>3. CardOK'
    BY <1>6, <2>2 DEF CardOK
  <2>4. b = 0 /\ sd'.memBUF = 0 /\ sd'.memREQ = 0
    BY <1>4, <1>8 DEF Bus, b
  <2>5. Fetches(k)'
    BY <1>1, <1>3, <1>4, <1>8 DEF Fetches, Bus
  <2>6. WriteAt(k)'
    BY <1>1, <1>3, <1>4, <2>1, <2>2, <2>4, <2>5 DEF WriteAt, Moved
  <2> QED BY <1>2, <1>3, <2>1, <2>2, <2>3, <2>6 DEF WritesOn
<1> QED BY <1>2, <1>7, <1>8

(* The high byte follows, and the next word has come by then.              *)
LEMMA HighSentStep ==
  ASSUME Machine, CardOK, SentInv, NEW k \in Nat, k <= Words, WriteAt(k),
         rk.to_disk = 1, rk'.to_disk = 1, Asked(prog)' = Asked(prog), ~IsRead(Asked(prog)),
         NEW done, NEW rxd, OnEdge(done, rxd), done = 1 => NoBreak,
         sd.state = "WRITE08"
  PROVE  WritesOn
<1>1. /\ k <= Words - 2 /\ Len(card.got) = 2 * k + 1 /\ sd.bytecnt = 2 * k /\ Fetches(k)
      /\ IF sd.memREQ = 1
         THEN /\ sd.memADDR = Target + (k + 2)
              /\ card.got[2 * k + 1] = LowByte(memory[Target + k])
              /\ sd.memBUF = HighByte(memory[Target + k])
              /\ Pending(Target + (k + 1)) \/ (NoBreak /\ Fetched(k + 1))
         ELSE card.got[2 * k + 1] = 0 /\ sd.memBUF = 0 /\ NoBreak
  BY DEF WriteAt
<1>2. /\ sd \in SDRegisters /\ SDEdge(done, rxd, mem2disk) /\ mem2disk \in Word
      /\ sd.memREQ \in {0, 1} /\ sd.memBUF \in Octet
  <2>1. \A n \in Nibble : n \in Octet
    BY Ranges
  <2> QED BY <2>1 DEF Machine, OnEdge, SDRegisters, Bit
<1>3. /\ Target' = Target /\ Count' = Count /\ Target \in Nat /\ k \in 0..Words
      /\ k + 1 \in Int /\ 0 <= k + 1 /\ k + 1 < Words /\ Words \in Nat /\ Count \in Nat
  BY <1>1, SamePlaces, Places, Constants
<1>4. /\ SameBus /\ Pulses(0, 0)
      /\ \/ sd'.state = "WRITE08" /\ sd'.bytecnt = sd.bytecnt /\ sd'.memBUF = sd.memBUF
            /\ card' = card
         \/ /\ sd'.state = "WRITE09" /\ sd'.bytecnt = sd.bytecnt + 1 /\ done = 1
            /\ card' = [card EXCEPT !.got = Append(@, sd.memBUF)]
  BY <1>2, ByState, Waited, HighSent DEF Moved
<1>5. /\ memory' = memory /\ mem2disk' \in Word
      /\ IF sd.memREQ = 1 THEN Pending(Target + (k + 1))' \/ (NoBreak' /\ Fetched(k + 1)')
         ELSE NoBreak'
      /\ done = 1 /\ sd.memREQ = 1 => Fetched(k + 1)'
  <2>1. CASE sd.memREQ = 1
    <3>1. sd'.dmaDOUT = sd.dmaDOUT
      BY <1>4 DEF SameBus, Bus
    <3>2. /\ Pending(Target + (k + 1))' \/ (NoBreak' /\ Fetched(k + 1)')
          /\ memory' = memory /\ mem2disk' \in Word
      BY <1>1, <1>3, <1>4, <2>1, <3>1, FetchStep
    <3>3. done = 1 => Fetched(k + 1)'
      <4>1. done = 1 => NoBreak /\ Fetched(k + 1)
        BY <1>1, <2>1 DEF NoBreak, Pending, InBreak
      <4> QED BY <1>3, <1>4, <3>2, <4>1, NoBreakStays DEF Fetched
    <3> QED BY <2>1, <3>2, <3>3
  <2>2. CASE sd.memREQ # 1
    BY <1>1, <1>2, <1>4, <2>2, NoBreakStays
  <2> QED BY <2>1, <2>2
<1>6. Fetches(k)' /\ sd'.memREQ = sd.memREQ /\ sd'.memADDR = sd.memADDR
  BY <1>1, <1>3, <1>4 DEF Fetches, SameBus, Bus
<1>7. CASE sd'.state = "WRITE08" /\ sd'.bytecnt = sd.bytecnt /\ sd'.memBUF = sd.memBUF
           /\ card' = card
  <2>1. CardOK' /\ SentInv'
    BY <1>5, <1>7, SentStays DEF CardOK
  <2>2. WriteAt(k)'
    BY <1>1, <1>3, <1>5, <1>6, <1>7 DEF WriteAt
  <2> QED BY <1>3, <1>5, <2>1, <2>2 DEF WritesOn
<1>8. CASE /\ sd'.state = "WRITE09" /\ sd'.bytecnt = sd.bytecnt + 1 /\ done = 1
           /\ card' = [card EXCEPT !.got = Append(@, sd.memBUF)]
  <2>1. /\ card'.got = Append(card.got, sd.memBUF) /\ DOMAIN card' = DOMAIN card
        /\ card'.sent = card.sent
    BY <1>8 DEF CardOK
  <2>2. \/ card.got[2 * k + 1] + 256 * sd.memBUF = memory[Target + k]
        \/ /\ IsHalf(Asked(prog)) /\ k + 1 >= Words \div 2
           /\ card.got[2 * k + 1] + 256 * sd.memBUF = 0
    <3>1. CASE sd.memREQ = 1
      <4>1. k \in Int /\ 0 <= k /\ k < Words
        BY <1>3
      <4>2. memory[Target + k] \in Word
        BY <4>1, WordsHeld
      <4>3. PICK w \in Word : w = memory[Target + k]
        BY <4>2
      <4>4. w \in Nat /\ w < 4096
        BY <4>3, Ranges
      <4>5. /\ 256 * HighByte(w) + LowByte(w) = w % 4096
            /\ HighByte(w) \in Nat /\ LowByte(w) \in Nat
        BY <4>4, Halves, Ranges
      <4>6. LowByte(w) + 256 * HighByte(w) = w
        <5>1. w % 4096 = w
          BY <4>4
        <5>2. PICK h \in Nat, l \in Nat : h = HighByte(w) /\ l = LowByte(w)
          BY <4>5
        <5>3. 256 * h + l = w
          BY <4>5, <5>1, <5>2
        <5> QED BY <5>2, <5>3
      <4> QED BY <1>1, <3>1, <4>3, <4>6
    <3>2. CASE sd.memREQ = 0
      <4>1. k >= Count - 1
        BY <1>1, <1>3, <3>2 DEF Fetches
      <4>2. Count # Words
        BY <1>1, <1>3, <4>1
      <4>3. IsHalf(Asked(prog)) /\ 2 * Count = Words
        BY <4>2, Places
      <4>4. k + 1 >= Words \div 2
        BY <1>3, <4>1, <4>3
      <4> QED BY <1>1, <3>2, <4>3, <4>4
    <3> QED BY <1>2, <3>1, <3>2
  <2>3. SentInv' /\ Len(card'.got) = 2 * k + 2 /\ card'.got \in Seq(Octet)
    BY <1>1, <1>2, <1>5, <2>1, <2>2, HighAppended
  <2>4. CardOK'
    BY <2>1, <2>3 DEF CardOK
  <2>5. WriteAt(k)'
    BY <1>1, <1>3, <1>5, <1>6, <1>8, <2>3 DEF WriteAt
  <2> QED BY <1>3, <1>5, <2>3, <2>4, <2>5 DEF WritesOn
<1> QED BY <1>4, <1>7, <1>8

(* The next word, unless this was the last but one (sd.sv sends no more).  *)
LEMMA NextStep ==
  ASSUME Machine, CardOK, SentInv, NEW k \in Nat, k <= Words, WriteAt(k),
         rk.to_disk = 1, rk'.to_disk = 1, Asked(prog)' = Asked(prog), NoAbort,
         sdLEN = (IF IsHalf(Asked(prog)) THEN 1 ELSE 0),
         NEW done, NEW rxd, OnEdge(done, rxd), NoBreak,
         sd.state = "WRITE09"
  PROVE  WritesOn
<1>1. /\ k <= Words - 2 /\ Len(card.got) = 2 * k + 2 /\ sd.bytecnt = 2 * k + 1 /\ Fetches(k)
      /\ sd.memREQ = 1 => Fetched(k + 1) /\ sd.memADDR = Target + (k + 2)
  BY DEF WriteAt
<1>2. sd \in SDRegisters /\ SDEdge(done, rxd, mem2disk) /\ mem2disk \in Word
  BY DEF Machine, OnEdge
<1>3. /\ Target' = Target /\ Count' = Count /\ Target \in Nat /\ k \in 0..Words
      /\ Words \in Nat /\ Count \in Nat /\ 2 <= Count /\ Count <= Words
  BY <1>1, SamePlaces, Places, Constants
<1>4. PICK j \in Nat : j = k + 1 /\ j \in 0..Words
  BY <1>1, <1>3
<1>5. /\ Pulses(0, 0) /\ card' = card
      /\ \/ sd'.state = "WRITE09" /\ SameBus /\ sd'.bytecnt = sd.bytecnt
         \/ sd.bytecnt = 2 * Words - 3 /\ sd'.state = "WRITE10"
         \/ /\ sd.bytecnt # 2 * Words - 3 /\ Moved("WRITE06", sd.bytecnt + 1)
            /\ IF sd.bytecnt = Words - 3 /\ sdLEN = 1 THEN Bus(sd.memADDR, 0, sd.dmaDOUT)
               ELSE SameBus
  BY <1>2, ByState, Waited, WordSent DEF Moved
<1>6. NoBreak' /\ memory' = memory /\ mem2disk' = mem2disk
  BY <1>5, NoBreakStays
<1>7. CardOK' /\ SentInv' /\ card'.got = card.got
  BY <1>5, <1>6, SentStays DEF CardOK
<1>8. CASE sd'.state = "WRITE09" /\ SameBus /\ sd'.bytecnt = sd.bytecnt
  <2>1. Fetches(k)' /\ (sd'.memREQ = 1 => Fetched(k + 1)')
    BY <1>1, <1>3, <1>6, <1>8 DEF Fetches, Fetched, SameBus, Bus
  <2>2. WriteAt(k)'
    BY <1>1, <1>3, <1>7, <1>8, <2>1 DEF WriteAt, SameBus, Bus
  <2> QED BY <1>2, <1>3, <1>6, <1>7, <2>2 DEF WritesOn
<1>9. CASE sd'.state = "WRITE10"
  <2>1. WriteAt(k)'
    BY <1>9 DEF WriteAt
  <2> QED BY <1>2, <1>3, <1>6, <1>7, <2>1 DEF WritesOn
<1>10. CASE /\ sd.bytecnt # 2 * Words - 3 /\ Moved("WRITE06", sd.bytecnt + 1)
            /\ IF sd.bytecnt = Words - 3 /\ sdLEN = 1 THEN Bus(sd.memADDR, 0, sd.dmaDOUT)
               ELSE SameBus
  <2>1. /\ sd'.state = "WRITE06" /\ sd'.bytecnt = 2 * j /\ j <= Words - 2
        /\ Len(card'.got) = 2 * j
    BY <1>1, <1>3, <1>4, <1>7, <1>10 DEF Moved
  <2>2. sd'.memREQ = (IF j < Count - 1 THEN 1 ELSE 0)
    <3>1. sd.memREQ = (IF k < Count - 1 THEN 1 ELSE 0)
      BY <1>1 DEF Fetches
    <3>2. CASE IsHalf(Asked(prog))
      <4>1. sdLEN = 1 /\ 2 * Count = Words
        BY <3>2, Places
      <4> QED BY <1>1, <1>3, <1>4, <1>10, <3>1, <4>1 DEF Bus, SameBus
    <3>3. CASE ~IsHalf(Asked(prog))
      <4>1. sdLEN = 0 /\ Count = Words
        BY <3>3, Places
      <4> QED BY <1>1, <1>3, <1>4, <1>10, <3>1, <4>1 DEF Bus, SameBus
    <3> QED BY <3>2, <3>3
  <2>3. sd'.memREQ = 1 => sd.memREQ = 1 /\ sd'.memADDR = sd.memADDR
    BY <1>10 DEF Bus, SameBus
  <2>4. Fetches(j)'
    BY <1>3, <2>2 DEF Fetches
  <2>5. sd'.memREQ = 1 => Fetched(j)' /\ sd'.memADDR = Target' + (j + 1)
    BY <1>1, <1>3, <1>4, <1>6, <2>3 DEF Fetched
  <2>6. WriteAt(j)'
    BY <2>1, <2>4, <2>5 DEF WriteAt
  <2> QED BY <1>2, <1>4, <1>6, <1>7, <2>6 DEF WritesOn
<1> QED BY <1>5, <1>8, <1>9, <1>10

(* Checksum, response, busy, status: nothing of the block any more.        *)
Closing == {"WRITE10", "WRITE11", "WRITE12", "WRITE13", "WRITE14", "WRITE15", "WRITE16",
            "RWFAIL", "FINI", "DONE"}

(* After its last word.                                                    *)
LEMMA ClosingStep ==
  ASSUME Machine, CardOK, SentInv, Asked(prog)' = Asked(prog), NoAbort,
         NEW done, NEW rxd, OnEdge(done, rxd), NoBreak, sd.state \in Closing
  PROVE  WritesOn
<1>1. sd \in SDRegisters /\ SDEdge(done, rxd, mem2disk) /\ mem2disk \in Word
  BY DEF Machine, OnEdge
<1>2. Pulses(0, 0) /\ card' = card /\ sd'.state \in Closing \cup {"IDLE"}
  <2>1. CASE Exchanging(done)
    BY <1>1, <2>1, Waited DEF Moved
  <2>2. CASE sd.state \in {"WRITE13", "WRITE10", "FINI", "WRITE16"} /\ ~Exchanging(done)
    BY <1>1, <2>2, ByState, ByteStates DEF Moved, Closing
  <2>3. CASE sd.state = "WRITE14" /\ ~Exchanging(done)
    <3>1. Listen \/ Answer(done, rxd)
      BY <1>1, <2>3, ByState
    <3>2. CASE Listen
      BY <2>3, <3>2, Guards
    <3>3. CASE Answer(done, rxd)
      <4>1. card' = card /\ (Again \/ Failing \/ Succeeded("WRITE15", 0))
        BY <1>1, <2>3, <3>3, Answering
      <4> QED BY <2>3, <4>1 DEF Again, Failing, Succeeded, Moved, Closing
    <3> QED BY <3>1, <3>2, <3>3
  <2>4. CASE sd.state \in {"WRITE11", "WRITE12", "WRITE15"} /\ ~Exchanging(done)
    <3>1. AtWRITE11(done, rxd) \/ AtWRITE12(done, rxd) \/ AtWRITE15(done, rxd)
      BY <1>1, <2>4, ByState
    <3>2. /\ card' = card
          /\ \/ Again \/ Failing \/ Succeeded("WRITE12", 0) \/ Succeeded("WRITE13", 0)
             \/ Succeeded("WRITE16", 0)
      BY <1>1, <3>1, Responses
    <3> QED BY <2>4, <3>2 DEF Again, Failing, Succeeded, Moved, Closing
  <2>5. CASE sd.state = "DONE"
    BY <1>1, <2>5, ByState, DoneEdge DEF Moved
  <2>6. CASE sd.state = "RWFAIL"
    BY <1>1, <2>6, ByState, FailedEdge DEF Moved, Closing
  <2> QED BY <2>1, <2>2, <2>3, <2>4, <2>5, <2>6 DEF Closing
<1>3. memory' = memory /\ mem2disk' = mem2disk
  BY <1>2, NoBreakStays
<1>4. CardOK' /\ SentInv'
  BY <1>2, <1>3, SentStays DEF CardOK
<1>5. WriteAt(0)'
  BY <1>2 DEF WriteAt, Closing
<1>6. 0 \in 0..Words
  BY Constants
<1> QED BY <1>1, <1>3, <1>4, <1>5, <1>6 DEF WritesOn

(* A write from edge to edge.                                              *)
LEMMA WriteStep ==
  ASSUME Machine, CardOK, SetUp, Phases, WriteInv, SentInv, sd.sdSTATE = "WRITE",
         NEW done, NEW rxd, OnEdge(done, rxd), done = 1 => NoBreak
  PROVE  WritesOn
<1>1. /\ rk.to_disk = 1 /\ rk'.to_disk = 1 /\ NoAbort /\ Asked(prog)' = Asked(prog)
      /\ sd.state \in WriteStates \cup {"FINI", "DONE", "RWFAIL"}
      /\ sd.state \notin Breaking => NoBreak
      /\ sdLEN = (IF IsHalf(Asked(prog)) THEN 1 ELSE 0)
      /\ ~IsRead(Asked(prog))
  BY Midway
<1>2. PICK k \in 0..Words : WriteAt(k)
  BY DEF WriteInv
<1>3. k \in Nat /\ k <= Words
  BY Constants
<1>4. CASE sd.state \in {"WRITE01", "WRITE02", "WRITE04", "WRITE05"}
  BY <1>1, <1>2, <1>3, <1>4, OpenedStep DEF Breaking
<1>5. CASE sd.state = "WRITE03"
  BY <1>1, <1>2, <1>3, <1>5, FirstStep
<1>6. CASE sd.state = "WRITE06"
  BY <1>1, <1>2, <1>3, <1>6, AheadStep DEF Breaking
<1>7. CASE sd.state = "WRITE07"
  BY <1>1, <1>2, <1>3, <1>7, LowSentStep
<1>8. CASE sd.state = "WRITE08"
  BY <1>1, <1>2, <1>3, <1>8, HighSentStep
<1>9. CASE sd.state = "WRITE09"
  BY <1>1, <1>2, <1>3, <1>9, NextStep DEF Breaking
<1>10. CASE sd.state \in Closing
  BY <1>1, <1>10, ClosingStep DEF Breaking, Closing
<1> QED BY <1>1, <1>4, <1>5, <1>6, <1>7, <1>8, <1>9, <1>10 DEF WriteStates, Closing

-----------------------------------------------------------------------------
(* The word's and the block's address are the ones asked for.              *)
LEMMA Addressing ==
  ASSUME Machine, SetUp, Issued
  PROVE  sdMEMaddr = rk.car /\ sdMEMaddr \in Address /\ sdDISKaddr = Block
<1>1. rk.cmd_reg = Asked(prog).command /\ rk.dar = Asked(prog).track
  BY DEF SetUp
<1>2. PICK c \in Nat : c = Asked(prog).command /\ (c \div 8) % 8 = 0
  BY Places, Ranges DEF Commands
<1>3. rk.car \in Nat /\ rk.car < 4096
  BY Ranges DEF Machine, RKRegisters
<1>4. sdMEMaddr = rk.car
  BY <1>1, <1>2, <1>3 DEF sdMEMaddr
<1>5. rk.car \in Address
  BY <1>3, Ranges
<1> QED BY <1>1, <1>4, <1>5 DEF sdDISKaddr, Block, BlockOf

(* Which phase follows which.                                              *)
LEMMA PhaseStep ==
  ASSUME Machine, CardOK, SetUp, Phases, ReadInv,
         NEW done, NEW rxd, OnEdge(done, rxd), done = 1 => NoBreak, sd.CS = 1 => rxd = "ff"
  PROVE  /\ sd' \in SDRegisters
         /\ Quiet    => Quiet' \/ Starting'
         /\ Starting => Starting' \/ Running' \/ Failed'
         /\ Running  => Running' \/ Ending' \/ Failed'
         /\ Ending   => Ending' \/ Quiet'
         /\ Failed   => Failed'
<1>1. sd.sdSTATE = "READ" /\ sd.state \in {"READ05", "READ06"} => Byte \in Nat
  BY ReadStep
<1>2. CASE Quiet
  <2>1. sd' \in SDRegisters
    <3>1. AtIDLE /\ sd \in SDRegisters
      BY <1>2, ByState DEF Quiet, OnEdge, Machine
    <3> QED BY <3>1, IdleEdge DEF Tick
  <2>2. ~Starting /\ ~Running /\ ~Ending /\ ~Failed
    BY <1>2 DEF Quiet, Starting, Running, Ending, Failed, Pipe, Op, ReadStates, WriteStates
  <2> QED BY <1>2, <2>1, <2>2, QuietStep
<1>3. CASE Starting
  <2>1. sdMEMaddr \in Address
    BY <1>3, Addressing DEF Starting, Underway
  <2>2. ~Quiet /\ ~Running /\ ~Ending /\ ~Failed
    BY <1>3 DEF Quiet, Starting, Running, Ending, Failed, Pipe, Op, Reporting, Reported
  <2>3. sd' \in SDRegisters
    <3>1. sd \in SDRegisters /\ SDEdge(done, rxd, mem2disk)
      BY DEF Machine, OnEdge
    <3>2. CASE sd.state = "IDLE"
      BY <3>1, <3>2, ByState, IdleEdge DEF Tick
    <3>3. CASE sd.state = First
      BY <2>1, <3>1, <3>3, ByState, Commanding DEF Tick, First
    <3>4. CASE sd.state \in {Second, Third_}
      <4>1. NoAbort /\ mem2disk \in Word /\ sd.state \in Transferring
        BY <1>3, <3>4
           DEF Starting, Underway, NoAbort, Machine, Transferring, Second, Third_, ReadStates,
               WriteStates
      <4>2. sd.state \notin {"READ05", "READ06"}
        BY <3>4 DEF Second, Third_
      <4> QED BY <3>1, <4>1, <4>2, Transfers DEF Tick
    <3> QED BY <1>3, <3>2, <3>3, <3>4 DEF Starting
  <2> QED BY <1>3, <2>1, <2>2, <2>3, StartingStep
<1>4. CASE Running
  <2>1. sd.state \in {"READ05", "READ06"} => Byte \in Nat
    BY <1>1, <1>4 DEF Running, Pipe, Op, WriteStates
  <2>2. ~Quiet /\ ~Starting /\ ~Ending /\ ~Failed
    BY <1>4 DEF Quiet, Starting, Running, Ending, Failed, Pipe, Op, Reporting, Reported
  <2> QED BY <1>4, <2>1, <2>2, RunningStep
<1>5. CASE Ending
  <2>1. ~Quiet /\ ~Starting /\ ~Running /\ ~Failed
    BY <1>5 DEF Quiet, Starting, Running, Ending, Failed, Pipe, Op, ReadStates, WriteStates
  <2> QED BY <1>5, <2>1, EndingStep
<1>6. CASE Failed
  <2>1. rxd = "ff"
    BY <1>6 DEF Failed
  <2>2. ~Quiet /\ ~Starting /\ ~Running /\ ~Ending
    BY <1>6 DEF Quiet, Starting, Running, Ending, Failed, Pipe, Op, Reporting, Reported
  <2> QED BY <1>6, <2>1, <2>2, FailedStep
<1> QED BY <1>2, <1>3, <1>4, <1>5, <1>6 DEF Phases

(* Without a transfer under way no word moves; a new one begins at the     *)
(* place and the block asked for.                                          *)
LEMMA StillStep ==
  ASSUME Machine, CardOK, SetUp, Phases, sd.sdSTATE \notin {"READ", "WRITE"},
         NEW done, NEW rxd, OnEdge(done, rxd), sd.CS = 1 => rxd = "ff"
  PROVE  /\ memory' = memory /\ mem2disk' = mem2disk
         /\ CardOK' /\ ReadInv' /\ WriteInv' /\ card'.got \in {card.got, <<>>}
<1>1. sd \in SDRegisters /\ SDEdge(done, rxd, mem2disk)
  BY DEF Machine, OnEdge
<1>2. \/ sd.state = "IDLE" /\ NoBreak
      \/ sd.state = First /\ Starting
      \/ sd.state \in {"READ02", "READ03", "RWFAIL"} /\ NoBreak /\ Failed
  <2>1. Starting => sd.state = "IDLE" \/ sd.state = First
    BY DEF Starting, Pipe, Op
  <2>2. ~Running
    BY DEF Running, Pipe, Op
  <2> QED BY <2>1, <2>2 DEF Phases, Quiet, Starting, Ending, Failed
<1>3. memory' = memory /\ mem2disk' = mem2disk
  BY <1>2 DEF Starting, NoBreak, InBreak, OnEdge, Cycle
<1>4. CASE sd.state = "IDLE"
  <2>1. sd'.sdSTATE = "READY" /\ card' = card
    BY <1>1, <1>4, ByState, IdleEdge DEF Says
  <2> QED BY <1>3, <2>1 DEF CardOK, ReadInv, WriteInv
<1>5. CASE sd.state = First /\ Starting
  <2>1. /\ Issued /\ rk.car = Target /\ NoBreak /\ Asked(prog)' = Asked(prog)
        /\ sd.state \in {"READ00", "WRITE00"}
    BY <1>5, UnderwayStep
       DEF Starting, First, Second, Third_, Underway, Target
  <2>2. sdMEMaddr = Target /\ sdMEMaddr \in Address /\ sdDISKaddr = Block
    BY <2>1, Addressing
  <2>3. /\ Bus(sdMEMaddr, sd.memREQ, sd.dmaDOUT) /\ Pulses(0, 0)
        /\ sd'.state = (IF sd.state = "READ00" THEN "READ01" ELSE "WRITE01")
        /\ sd'.sdSTATE = (IF sd.state = "READ00" THEN "READ" ELSE "WRITE")
        /\ card' = [sends |-> IF sd.state = "READ00" THEN Image[sdDISKaddr] ELSE <<>>,
                    sent |-> 0, got |-> <<>>]
    BY <1>1, <2>1, <2>2, ByState, Commanding DEF Moved, Says
  <2>4. /\ DOMAIN card' = {"sends", "sent", "got"} /\ card'.sent = 0 /\ card'.got = <<>>
        /\ card'.sends = IF sd.state = "READ00" THEN Image[sdDISKaddr] ELSE <<>>
    BY <2>3
  <2>5. CardOK'
    BY <2>4 DEF CardOK
  <2>6. NoBreak' /\ Target' = Target /\ Block' = Block /\ 0 \in 0..Words
    BY <2>1, <2>3, NoBreakStays, SamePlaces, Constants
  <2>7. CASE sd.state = "READ00"
    <3>1. ReadAt(0)'
      BY <2>2, <2>3, <2>4, <2>6, <2>7 DEF ReadAt, Bus
    <3> QED BY <1>3, <2>3, <2>4, <2>5, <2>6, <2>7, <3>1 DEF ReadInv, WriteInv
  <2>8. CASE sd.state = "WRITE00"
    <3>1. WriteAt(0)'
      BY <2>2, <2>3, <2>4, <2>6, <2>8 DEF WriteAt, Bus
    <3> QED BY <1>3, <2>3, <2>4, <2>5, <2>6, <2>8, <3>1 DEF ReadInv, WriteInv
  <2> QED BY <2>1, <2>7, <2>8
<1>6. CASE sd.state \in {"READ02", "READ03", "RWFAIL"} /\ Failed
  <2>1. Failed'
    BY <1>6, FailedStep DEF Failed
  <2>2. sd'.sdSTATE = "RWFAIL"
    BY <2>1 DEF Failed, Reporting, Reported, Pipe
  <2>3. card' = card
    <3>1. CASE sd.state = "RWFAIL"
      BY <1>1, <3>1, ByState, FailedEdge
    <3>2. CASE sd.state \in {"READ02", "READ03"}
      BY <1>1, <3>2, ByState, Waited, Listening, Answering
    <3> QED BY <1>6, <3>1, <3>2
  <2> QED BY <1>3, <2>2, <2>3 DEF CardOK, ReadInv, WriteInv
<1> QED BY <1>2, <1>4, <1>5, <1>6

-----------------------------------------------------------------------------
(* Between transfers the program is where no order is under way.           *)
LEMMA Idling ==
  ASSUME Phases, ~Issued
  PROVE  Quiet \/ (Failed /\ Reported)
  BY DEF Phases, Starting, Running, Ending, Failed, Reporting, Underway

(* The program comes to wait for an order only by giving it.               *)
LEMMA IssuedComes ==
  ASSUME Machine, ~Issued, NEW done, NEW rxd, OnEdge(done, rxd), Issued'
  PROVE  Obeying /\ Of({"RD4", "W4"}) /\ ~Obeyed
<1>1. CASE Obeying
  BY <1>1 DEF Obeying, Issued, Of, Obeyed
<1>2. CASE Passing
  BY <1>2 DEF Passing, Issued, Of, Obeyed
<1>3. CASE Advancing
  <2>1. /\ Follows(prog, prog', Skips, rk.disk_bus) /\ ~Halted(prog) /\ ProgramOK(prog)
        /\ cpu'.state = "F0" /\ cpu.state = "F3"
    BY <1>3 DEF Advancing, Machine, DumpInv
  <2>2. rk.skip \in {0, 1} /\ tx.skip \in {0, 1}
    BY DEF Machine, RKRegisters, Bit, DumpInv, TransmitterOK
  <2>3. prog.pc \in {"CAF"} \cup Recalibrating \cup Reading \cup Punching \cup Writing
    BY <2>1 DEF ProgramOK, Halted, Final
  <2>4. prog.pc \notin {"RD4", "W4", "CK1", "W5"}
    BY <2>1 DEF Issued, Of, Obeyed
  <2>5. CASE prog.pc \in {"CAF"} \cup Recalibrating \cup {"RD1", "RD2", "RD3", "W1", "W2", "W3",
                                                          "W6", "CK2", "CK3"}
    <3>1. \/ prog' = prog
          \/ prog'.pc \in Recalibrating \cup {"RD2", "RD3", "RD4", "W2", "W3", "W4", "RD1",
                                              "BADSTA", "CK3", "W-finished", "W-error"}
          \/ prog'.pc = "TLS" /\ prog'.then = "LAST"
      BY <2>1, <2>2, <2>5 DEF Follows, Waits, Recalibrating, Sequence, NextSector, Skips
    <3> QED BY <2>1, <2>5, <3>1 DEF Issued, Of, Obeyed, Recalibrating
  <2>6. CASE prog.pc \in Punching
    <3>1. prog.then = "LAST"
      BY <2>1, <2>6 DEF Issued, Of, Punching, ProgramOK
    <3>2. \/ prog'.pc \in Punching /\ prog'.then = "LAST"
          \/ prog'.pc = "FINISH"
      BY <2>1, <2>2, <2>6, <3>1 DEF Follows, Waits, Skips, Punching
    <3> QED BY <2>1, <3>2 DEF Issued, Of, Obeyed, Punching
  <2> QED BY <2>3, <2>4, <2>5, <2>6 DEF Recalibrating, Reading, Writing
<1> QED BY <1>1, <1>2, <1>3 DEF OnEdge

(* A job stays the job it is.                                              *)
LEMMA JobStays ==
  ASSUME Machine, NEW done, NEW rxd, OnEdge(done, rxd)
  PROVE  /\ Asked(prog)' = Asked(prog) \/ (~IsJob(prog) /\ ~IsJob(prog)')
         /\ IsJob(prog)' => IsJob(prog)
<1>1. CASE prog' = prog
  BY <1>1
<1>2. CASE Advancing
  <2>1. /\ Follows(prog, prog', Skips, rk.disk_bus) /\ ~Halted(prog) /\ ProgramOK(prog)
        /\ ~NextSector(prog') => Asked(prog)' = Asked(prog)
    BY <1>2 DEF Advancing, Machine, DumpInv
  <2>2. rk.skip \in {0, 1} /\ tx.skip \in {0, 1}
    BY DEF Machine, RKRegisters, Bit, DumpInv, TransmitterOK
  <2>3. prog.pc \in {"CAF"} \cup Recalibrating \cup Reading \cup Punching \cup Writing
    BY <2>1 DEF ProgramOK, Halted, Final
  <2>4. CASE prog.pc \in Writing
    <3>1. prog'.pc \in Writing \cup {"W-error", "W-finished"}
      BY <2>1, <2>2, <2>4 DEF Follows, Waits, Skips, Writing, Sequence
    <3> QED BY <2>1, <2>4, <3>1 DEF IsJob, NextSector, Writing
  <2>5. CASE prog.pc \notin Writing
    <3>1. \/ prog' = prog
          \/ prog'.pc \in Recalibrating \cup Reading \cup Punching \cup {"BADSTA", "FINISH"}
      BY <2>1, <2>2, <2>3, <2>5
         DEF Follows, Waits, Skips, Sequence, NextSector, Recalibrating, Reading, Punching
    <3>2. prog' # prog => ~IsJob(prog)'
      BY <3>1 DEF IsJob, Recalibrating, Reading, Punching, Writing
    <3>3. ~IsJob(prog)
      BY <2>3, <2>5 DEF IsJob, Recalibrating, Reading, Punching, Writing
    <3> QED BY <1>1, <3>2, <3>3
  <2> QED BY <2>4, <2>5
<1> QED BY <1>1, <1>2 DEF OnEdge, Obeying, Passing

(* A program that is told so now was told so before, or the transfer has   *)
(* just come to its end.                                                   *)
LEMMA ToldStep ==
  ASSUME Machine, CardOK, SetUp, Phases, ReadInv, Told', IsRead(Asked(prog))',
         NEW done, NEW rxd, OnEdge(done, rxd), done = 1 => NoBreak, sd.CS = 1 => rxd = "ff"
  PROVE  \/ Told /\ sd.sdSTATE \notin {"READ", "WRITE"} /\ Asked(prog)' = Asked(prog)
         \/ Running /\ Ending' /\ sd'.sdSTATE = "DONE"
<1>1. /\ Quiet    => Quiet' \/ Starting'
      /\ Starting => Starting' \/ Running' \/ Failed'
      /\ Running  => Running' \/ Ending' \/ Failed'
      /\ Ending   => Ending' \/ Quiet'
      /\ Failed   => Failed'
  BY PhaseStep
<1>2. /\ Quiet  => sd.sdSTATE \notin {"READ", "WRITE"} /\ NextOp = rk.sdOP
                   /\ ClockedStatus = rk.status
      /\ Ending => sd.sdSTATE \notin {"READ", "WRITE"} /\ Told
                   /\ Asked(prog)' = Asked(prog)
  <2>1. Ending => Asked(prog)' = Asked(prog)
    BY UnderwayStep DEF Ending
  <2> QED BY <2>1, QuietRegisters DEF Quiet, Ending, Pipe, Told
<1>3. CASE Ending'
  <2>1. ~Quiet' /\ ~Starting' /\ ~Running' /\ ~Failed'
    BY <1>3 DEF Quiet, Starting, Running, Ending, Failed, Pipe, Op, ReadStates, WriteStates
  <2>2. CASE Ending
    BY <1>2, <2>2
  <2>3. CASE Running
    <3>1. sd'.sdSTAT = sd.sdSTATE /\ sd.sdSTATE = Op /\ Op' = Op /\ rk'.sdstate = Op
          /\ rk'.last = Op
      <4>1. rk'.to_disk = rk.to_disk
        BY <2>3, UnderwayStep DEF Running
      <4>2. Tick
        <5>1. NoAbort /\ sd.state \in Transferring
          BY <2>3 DEF Running, Underway, NoAbort, Transferring
        <5>2. sd.state \in {"READ05", "READ06"} => Byte \in Nat
          BY <2>3, ReadStep DEF Running, Pipe, Op, WriteStates
        <5> QED BY <5>1, <5>2, Transfers DEF Machine, OnEdge
      <4> QED BY <2>3, <4>1, <4>2 DEF Running, Pipe, Op, Tick, OnEdge, Always
    <3>2. Op \in {"READ", "WRITE"}
      BY DEF Op
    <3>3. sd'.sdSTATE = "DONE"
      BY <1>3, <3>1, <3>2 DEF Ending, Pipe
    <3> QED BY <1>3, <2>3, <3>3
  <2> QED BY <1>1, <2>1, <2>2, <2>3 DEF Phases
<1>4. CASE Quiet' /\ Issued' /\ "done" \in rk'.status
  <2>1. ~Starting' /\ ~Running' /\ ~Ending' /\ ~Failed'
    BY <1>4 DEF Quiet, Starting, Running, Ending, Failed, Pipe, Op, ReadStates, WriteStates
  <2>2. Ending \/ Quiet
    BY <1>1, <2>1 DEF Phases
  <2>3. CASE Quiet /\ Issued
    <3>1. Plain
      BY <2>3, IssuedGoes
    <3>2. "done" \in rk.status
      BY <1>2, <1>4, <2>3, <3>1 DEF Plain
    <3>3. Asked(prog)' = Asked(prog)
      BY <2>3, <1>4, IssuedGoes
    <3> QED BY <1>2, <2>3, <3>2, <3>3 DEF Told
  <2>4. CASE Quiet /\ ~Issued
    <3>1. Obeying /\ Of({"RD4", "W4"}) /\ ~Obeyed
      BY <1>4, <2>4, IssuedComes
    <3>2. rk.status = {} /\ rk.cmd_reg = Asked(prog).command
      BY <3>1 DEF SetUp, HasCommand
    <3>3. rk'.sdOP \in {"NOP", "ABORT"}
      BY <1>4 DEF Quiet
    <3>4. NotStarted
      BY <3>1, <3>3 DEF Obeying, Started
    <3>5. rk.cmd_reg \div 512 \in {0, 1}
      BY <3>1, <3>2 DEF Obeying, IsRead
    <3> QED BY <1>2, <1>4, <2>4, <3>2, <3>4, <3>5 DEF NotStarted
  <2> QED BY <1>2, <2>2, <2>3, <2>4
<1>5. ~Issued /\ Failed /\ ~Issued' /\ ~Obeyed' => rk'.status = {"drive"}
  BY <1>1 DEF Failed, Reporting, Reported, Underway
<1>6. Failed => sd.sdSTATE \notin {"READ", "WRITE"}
  BY DEF Failed, Reporting, Reported, Pipe
<1>7. CASE Of({"CK2", "W6"})' /\ IF Obeyed' THEN rk'.disk_bus = {"done"} ELSE "done" \in rk'.status
  <2>1. ~Issued' /\ ~NextSector(prog)'
    BY <1>7 DEF Issued, Of, NextSector
  <2>2. CASE Issued
    <3>1. /\ Of({"CK1", "W5"}) /\ Obeyed /\ rk.skip = 1 /\ ~Obeyed' /\ Plain
          /\ Asked(prog)' = Asked(prog)
      BY <2>1, <2>2, IssuedGoes
    <3>2. "done" \in ClockedStatus
      BY <1>7, <3>1 DEF Plain
    <3>3. Quiet \/ Failed
      BY <3>1 DEF Phases, Starting, Running, Ending, Underway
    <3>4. ~Failed
      <4>1. Failed => rk'.status = {"drive"}
        BY <1>1, <2>1, <3>1 DEF Failed, Reporting, Reported, Underway
      <4> QED BY <1>7, <3>1, <4>1
    <3> QED BY <1>2, <2>2, <3>1, <3>2, <3>3, <3>4 DEF Told
  <2>3. CASE ~Issued /\ Obeying
    <3>1. prog' = prog /\ ~Obeyed /\ Obeyed' /\ Of({"CK2", "W6"}) /\ rk'.disk_bus = rk.status
      BY <1>7, <2>3 DEF Obeying, Obeyed, Of
    <3>2. Told
      BY <1>7, <3>1 DEF Told
    <3> QED BY <1>2, <1>6, <2>3, <3>1, <3>2, Idling
  <2>4. CASE ~Issued /\ Passing
    <3>1. prog' = prog /\ ~Obeyed /\ ~Obeyed' /\ Of({"CK2", "W6"}) /\ Plain
      BY <1>7, <2>4 DEF Passing, Obeyed, Of
    <3>2. Quiet
      <4>1. Failed => rk'.status = {"drive"}
        BY <1>5, <2>1, <2>4, <3>1
      <4> QED BY <1>7, <2>4, <3>1, <4>1, Idling
    <3>3. Told
      BY <1>2, <1>7, <3>1, <3>2 DEF Told, Plain
    <3> QED BY <1>2, <3>1, <3>2, <3>3
  <2>5. CASE ~Issued /\ Advancing
    <3>1. /\ Follows(prog, prog', Skips, rk.disk_bus) /\ ~Halted(prog) /\ ProgramOK(prog)
          /\ Obeyed /\ ~Obeyed'
      BY <2>5 DEF Advancing, Machine, DumpInv, Obeyed
    <3>2. rk.skip \in {0, 1} /\ tx.skip \in {0, 1}
      BY DEF Machine, RKRegisters, Bit, DumpInv, TransmitterOK
    <3>3. prog.pc \in {"CAF"} \cup Recalibrating \cup Reading \cup Punching \cup Writing
      BY <3>1 DEF ProgramOK, Halted, Final
    <3>4. prog'.pc \in {"CK2", "W6"}
      BY <1>7 DEF Of
    <3>5. prog.pc \in {"CK1", "W5"}
      BY <3>1, <3>2, <3>3, <3>4
         DEF Follows, Waits, Skips, Sequence, NextSector, Recalibrating, Reading, Punching, Writing
    <3> QED BY <2>5, <3>5 DEF Issued, Of
  <2> QED BY <2>2, <2>3, <2>4, <2>5 DEF OnEdge
<1>8. CASE Of({"W-finished"})'
  <2>1. Asked(prog)' = Asked(prog)
    BY <1>8, JobStays DEF Of, IsJob
  <2>2. Told
    <3>1. ~Obeying
      BY <1>8 DEF Obeying, Of, Halted
    <3>2. CASE Passing
      BY <1>8, <3>2 DEF Passing, Told, Of
    <3>3. CASE Advancing
      <4>1. /\ Follows(prog, prog', Skips, rk.disk_bus) /\ ~Halted(prog) /\ ProgramOK(prog)
            /\ Obeyed
        BY <3>3 DEF Advancing, Machine, DumpInv, Obeyed
      <4>2. rk.skip \in {0, 1} /\ tx.skip \in {0, 1}
        BY DEF Machine, RKRegisters, Bit, DumpInv, TransmitterOK
      <4>3. prog.pc \in {"CAF"} \cup Recalibrating \cup Reading \cup Punching \cup Writing
        BY <4>1 DEF ProgramOK, Halted, Final
      <4>4. prog.pc = "W6" /\ rk.disk_bus = {"done"}
        BY <1>8, <4>1, <4>2, <4>3
           DEF Follows, Waits, Skips, Sequence, NextSector, Recalibrating, Reading, Punching,
               Writing, Of
      <4> QED BY <4>1, <4>4 DEF Told, Of
    <3> QED BY <3>1, <3>2, <3>3 DEF OnEdge
  <2>3. ~Issued
    <3>1. CASE Issued
      <4>1. Issued' \/ Of({"CK2", "W6"})'
        BY <3>1, IssuedGoes
      <4> QED BY <1>8, <4>1 DEF Issued, Of
    <3> QED BY <3>1
  <2> QED BY <1>2, <1>6, <2>1, <2>2, <2>3, Idling
<1> QED BY <1>3, <1>4, <1>7, <1>8 DEF Told

-----------------------------------------------------------------------------
(* Only a command and two states of a write touch the bytes sent.          *)
LEMMA GotStays ==
  ASSUME CardOK, NEW done, NEW rxd, SDEdge(done, rxd, mem2disk),
         sd.state \notin {"READ00", "WRITE00", "WRITE07", "WRITE08"}
  PROVE  card'.got = card.got
<1>1. card' = card \/ card' = [card EXCEPT !.sent = card.sent + 1]
  BY DEF SDEdge, Exchanging, AtIDLE, Command, Commanded, Listen, Answer, Granted, AtREAD05,
     AtREAD06, AtREAD07, AtREAD08, AtREAD09, AtWRITE03, AtWRITE04, AtWRITE06, AtWRITE07, AtWRITE08,
         AtWRITE09, AtWRITE10, AtWRITE11, AtWRITE12, AtWRITE15, AtWRITE16, AtFINI, AtDONE, AtRWFAIL,
         Moves, At
<1> QED BY <1>1 DEF CardOK

(* A word moves only in a read, to its place; what has been sent stays     *)
(* true.                                                                   *)
Steps == /\ \/ memory' = memory
            \/ /\ sd.sdSTATE = "READ" /\ Asked(prog)' = Asked(prog) /\ IsRead(Asked(prog))
               /\ Kept
         /\ mem2disk' \in Word
         /\ CardOK' /\ ReadInv' /\ WriteInv' /\ SentInv'

(* Every edge keeps what is known of the words moved.                      *)
LEMMA WordsStep ==
  ASSUME Machine, CardOK, SetUp, Phases, ReadInv, WriteInv, SentInv,
         NEW done, NEW rxd, OnEdge(done, rxd), done = 1 => NoBreak, sd.CS = 1 => rxd = "ff"
  PROVE  Steps
<1>1. CASE sd.sdSTATE = "READ"
  <2>1. /\ rk.to_disk = 0 /\ NoAbort /\ Asked(prog)' = Asked(prog) /\ IsRead(Asked(prog))
        /\ sd.state \in Transferring /\ sd.state \in ReadStates \cup {"FINI", "DONE"}
    BY <1>1, Midway
  <2>2. ReadsOn /\ (sd.state \in {"READ05", "READ06"} => Byte \in Nat)
    BY <1>1, ReadStep
  <2>3. card'.got = card.got /\ card.got = <<>>
    <3>1. sd.state \notin {"READ00", "WRITE00", "WRITE07", "WRITE08"}
      BY <2>1 DEF ReadStates
    <3> QED BY <2>1, <3>1, GotStays DEF OnEdge, SentInv
  <2>4. SentInv'
    BY <2>3 DEF SentInv
  <2>5. sd'.sdSTATE # "WRITE"
    <3>1. Proceeds
      BY <2>1, <2>2, Transfers DEF Machine, OnEdge
    <3> QED BY <1>1, <2>1, <3>1 DEF Proceeds, Silent, Says, Failing, ReadStates, WriteStates
  <2>6. mem2disk' \in Word
    BY <2>2 DEF ReadsOn, Machine
  <2> QED BY <1>1, <2>1, <2>2, <2>4, <2>5, <2>6 DEF Steps, ReadsOn, ReadInv, WriteInv
<1>2. CASE sd.sdSTATE = "WRITE"
  <2>1. /\ NoAbort /\ sd.state \in Transferring
        /\ sd.state \in WriteStates \cup {"FINI", "DONE", "RWFAIL"}
    BY <1>2, Midway
  <2>2. WritesOn
    BY <1>2, WriteStep
  <2>3. sd'.sdSTATE # "READ"
    <3>1. sd.state \notin {"READ05", "READ06"}
      BY <2>1 DEF WriteStates
    <3>2. Proceeds
      BY <2>1, <3>1, Transfers DEF Machine, OnEdge
    <3> QED BY <1>2, <2>1, <3>2 DEF Proceeds, Silent, Says, Failing, ReadStates, WriteStates
  <2> QED BY <2>2, <2>3 DEF Steps, WritesOn, ReadInv, WriteInv
<1>3. CASE sd.sdSTATE \notin {"READ", "WRITE"}
  <2>1. /\ memory' = memory /\ mem2disk' = mem2disk
        /\ CardOK' /\ ReadInv' /\ WriteInv' /\ card'.got \in {card.got, <<>>}
    BY <1>3, StillStep
  <2>2. SentInv'
    <3>1. CASE card'.got = <<>>
      BY <3>1 DEF SentInv
    <3>2. CASE card'.got = card.got /\ Asked(prog)' = Asked(prog)
      BY <2>1, <3>2, SentStays
    <3>3. CASE card'.got = card.got /\ ~IsJob(prog)
      <4>1. IsRead(Asked(prog))
        BY <3>3, AskedType DEF Machine, DumpInv
      <4> QED BY <3>1, <3>3, <4>1 DEF SentInv
    <3> QED BY <2>1, <3>1, <3>2, <3>3, JobStays
  <2>3. mem2disk' \in Word
    BY <2>1 DEF Machine
  <2> QED BY <2>1, <2>2, <2>3 DEF Steps
<1> QED BY <1>1, <1>2, <1>3

(* A word that comes by a break has its place in the buffer asked for.     *)
LEMMA KeptWord ==
  ASSUME Machine, NEW k \in 1..Count, Puts(k)
  PROVE  /\ Target + (k - 1) \in Addresses /\ sd.dmaDOUT \in Word
         /\ Target + (k - 1) \in Filling(Target, Count)
         /\ Target + (k - 1) \in Filling(Target, Words) /\ Target \in Buffers
         /\ \A a \in Addresses : a # Target + (k - 1) => memory'[a] = memory[a]
         /\ memory' \in [Addresses -> Word]
<1>1. /\ Target \in Buffers /\ Target \in Nat /\ Count \in Nat /\ Count <= Words /\ Words \in Nat
      /\ \A i \in Int : 0 <= i /\ i < Words => Target + i \in Addresses
  BY Places, Constants
<1>2. PICK i \in Int : i = k - 1 /\ 0 <= i /\ i < Count /\ i < Words
  BY <1>1
<1>3. Target + i \in Addresses
  BY <1>1, <1>2
<1>4. Target + i \in Filling(Target, Count) /\ Target + i \in Filling(Target, Words)
  BY <1>1, <1>2 DEF Filling
<1>5. sd.dmaDOUT \in Word /\ memory \in [Addresses -> Word]
  BY DEF Machine, SDRegisters
<1>6. memory' = [memory EXCEPT ![Target + i] = sd.dmaDOUT]
  BY <1>2 DEF Puts
<1>7. /\ \A a \in Addresses : a # Target + i => memory'[a] = memory[a]
      /\ memory' \in [Addresses -> Word]
  BY <1>5, <1>6
<1> QED BY <1>1, <1>2, <1>3, <1>4, <1>5, <1>7

(* The words around the buffers, and those a job does not ask for.         *)
LEMMA OutsideStep ==
  ASSUME Machine, Outside, Steps, NEW done, NEW rxd, OnEdge(done, rxd)
  PROVE  Outside' /\ memory' \in [Addresses -> Word]
<1>1. CASE memory' = memory
  <2>1. IsJob(prog)' => IsJob(prog) /\ Target' = Target /\ Count' = Count
    BY JobStays, SamePlaces
  <2> QED BY <1>1, <2>1 DEF Outside, Untouched, Machine
<1>2. CASE Asked(prog)' = Asked(prog) /\ Kept /\ memory' # memory
  <2>1. PICK k \in 1..Count : Puts(k)
    BY <1>2 DEF Kept
  <2>2. IsJob(prog)' => IsJob(prog) /\ Target' = Target /\ Count' = Count
    BY <1>2, JobStays, SamePlaces
  <2>3. /\ Target + (k - 1) \in Filling(Target, Count)
        /\ Target + (k - 1) \in Filling(Target, Words) /\ Target \in Buffers
        /\ \A a \in Addresses : a # Target + (k - 1) => memory'[a] = memory[a]
        /\ memory' \in [Addresses -> Word]
    BY <2>1, KeptWord
  <2> QED BY <2>2, <2>3 DEF Outside, Untouched, Buffers
<1> QED BY <1>1, <1>2 DEF Steps

(* When the program is told, the block is in its place.                    *)
LEMMA ArrivedStep ==
  ASSUME Machine, CardOK, SetUp, Phases, ReadInv, Arrived,
         NEW done, NEW rxd, OnEdge(done, rxd), done = 1 => NoBreak, sd.CS = 1 => rxd = "ff"
  PROVE  Arrived'
<1> SUFFICES ASSUME Told', IsRead(Asked(prog))'
             PROVE  Holds(Target, Block, Count)'
  BY DEF Arrived
<1>1. CASE Told /\ sd.sdSTATE \notin {"READ", "WRITE"} /\ Asked(prog)' = Asked(prog)
  <2>1. memory' = memory
    BY <1>1, StillStep
  <2>2. Holds(Target, Block, Count)
    BY <1>1 DEF Arrived
  <2>3. Target' = Target /\ Block' = Block /\ Count' = Count
    BY <1>1, SamePlaces
  <2> QED BY <2>1, <2>2, <2>3 DEF Holds
<1>2. CASE Running /\ Ending' /\ sd'.sdSTATE = "DONE"
  <2>1. sd.sdSTATE \in {"READ", "WRITE"}
    BY <1>2 DEF Running, Pipe, Op
  <2>2. Asked(prog)' = Asked(prog) /\ (IsRead(Asked(prog)) <=> sd.sdSTATE = "READ")
    BY <2>1, Midway
  <2>3. In(Words)'
    BY <1>2, <2>2, ReadStep
  <2>4. Count' = Count /\ Count \in Nat /\ Count <= Words /\ Words \in Nat
    BY <2>2, SamePlaces, Places, Constants
  <2>5. \A i \in 1..Count' : i <= Words
    BY <2>4
  <2> QED BY <2>3, <2>5 DEF In, Holds
<1> QED BY <1>1, <1>2, ToldStep

-----------------------------------------------------------------------------
(* The states that count words, and what they may have counted.            *)
Wordwise == {"READ05", "READ06", "READ07", "READ08", "WRITE06", "WRITE07", "WRITE08", "WRITE09"}

(* The limits of the byte counter.                                         *)
LEMMA Bounds ==
  /\ nCR \in Nat /\ nAC \in Nat /\ nBZ \in Nat /\ 1 <= nCR /\ 1 <= nAC
  /\ nCR <= 4095 /\ nAC <= 4095 /\ nBZ <= 4095
  /\ Bound \in Nat /\ Bound <= 4095
  /\ sd.state \in Wordwise => Bound = 2 * Words
<1>1. /\ nCR \in Nat /\ nAC \in Nat /\ nBZ \in Nat /\ 1 <= nCR /\ 1 <= nAC
      /\ nCR <= 4095 /\ nAC <= 4095 /\ nBZ <= 4095
  <2>1. nCR \in 1..4095 /\ nAC \in 1..4095 /\ nBZ \in 0..4095
    BY AnswersAssumption
  <2>2. \A l \in Nat, m \in Nat : \A n \in l..m : n \in Nat /\ l <= n /\ n <= m
    OBVIOUS
  <2>3. /\ \A n \in 1..4095 : n \in Nat /\ 1 <= n /\ n <= 4095
        /\ \A n \in 0..4095 : n \in Nat /\ n <= 4095
    BY <2>2
  <2> QED BY <2>1, <2>3
<1>2. Bound \in {nCR, nAC, nBZ, 2 * Words, 0} /\ (sd.state \in Wordwise => Bound = 2 * Words)
  BY DEF Bound, Wordwise
<1>3. 2 * Words \in Nat /\ 2 * Words <= 4095
  BY Constants
<1> QED BY <1>1, <1>2, <1>3

WordsCounted ==
  Phases /\ ReadInv /\ WriteInv /\ sd.state \in Wordwise =>
    /\ Running /\ sd.bytecnt \in Nat /\ sd.bytecnt <= 2 * Words
    /\ sd.sdSTATE \in {"READ", "WRITE"}

(* The words moved follow from the byte counter.                           *)
LEMMA CountedWords == WordsCounted
<1> SUFFICES ASSUME Phases, ReadInv, WriteInv, sd.state \in Wordwise
             PROVE  /\ Running /\ sd.bytecnt \in Nat /\ sd.bytecnt <= 2 * Words
                    /\ sd.sdSTATE \in {"READ", "WRITE"}
  BY DEF WordsCounted
<1>1. Running
  BY DEF Phases, Quiet, Starting, Running, Ending, Failed, Wordwise, First, Second, Third_
<1>2. Words \in Nat
  BY Constants
<1>3. CASE sd.state \in {"READ05", "READ06", "READ07", "READ08"}
  <2>1. rk.to_disk = 0
    BY <1>1, <1>3 DEF Running, WriteStates
  <2>2. sd.sdSTATE = "READ"
    BY <1>1, <2>1 DEF Running, Pipe, Op
  <2>3. PICK k \in 0..Words : ReadAt(k)
    BY <2>2 DEF ReadInv
  <2>4. k < Words /\ sd.bytecnt \in {2 * k, 2 * k + 1}
    BY <1>3, <2>3 DEF ReadAt
  <2> QED BY <1>1, <1>2, <2>2, <2>4
<1>4. CASE sd.state \in {"WRITE06", "WRITE07", "WRITE08", "WRITE09"}
  <2>1. rk.to_disk = 1
    BY <1>1, <1>4 DEF Running, ReadStates
  <2>2. sd.sdSTATE = "WRITE"
    BY <1>1, <2>1 DEF Running, Pipe, Op
  <2>3. PICK k \in 0..Words : WriteAt(k)
    BY <2>2 DEF WriteInv
  <2>4. k <= Words - 2 /\ sd.bytecnt \in {2 * k, 2 * k + 1}
    BY <1>4, <2>3 DEF WriteAt
  <2> QED BY <1>1, <1>2, <2>2, <2>4
<1> QED BY <1>3, <1>4 DEF Wordwise

(* After a step as before it.                                              *)
LEMMA CountedNext == WordsCounted'
  BY CountedWords, PTL

(* No state waits for more answers, or counts more words, than it should.  *)
LEMMA CountsStep ==
  ASSUME Machine, CardOK, SetUp, Phases, ReadInv, WriteInv, Counts,
         Phases', ReadInv', WriteInv', sd' \in SDRegisters,
         NEW done, NEW rxd, OnEdge(done, rxd), done = 1 => NoBreak
  PROVE  Counts'
<1>1. CASE sd'.state \in Wordwise
  <2>1. sd'.bytecnt <= 2 * Words
    BY <1>1, CountedNext DEF WordsCounted
  <2>2. Bound' = 2 * Words
    BY <1>1 DEF Bound, Wordwise
  <2> QED BY <2>1, <2>2 DEF Counts
<1>2. CASE sd'.state \notin Wordwise
  <2>1. /\ nCR \in Nat /\ nAC \in Nat /\ nBZ \in Nat /\ 1 <= nCR /\ 1 <= nAC /\ Bound \in Nat
    BY Bounds
  <2>2. /\ sd \in SDRegisters /\ SDEdge(done, rxd, mem2disk) /\ sd.bytecnt \in Nat
        /\ sd.bytecnt <= Bound
    BY DEF Machine, OnEdge, SDRegisters, Counts
  <2>3. Bound' \in Nat
    <3>1. Bound' \in {nCR, nAC, nBZ, 2 * Words, 0}
      BY DEF Bound
    <3>2. 2 * Words \in Nat
      BY Constants
    <3> QED BY <2>1, <3>1, <3>2
  <2>4. sd'.bytecnt = 0 => Counts'
    BY <2>3 DEF Counts
  <2>5. Moved(sd.state, sd.bytecnt) => Counts'
    BY <2>2 DEF Moved, Counts, Bound
  <2>6. CASE Exchanging(done)
    BY <2>2, <2>5, <2>6, Waited
  <2>7. CASE sd.state = "IDLE"
    <3>1. sd.bytecnt = 0
      BY <2>2, <2>7 DEF Bound
    <3> QED BY <2>2, <2>4, <2>7, <3>1, ByState, IdleEdge DEF Moved
  <2>8. CASE sd.state \in {"READ00", "WRITE00"}
    <3>1. Command
      BY <2>2, <2>8, ByState
    <3>2. Issued
      BY <2>8 DEF Phases, Quiet, Starting, Running, Ending, Failed, First, Second, Third_,
                  Underway, ReadStates, WriteStates
    <3> QED BY <2>2, <2>4, <3>1, <3>2, Addressing, Commanding DEF Moved
  <2>9. CASE sd.state \in {"READ01", "WRITE01", "WRITE13", "WRITE03", "WRITE10", "FINI", "READ09",
                           "WRITE16"} /\ ~Exchanging(done)
    BY <2>2, <2>4, <2>9, ByState, ByteStates DEF Moved
  <2>10. CASE sd.state \in {"READ02", "READ03", "WRITE02", "WRITE14"} /\ ~Exchanging(done)
    <3>1. Bound = Limit /\ Limit \in Nat /\ 1 <= Limit
      BY <2>1, <2>10 DEF Bound, Limit, At
    <3>2. CASE Listen
      <4>1. Again /\ sd.bytecnt = 0
        BY <2>2, <3>2, Listening DEF Asks
      <4>2. sd'.bytecnt = 1 /\ Bound' = Bound
        BY <4>1 DEF Again, Moved, Bound
      <4> QED BY <3>1, <4>2 DEF Counts
    <3>3. CASE Answer(done, rxd)
      <4>1. \/ Again /\ sd.bytecnt # Limit
            \/ sd'.bytecnt = 0
        BY <2>2, <3>3, Answering DEF Failing, Succeeded, Moved
      <4>2. CASE Again /\ sd.bytecnt # Limit
        <5>1. sd'.bytecnt = sd.bytecnt + 1 /\ Bound' = Bound
          BY <4>2 DEF Again, Moved, Bound
        <5> QED BY <2>2, <3>1, <4>2, <5>1 DEF Counts
      <4> QED BY <2>4, <4>1, <4>2
    <3> QED BY <2>2, <2>10, <3>2, <3>3, ByState
  <2>11. CASE sd.state \in {"READ04", "WRITE05"}
    BY <2>2, <2>4, <2>11, ByState, Granting
  <2>12. CASE sd.state \in {"READ05", "READ06", "READ07", "WRITE06", "WRITE07", "WRITE08"}
         /\ ~Exchanging(done)
    <3>1. sd.state \in {"READ05", "READ06"} => Byte \in Nat
      <4>1. sd.state \in {"READ05", "READ06"} => sd.sdSTATE = "READ"
        BY CountedWords, Midway DEF WordsCounted, Wordwise, ReadStates, WriteStates
      <4> QED BY <4>1, ReadStep
    <3>2. mem2disk \in Word
      BY DEF Machine
    <3>3. sd'.state \in {"READ06", "READ07", "READ08", "WRITE07", "WRITE08", "WRITE09"}
      BY <2>2, <2>12, <3>1, <3>2, ByState, LowRead, HighRead, AskingRead, AskingWrite, LowSent,
         HighSent DEF Moved
    <3> QED BY <1>2, <3>3 DEF Wordwise
  <2>13. CASE sd.state \in {"READ08", "WRITE09"} /\ ~Exchanging(done)
    <3>1. NoAbort
      BY <2>13, CountedWords, Midway DEF WordsCounted, Wordwise
    <3>2. sd'.state \in Wordwise \/ sd'.bytecnt = 0
      BY <2>2, <2>13, <3>1, ByState, WordRead, WordSent DEF Moved, Wordwise
    <3> QED BY <1>2, <2>4, <3>2
  <2>14. CASE sd.state = "WRITE04" /\ ~Exchanging(done)
    BY <2>2, <2>4, <2>14, ByState, WritingOn DEF Moved
  <2>15. CASE sd.state \in {"WRITE11", "WRITE12", "WRITE15"} /\ ~Exchanging(done)
    <3>1. \/ sd.state = "WRITE12" /\ Again /\ sd.bytecnt # nBZ
          \/ sd'.bytecnt = 0
      BY <2>2, <2>15, ByState, Responses DEF Failing, Succeeded, Moved
    <3>2. CASE sd.state = "WRITE12" /\ Again /\ sd.bytecnt # nBZ
      <4>1. sd'.bytecnt = sd.bytecnt + 1 /\ Bound' = nBZ /\ Bound = nBZ
        BY <3>2 DEF Again, Moved, Bound
      <4> QED BY <2>1, <2>2, <3>2, <4>1 DEF Counts
    <3> QED BY <2>4, <3>1, <3>2
  <2>16. CASE sd.state = "DONE"
    <3>1. sd.bytecnt = 0
      BY <2>2, <2>16 DEF Bound
    <3> QED BY <2>2, <2>4, <2>16, <3>1, ByState, DoneEdge DEF Moved
  <2>17. CASE sd.state = "RWFAIL"
    <3>1. sd.bytecnt = 0
      BY <2>2, <2>17 DEF Bound
    <3> QED BY <2>2, <2>4, <2>17, <3>1, ByState, FailedEdge DEF Moved
  <2>18. sd.state \in SDState
    BY <2>2 DEF SDRegisters
  <2> QED BY <2>6, <2>7, <2>8, <2>9, <2>10, <2>11, <2>12, <2>13, <2>14, <2>15, <2>16, <2>17, <2>18
          DEF SDState, OnSPI
<1> QED BY <1>1, <1>2

-----------------------------------------------------------------------------
(* An edge of the clock keeps all of it.                                   *)
LEMMA MachineStep ==
  ASSUME Machine, sd' \in SDRegisters, memory' \in [Addresses -> Word], mem2disk' \in Word,
         DumpInv', NEW done, NEW rxd, OnEdge(done, rxd)
  PROVE  Machine'
<1>1. rk' \in RKRegisters /\ cpu' \in CPURegisters
  BY DEF OnEdge, Always, Cycle
<1>2. ProgramTyped(prog)'
  <2>1. CASE prog' = prog
    BY <2>1 DEF Machine, ProgramTyped, IsJob
  <2>2. CASE Advancing
    BY <2>2 DEF Advancing, ProgramTyped, IsJob
  <2> QED BY <2>1, <2>2 DEF OnEdge, Obeying, Passing
<1> QED BY <1>1, <1>2 DEF Machine

(* An edge keeps the invariant of a transfer.                              *)
LEMMA EdgeStep ==
  ASSUME TransferInv, DumpInv', NEW done, NEW rxd, Edge(done, rxd), done = 1 => NoBreak,
         sd.CS = 1 => rxd = "ff"
  PROVE  TransferInv'
<1>1. /\ Machine /\ CardOK /\ SetUp /\ Phases /\ Counts /\ ReadInv /\ WriteInv /\ SentInv
      /\ Arrived /\ Outside
  BY DEF TransferInv
<1>2. OnEdge(done, rxd)
  BY <1>1, Edges
<1>3. sd' \in SDRegisters /\ Phases'
  BY <1>1, <1>2, PhaseStep DEF Phases
<1>4. Steps
  BY <1>1, <1>2, WordsStep
<1>5. Outside' /\ memory' \in [Addresses -> Word]
  BY <1>1, <1>2, <1>4, OutsideStep
<1>6. Arrived'
  BY <1>1, <1>2, ArrivedStep
<1>7. SetUp'
  BY <1>1, <1>2, SetUpStep
<1>8. Machine'
  BY <1>1, <1>2, <1>3, <1>4, <1>5, MachineStep DEF Steps
<1>9. Counts'
  BY <1>1, <1>2, <1>3, <1>4, CountsStep DEF Steps
<1> QED BY <1>3, <1>4, <1>5, <1>6, <1>7, <1>8, <1>9 DEF Steps, TransferInv

(* So does every step.                                                     *)
LEMMA TransferStep == TransferInv /\ [Next]_vars => TransferInv'
<1> SUFFICES ASSUME TransferInv, [Next]_vars PROVE TransferInv'
  OBVIOUS
<1>1. DumpInv'
  BY DumpStep DEF TransferInv, Machine
<1>2. CASE Clock
  BY <1>1, <1>2, EdgeStep DEF Clock
<1>3. CASE ByteExchanged
  <2>1. PICK rxd \in Answers : Edge(1, rxd)
    BY <1>3 DEF ByteExchanged
  <2>2. NoBreak
    BY <1>3 DEF ByteExchanged, Exchange, BreaksInTime, NoBreak, InBreak
  <2>3. sd.CS = 1 => rxd = "ff"
    BY <2>1 DEF Answers
  <2> QED BY <1>1, <2>1, <2>2, <2>3, EdgeStep
<1>4. CASE Transmit \/ Arrive \/ UNCHANGED vars
  <2>1. UNCHANGED <<sd, rk, card, cpu, memory, mem2disk, prog>>
    BY <1>4 DEF Transmit, Arrive, vars
  <2>2. /\ sd' = sd /\ rk' = rk /\ card' = card /\ cpu' = cpu /\ memory' = memory
        /\ mem2disk' = mem2disk /\ prog' = prog
    BY <2>1
  <2>3. Machine'
    BY <1>1, <2>2 DEF TransferInv, Machine, ProgramTyped, IsJob
  <2>4. CardOK' /\ SetUp' /\ Outside' /\ SentInv' /\ Arrived'
    <3>1. Target' = Target /\ Block' = Block /\ Count' = Count /\ Asked(prog)' = Asked(prog)
      BY <2>2, SamePlaces
    <3>2. CardOK' /\ SetUp' /\ Outside'
      BY <2>2, <3>1
         DEF TransferInv, CardOK, SetUp, HasAddress, HasCommand, Issued, Of, Obeyed, Outside,
             Untouched
    <3>3. SentInv'
      BY <2>2, <3>1, SentStays DEF TransferInv
    <3>4. Arrived'
      BY <2>2, <3>1 DEF TransferInv, Arrived, Told, Holds, Ending, Underway, Issued, Of, Obeyed,
                        NoBreak, InBreak, Pipe, Op, Quiet
    <3> QED BY <3>2, <3>3, <3>4
  <2>5. Phases' /\ Counts'
    BY <2>2
       DEF TransferInv, Phases, Counts, Bound, Quiet, Starting, Running, Ending, Failed, Reporting,
           Reported, Underway, Issued, Of, Obeyed, NoBreak, InBreak, Pipe, Op, First, Second, Third_
  <2>6. ReadInv' /\ WriteInv'
    <3>1. Target' = Target /\ Block' = Block /\ Count' = Count
      BY <2>2, SamePlaces
    <3>2. ASSUME NEW k \in 0..Words
          PROVE  (ReadAt(k) => ReadAt(k)') /\ (WriteAt(k) => WriteAt(k)')
      BY <2>2, <3>1
         DEF ReadAt, WriteAt, NoBreak, InBreak, Arriving, Stores, In, Pending, Requested, Fetches,
             Fetched
    <3> QED BY <2>2, <3>2 DEF TransferInv, ReadInv, WriteInv
  <2> QED BY <2>3, <2>4, <2>5, <2>6 DEF TransferInv
<1> QED BY <1>2, <1>3, <1>4 DEF Next

(* It holds at power up.                                                   *)
LEMMA TransferInit == Init => TransferInv
<1> SUFFICES ASSUME Init PROVE TransferInv
  OBVIOUS
<1>1. /\ sd = SDIdle /\ rk = RKIdle /\ card = [sends |-> <<>>, sent |-> 0, got |-> <<>>]
      /\ cpu = [state |-> "F0", eaddr |-> 0, mdin |-> 0, write_en |-> 0]
      /\ memory = Before /\ mem2disk = 0
      /\ prog \in {Dump} \cup {WriteSector(job) : job \in Jobs}
  BY DEF Init
<1>2. 0 \in Word /\ 0 \in Address /\ 0 \in Nibble /\ 0 \in Nat /\ 0 \in Bit /\ 1 \in Bit
  BY Ranges DEF Bit
<1>3. sd \in SDRegisters
  BY <1>1, <1>2 DEF SDIdle, SDRegisters, SDState, Outward
<1>4. rk \in RKRegisters
  BY <1>1, <1>2 DEF RKIdle, RKRegisters, Outward, Order
<1>5. cpu \in CPURegisters /\ cpu.state = "F0"
  BY <1>1, <1>2 DEF CPURegisters
<1>6. memory \in [Addresses -> Word] /\ mem2disk \in Word
  <2>1. ASSUME NEW a \in Addresses PROVE (a * 37) % 4096 \in Word
    <3>1. a \in Int
      <4>1. PICK b \in Buffers : a \in (b - 1)..(b + Words)
        BY DEF Addresses, Buffers
      <4> QED BY <4>1
    <3>2. PICK n \in Int : n = a * 37
      BY <3>1
    <3>3. n % 4096 \in Int /\ 0 <= n % 4096 /\ n % 4096 < 4096
      BY <3>2
    <3> QED BY <3>2, <3>3, Ranges
  <2> QED BY <1>1, <1>2, <2>1 DEF Before
<1>7. prog.pc \in {"CAF", "W1"} /\ ProgramTyped(prog)
  <2>1. /\ Dump.pc = "CAF" /\ Dump.EXBIT = 0 /\ Dump.TRACK = 0 /\ Dump.CURBUF = Buffer
        /\ Dump.LSTBUF = Buffer /\ Dump.CHKSUM = 0 /\ Dump.READST = 255
    BY DEF Dump
  <2>2. ASSUME NEW job \in Jobs
        PROVE  LET p == WriteSector(job)
               IN /\ p.pc = "W1" /\ p.EXBIT = 0 /\ p.TRACK = 0 /\ p.CURBUF = Buffer
                  /\ p.LSTBUF = Buffer /\ p.CHKSUM = 0 /\ p.READST = 255 /\ p.job = job
    BY DEF WriteSector, Dump
  <2>3. CASE prog = Dump
    BY <1>2, <2>1, <2>3, Constants DEF ProgramTyped, IsJob, Writing, Punching, Buffers
  <2>4. CASE prog # Dump
    <3>1. PICK job \in Jobs : prog = WriteSector(job)
      BY <1>1, <2>4
    <3>2. job \in Request
      BY Constants
    <3> QED BY <1>2, <2>2, <3>1, <3>2, Constants DEF ProgramTyped, Punching, Buffers
  <2> QED BY <2>3, <2>4
<1>8. Machine
  BY <1>3, <1>4, <1>5, <1>6, <1>7, DumpInit DEF Machine
<1>9. CardOK /\ SentInv
  BY <1>1 DEF CardOK, SentInv
<1>10. SetUp
  BY <1>7 DEF SetUp, HasAddress, HasCommand, Issued, Of
<1>11. Quiet /\ ~Ending
  BY <1>1, <1>5 DEF Quiet, Ending, Pipe, NoBreak, InBreak, SDIdle, RKIdle, Underway, Issued
<1>12. Phases /\ ReadInv /\ WriteInv
  BY <1>11 DEF Phases, ReadInv, WriteInv, Quiet, Pipe
<1>13. Counts
  <2>1. sd.bytecnt = 0
    BY <1>1 DEF SDIdle
  <2> QED BY <2>1, Bounds DEF Counts
<1>14. Arrived /\ Outside
  <2>1. ~Told
    <3>1. ~Issued
      BY <1>7 DEF Issued, Of
    <3> QED BY <1>7, <1>11, <3>1 DEF Told, Of
  <2> QED BY <1>1, <2>1 DEF Arrived, Outside, Untouched
<1> QED BY <1>8, <1>9, <1>10, <1>12, <1>13, <1>14 DEF TransferInv

(* Between rk8e.sv, sd.sv, the card and the programs: the invariant.       *)
THEOREM TransfersUnderstood == Spec => []TransferInv
<1>1. Init => TransferInv
  BY TransferInit
<1>2. TransferInv /\ [Next]_vars => TransferInv'
  BY TransferStep
<1> QED BY <1>1, <1>2, PTL DEF Spec

-----------------------------------------------------------------------------
(* The line's characters, and what the receiver makes of them.             *)
CharactersOK ==
  /\ tx.tto \in Octet /\ tty \in Seq(Octet)
  /\ DOMAIN rx = ReceiverFields
  /\ rx.temp \in Octet /\ rx.byte \in {0, 1, 2}
  /\ rx.count \in Int /\ -2 <= rx.count /\ rx.count < SECTOR
  /\ rx.count >= 0 => rx.count % 2 = 0

(* An edge gives the line only characters of the program.                  *)
LEMMA SerialStep ==
  ASSUME Machine, CharactersOK, NEW done, NEW rxd, Edge(done, rxd)
  PROVE  CharactersOK'
<1>1. rx' = rx
  BY DEF Edge
<1>2. CASE cpu.state # "F1"
  BY <1>1, <1>2 DEF Edge, RunsIOT, CharactersOK
<1>3. CASE cpu.state = "F1"
  <2> DEFINE iot == IOTOf(prog)
             ac == ACOf(prog, memory)
  <2>1. SerialIOT(iot, ac)
    BY <1>3 DEF Edge, RunsIOT
  <2>2. /\ ProgramOK(prog) /\ ProgramTyped(prog) /\ ~Halted(prog)
        /\ memory \in [Addresses -> Word] /\ TransmitterOK
    BY <1>3 DEF Machine, DumpInv, ProcessorOK
  <2>3. iot = "TLS" => ac \in Octet
    <3>1. prog.pc = "TLS" => ac \in Octet
      BY <2>2, IOTs
    <3>2. iot = "TLS" => prog.pc = "TLS"
      BY DEF IOTOf
    <3> QED BY <3>1, <3>2
  <2> HIDE DEF iot, ac
  <2>4. tty' = tty /\ tx'.tto \in {tx.tto, ac} /\ (iot # "TLS" => tx'.tto = tx.tto)
    BY <2>1, <2>2 DEF SerialIOT, TransmitterOK
  <2> QED BY <1>1, <2>3, <2>4 DEF CharactersOK
<1> QED BY <1>2, <1>3

(* A character received keeps the counters of the host in range.           *)
LEMMA ReceivedOK ==
  ASSUME CharactersOK, NEW c \in Octet, rx' = Received(rx, c)
  PROVE  /\ DOMAIN rx' = ReceiverFields
         /\ rx'.temp \in Octet /\ rx'.byte \in {0, 1, 2}
         /\ rx'.count \in Int /\ -2 <= rx'.count /\ rx'.count < SECTOR
         /\ rx'.count >= 0 => rx'.count % 2 = 0
<1>1. /\ DOMAIN rx = ReceiverFields /\ rx.temp \in Octet /\ rx.byte \in {0, 1, 2}
      /\ rx.count \in Int /\ -2 <= rx.count /\ rx.count < SECTOR
      /\ rx.count >= 0 => rx.count % 2 = 0
  BY DEF CharactersOK
<1>2. SECTOR \in Nat /\ SECTOR % 2 = 0 /\ 2 < SECTOR
  BY SizesAssumption, WordsAssumption
<1>3. c \div 16 \in Octet
  <2>1. PICK n \in Nat : n = c /\ n < 256
    BY Ranges
  <2>2. n \div 16 \in Int /\ 0 <= n \div 16 /\ n \div 16 < 256
    BY <2>1
  <2> QED BY <2>1, <2>2, Ranges
<1>4. CASE rx.count = -2
  BY <1>1, <1>2, <1>4 DEF Received, Trailer, ReceiverFields
<1>5. CASE rx.count = -1
  <2>1. rx' = Header(rx, c)
    BY <1>5 DEF Received
  <2> QED BY <1>1, <1>2, <1>5, <2>1 DEF Header, ReceiverFields
<1>6. CASE rx.count >= 0 /\ rx.byte = 0
  <2>1. rx' = [rx EXCEPT !.temp = c, !.byte = 1]
    BY <1>1, <1>6 DEF Received, Data
  <2> QED BY <1>1, <2>1 DEF ReceiverFields
<1>7. CASE rx.count >= 0 /\ rx.byte = 1
  <2> DEFINE w == Written(rx, (rx.temp + 256 * c) % 4096)
  <2>1. rx' = [w EXCEPT !.temp = c \div 16, !.byte = 2]
    BY <1>1, <1>7 DEF Received, Data
  <2>2. /\ DOMAIN w = ReceiverFields /\ w.count = rx.count
    BY <1>1 DEF Written, ReceiverFields
  <2> HIDE DEF w
  <2>3. /\ DOMAIN rx' = ReceiverFields /\ rx'.count = w.count /\ rx'.temp = c \div 16
        /\ rx'.byte = 2
    BY <2>1, <2>2 DEF ReceiverFields
  <2> QED BY <1>1, <1>3, <2>2, <2>3
<1>8. CASE rx.count >= 0 /\ rx.byte = 2
  <2> DEFINE w == Written(rx, rx.temp + 16 * c)
             q == [w EXCEPT !.byte = 0, !.count = rx.count + 2]
             s == [q EXCEPT !.count = -1, !.sect = q.sect + 1]
  <2>1. /\ DOMAIN w = ReceiverFields /\ w.count = rx.count /\ w.temp = rx.temp
    BY <1>1 DEF Written, ReceiverFields
  <2>2. rx' = Third(rx, c)
    BY <1>1, <1>8 DEF Received, Data
  <2>3. rx' = IF q.count = SECTOR THEN s ELSE q
    <3>1. q = [w EXCEPT !.byte = 0, !.count = @ + 2]
      <4> HIDE DEF w
      <4> QED BY <2>1
    <3>2. s = [q EXCEPT !.count = -1, !.sect = @ + 1]
      OBVIOUS
    <3> HIDE DEF q, s
    <3> QED BY <2>2, <3>1, <3>2 DEF Third
  <2> HIDE DEF w
  <2>4. /\ DOMAIN q = ReceiverFields /\ q.count = rx.count + 2 /\ q.temp = rx.temp /\ q.byte = 0
    BY <2>1 DEF ReceiverFields
  <2> HIDE DEF q
  <2>5. /\ DOMAIN s = ReceiverFields /\ s.count = -1 /\ s.temp = rx.temp /\ s.byte = 0
    BY <2>4 DEF ReceiverFields
  <2> HIDE DEF s
  <2>6. rx.count + 2 <= SECTOR /\ (rx.count + 2) % 2 = 0 /\ rx.count + 2 \in Int
    BY <1>1, <1>2, <1>8
  <2> QED BY <1>1, <1>2, <1>8, <2>3, <2>4, <2>5, <2>6
<1> QED BY <1>1, <1>4, <1>5, <1>6, <1>7, <1>8

(* Every step keeps the characters in range.                               *)
LEMMA CharactersStep == TransferInv /\ CharactersOK /\ [Next]_vars => CharactersOK'
<1> SUFFICES ASSUME TransferInv, CharactersOK, [Next]_vars PROVE CharactersOK'
  OBVIOUS
<1>1. Machine /\ TransmitterOK
  BY DEF TransferInv, Machine, DumpInv
<1>2. CASE Clock \/ ByteExchanged
  BY <1>1, <1>2, SerialStep DEF Clock, ByteExchanged
<1>3. CASE Transmit
  <2>1. rx' = rx
    BY <1>3 DEF Transmit
  <2>2. tx'.tto = tx.tto /\ tty' \in {tty, Append(tty, tx.tto)}
    BY <1>1, <1>3 DEF Transmit, Start, Send, Stop, TransmitterOK
  <2> QED BY <2>1, <2>2 DEF CharactersOK
<1>4. CASE Arrive
  <2>1. /\ tx' = tx /\ tty # <<>> /\ tty' = Tail(tty)
        /\ rx' = (IF rx.ended = "no" THEN Received(rx, Head(tty)) ELSE rx)
    BY <1>4 DEF Arrive, Receive
  <2>2. Head(tty) \in Octet /\ tty' \in Seq(Octet)
    BY <2>1 DEF CharactersOK
  <2> QED BY <2>1, <2>2, ReceivedOK DEF CharactersOK
<1>5. CASE UNCHANGED vars
  BY <1>5 DEF vars, CharactersOK
<1> QED BY <1>2, <1>3, <1>4, <1>5 DEF Next

(* They are in range at power up.                                          *)
LEMMA CharactersInit == Init => CharactersOK
<1> SUFFICES ASSUME Init PROVE CharactersOK
  OBVIOUS
<1>1. tx = TXIdle /\ tty = <<>> /\ rx = Receiving
  BY DEF Init
<1>2. 32 \in Octet /\ 0 \in Octet
  BY Ranges
<1>3. SECTOR \in Nat /\ 2 < SECTOR
  BY SizesAssumption, WordsAssumption
<1> QED BY <1>1, <1>2, <1>3 DEF CharactersOK, TXIdle, Receiving, ReceiverFields

(* Every register of processor, controller, interface, transmitter and of  *)
(* the programs keeps its width: sd.sv's counts of bytes and of answers    *)
(* fit in bytecnt's 12 bits for any nAC, nBZ and length of block, and      *)
(* dumprk05.c never counts past its block.                                 *)
THEOREM RegistersInRange == Spec => []TypeOK
<1>1. TransferInv /\ CharactersOK => TypeOK
  <2> SUFFICES ASSUME TransferInv, CharactersOK PROVE TypeOK
    OBVIOUS
  <2>1. /\ sd \in SDRegisters /\ rk \in RKRegisters /\ memory \in [Addresses -> Word]
        /\ mem2disk \in Word /\ TransmitterOK /\ ProgramTyped(prog) /\ Counts
    BY DEF TransferInv, Machine, DumpInv
  <2>2. sd.bytecnt \in 0..4095
    <3>1. PICK m \in Nat : m = 4095
      OBVIOUS
    <3>2. sd.bytecnt \in Nat /\ sd.bytecnt <= m
      BY <2>1, <3>1, Bounds DEF SDRegisters, Counts
    <3>3. sd.bytecnt \in 0..m
      BY <3>2
    <3> QED BY <3>1, <3>3
  <2>3. prog.TRACK \in Word
    <3>1. prog.TRACK \in Int /\ 0 <= prog.TRACK /\ prog.TRACK < 4096
      BY <2>1, Constants DEF ProgramTyped
    <3> QED BY <3>1, Ranges
  <2>4. /\ sd.state \in SDState /\ sd.memADDR \in Address /\ sd.dmaADDR \in Address
        /\ sd.dmaDOUT \in Word /\ sd.memBUF \in 0..15
        /\ {sd.memREQ, sd.abort, sd.CS, sd.dmaRD, sd.dmaWR, sd.dmaREQ} \subseteq Bit
    BY <2>1 DEF SDRegisters, Nibble
  <2>5. /\ rk.status \subseteq StatusBit /\ rk.disk_bus \subseteq StatusBit
        /\ rk.car \in Word /\ rk.dar \in Word /\ rk.cmd_reg \in Word
        /\ rk.sdOP \in Order /\ rk.write_lock \subseteq Drives
    BY <2>1 DEF RKRegisters
  <2>6. /\ tx.tto \in Octet /\ tx.state \in {"IDLE", "SENDING", "STOP"}
        /\ \A i \in 1..Len(tty) : tty[i] \in Octet
    BY <2>1 DEF TransmitterOK, CharactersOK
  <2>7. prog.CHKSUM \in Word /\ prog.EXBIT \in Bit
    BY <2>1 DEF ProgramTyped
  <2>8. rx.temp \in Octet /\ rx.count \in -2..BLOCK
    <3>1. BLOCK \in Nat /\ SECTOR = BLOCK
      BY Constants
    <3> QED BY <3>1 DEF CharactersOK
  <2> QED BY <2>1, <2>2, <2>3, <2>4, <2>5, <2>6, <2>7, <2>8 DEF TypeOK, SDState, Order, Drives
<1>2. Spec => []TransferInv
  BY TransfersUnderstood
<1> QED BY <1>1, <1>2, CharactersInit, CharactersStep, PTL DEF Spec

(* Whenever a program finds its read done (rk8e.sv:194, dumprk05.pal:176)  *)
(* the whole sector, or the half asked for, is in the buffer it asked for, *)
(* each word brought by a data break of its own, and the words around the  *)
(* buffer are what they were: for every card, length of block and job, and *)
(* however the breaks fall between the instructions.                       *)
THEOREM BlockArrives == Spec => []BlockRead
<1>1. TransferInv => BlockRead
  <2> SUFFICES ASSUME TransferInv PROVE BlockRead
    OBVIOUS
  <2>1. Machine /\ Arrived /\ Outside /\ ProgramOK(prog) /\ ProgramTyped(prog)
    BY DEF TransferInv, Machine, DumpInv
  <2>2. ASSUME prog.pc = "CK2", rk.disk_bus = {"done"}, cpu.state = "F3"
        PROVE  Holds(prog.CURBUF, prog.EXBIT * 4096 + prog.TRACK, Words)
    <3>1. ~IsJob(prog)
      BY <2>2 DEF IsJob, Writing
    <3>2. /\ Target = prog.CURBUF /\ Asked(prog).command = prog.EXBIT
          /\ Asked(prog).track = prog.TRACK /\ IsRead(Asked(prog)) /\ Count = Words
      BY <2>1, <3>1, AskedType DEF Target, Count, Length
    <3>3. Block = prog.EXBIT * 4096 + prog.TRACK
      <4>1. prog.EXBIT = 0 \/ prog.EXBIT = 1
        BY <2>1 DEF ProgramTyped, Bit
      <4> QED BY <3>2, <4>1 DEF Block, BlockOf
    <3>4. Told
      BY <2>2 DEF Told, Of, Obeyed
    <3> QED BY <2>1, <3>2, <3>3, <3>4 DEF Arrived
  <2>3. ASSUME prog.pc = "W-finished", IsRead(prog.job)
        PROVE  /\ Holds(prog.job.curent, BlockOf(prog.job), Length(prog.job))
               /\ Untouched(Addresses \ Filling(prog.job.curent, Length(prog.job)))
    <3>1. IsJob(prog) /\ Asked(prog) = prog.job /\ Told
      BY <2>3 DEF IsJob, Asked, Told, Of
    <3> QED BY <2>1, <2>3, <3>1 DEF Arrived, Outside, Target, Block, Count
  <2> QED BY <2>1, <2>2, <2>3 DEF BlockRead, Outside
<1> QED BY <1>1, TransfersUnderstood, PTL

(* What the card has been sent is the buffer, word for word, every word    *)
(* fetched by a data break before its turn came (sd.sv:1110-1128): for     *)
(* every length of block and job, and however the breaks fall.             *)
THEOREM BlockSent == Spec => []WrittenInOrder
<1>1. TransferInv => WrittenInOrder
  <2> SUFFICES ASSUME TransferInv PROVE WrittenInOrder
    OBVIOUS
  <2>1. SentInv /\ ProgramOK(prog) /\ ProgramTyped(prog)
    BY DEF TransferInv, Machine, DumpInv
  <2>2. CASE IsJob(prog)
    <3>1. Asked(prog) = prog.job
      BY <2>2 DEF Asked
    <3> QED BY <2>1, <3>1 DEF SentInv, Target, WrittenInOrder
  <2>3. CASE ~IsJob(prog)
    <3>1. card.got = <<>>
      BY <2>1, <2>3, AskedType DEF SentInv
    <3> QED BY <3>1 DEF WrittenInOrder
  <2> QED BY <2>2, <2>3
<1> QED BY <1>1, TransfersUnderstood, PTL

-----------------------------------------------------------------------------
(* From its last word sent to the end of the card's status.                *)
Closed == {"WRITE10", "WRITE11", "WRITE12", "WRITE13", "WRITE14", "WRITE15", "WRITE16"}

LastWordMissing == sd.state \in Closed => Len(card.got) = 2 * (Words - 1)

(* The data of a block end in WRITE09, on one count.                       *)
LEMMA ClosedFrom ==
  ASSUME sd \in SDRegisters, mem2disk \in Word, NoAbort, NEW done, NEW rxd,
         SDEdge(done, rxd, mem2disk), sd.state \in Transferring \ Closed,
         sd.state \in {"READ05", "READ06"} => Byte \in Nat, sd'.state \in Closed
  PROVE  sd.state = "WRITE09" /\ sd.bytecnt = 2 * Words - 3
<1> USE DEF Closed, Moved, Silent, Again, Succeeded
<1>1. Proceeds
  BY Transfers
<1>2. sd.state \in WriteStates
  BY <1>1 DEF Proceeds, Failing, ReadStates, WriteStates
<1>3. sd.state \notin {"WRITE01", "WRITE02", "WRITE03", "WRITE04"}
  <2>1. CASE Exchanging(done)
    BY <2>1, Waited
  <2>2. CASE sd.state \in {"WRITE01", "WRITE03"} /\ ~Exchanging(done)
    BY <2>2, ByState, ByteStates
  <2>3. CASE sd.state = "WRITE02" /\ ~Exchanging(done)
    <3>1. Listen \/ Answer(done, rxd)
      BY <2>3, ByState
    <3>2. Again \/ Failing \/ sd'.state = "WRITE03"
      BY <2>3, <3>1, Listening, Answering
    <3> QED BY <2>3, <3>2 DEF Failing
  <2>4. CASE sd.state = "WRITE04" /\ ~Exchanging(done)
    BY <2>4, ByState, WritingOn
  <2> QED BY <2>1, <2>2, <2>3, <2>4
<1>4. sd.state \notin {"WRITE05", "WRITE06", "WRITE07", "WRITE08"}
  <2>1. CASE Exchanging(done)
    BY <2>1, Waited
  <2>2. CASE sd.state = "WRITE05"
    BY <2>2, ByState, Granting
  <2>3. CASE sd.state = "WRITE06"
    BY <2>3, ByState, AskingWrite
  <2>4. CASE sd.state = "WRITE07"
    BY <2>4, ByState, LowSent
  <2>5. CASE sd.state = "WRITE08" /\ ~Exchanging(done)
    BY <2>5, ByState, HighSent
  <2> QED BY <2>1, <2>2, <2>3, <2>4, <2>5
<1>5. sd.state = "WRITE09"
  BY <1>2, <1>3, <1>4 DEF WriteStates
<1>6. CASE Exchanging(done)
  BY <1>5, <1>6, Waited
<1>7. CASE ~Exchanging(done)
  BY <1>5, <1>7, ByState, WordSent
<1> QED BY <1>5, <1>6, <1>7

LEMMA MissingEdge ==
  ASSUME TransferInv, LastWordMissing, NEW done, NEW rxd, Edge(done, rxd),
         done = 1 => NoBreak, sd.CS = 1 => rxd = "ff"
  PROVE  LastWordMissing'
<1> SUFFICES ASSUME sd'.state \in Closed PROVE Len(card'.got) = 2 * (Words - 1)
  BY DEF LastWordMissing
<1>1. /\ Machine /\ CardOK /\ SetUp /\ Phases /\ ReadInv /\ WriteInv /\ OnEdge(done, rxd)
      /\ sd \in SDRegisters /\ mem2disk \in Word /\ SDEdge(done, rxd, mem2disk)
  BY Edges DEF TransferInv, Machine, OnEdge
<1>2. CASE sd.state \in Closed
  <2>1. card'.got = card.got
    BY <1>1, <1>2, GotStays DEF Closed
  <2> QED BY <1>2, <2>1 DEF LastWordMissing
<1>3. CASE sd.state \notin Closed
  <2>1. Starting \/ Running
    BY <1>1, PhaseStep DEF Phases, Quiet, Starting, Ending, Failed, Closed, First, Second, Third_
  <2>2. NoAbort
    BY <2>1 DEF Starting, Running, Underway, NoAbort
  <2>3. sd.state \notin {"IDLE", "READ00", "WRITE00"}
    <3>1. CASE sd.state = "IDLE"
      BY <1>1, <3>1, ByState, IdleEdge DEF Moved, Closed
    <3>2. CASE sd.state \in {"READ00", "WRITE00"}
      <4>1. sdMEMaddr \in Address
        BY <1>1, <2>1, <3>2, Addressing DEF Starting, Running, Underway, ReadStates, WriteStates
      <4> QED BY <1>1, <3>2, <4>1, ByState, Commanding DEF Moved, Closed
    <3> QED BY <3>1, <3>2
  <2>4. sd.state \in Transferring
    BY <2>1, <2>3 DEF Starting, Running, Transferring, ReadStates, WriteStates, First, Second, Third_
  <2>5. sd.state \in {"READ05", "READ06"} => Byte \in Nat
    <3>1. sd.state \in {"READ05", "READ06"} => sd.sdSTATE = "READ"
      BY <2>1 DEF Starting, Running, Pipe, Op, First, Second, Third_, WriteStates, Underway
    <3> QED BY <1>1, <3>1, ReadStep
  <2>6. sd.state = "WRITE09" /\ sd.bytecnt = 2 * Words - 3
    BY <1>1, <1>3, <2>2, <2>4, <2>5, ClosedFrom
  <2>7. sd.sdSTATE = "WRITE"
    BY <2>1, <2>6 DEF Starting, Running, Pipe, Op, First, Second, Third_, ReadStates
  <2>8. PICK k \in 0..Words : WriteAt(k)
    BY <1>1, <2>7 DEF WriteInv
  <2>9. Len(card.got) = 2 * k + 2 /\ sd.bytecnt = 2 * k + 1 /\ k \in Nat
    BY <2>6, <2>8, Constants DEF WriteAt
  <2>10. card'.got = card.got
    BY <1>1, <2>6, GotStays
  <2>11. Words \in Nat /\ 2 * k + 1 = 2 * Words - 3
    BY <2>6, <2>9, Constants
  <2>12. 2 * k + 2 = 2 * (Words - 1)
    BY <2>9, <2>11
  <2> QED BY <2>9, <2>10, <2>12
<1> QED BY <1>2, <1>3

(* Every write ends one word early, for every length of block, whatever    *)
(* the card answers and however the breaks fall: the last word of the      *)
(* buffer, or of the zeros after half a block, is never sent (sd.sv:1158). *)
THEOREM LastWordNeverSent == Spec => []LastWordMissing
<1>1. Init => LastWordMissing
  BY DEF Init, SDIdle, LastWordMissing, Closed
<1>2. TransferInv /\ LastWordMissing /\ [Next]_vars => LastWordMissing'
  <2> SUFFICES ASSUME TransferInv, LastWordMissing, [Next]_vars PROVE LastWordMissing'
    OBVIOUS
  <2>1. CASE Clock
    BY <2>1, MissingEdge DEF Clock
  <2>2. CASE ByteExchanged
    <3>1. PICK rxd \in Answers : Edge(1, rxd)
      BY <2>2 DEF ByteExchanged
    <3>2. NoBreak
      BY <2>2 DEF ByteExchanged, Exchange, BreaksInTime, NoBreak, InBreak
    <3>3. sd.CS = 1 => rxd = "ff"
      BY <3>1 DEF Answers
    <3> QED BY <3>1, <3>2, <3>3, MissingEdge
  <2>3. CASE Transmit \/ Arrive \/ UNCHANGED vars
    BY <2>3 DEF Transmit, Arrive, vars, LastWordMissing
  <2> QED BY <2>1, <2>2, <2>3 DEF Next
<1> QED BY <1>1, <1>2, TransfersUnderstood, PTL DEF Spec
=============================================================================
