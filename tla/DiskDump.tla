------------------------------ MODULE DiskDump ------------------------------
(***************************************************************************)
(* Disk to console: the processor at the grain of an IOT (F0, F1, F3) and  *)
(* of a data break (DB0 to DB2) runs a program; with it, on one clock, run *)
(* rk8e.sv and sd.sv.  The transmitter, the line and the receiving         *)
(* programs run beside them.                                               *)
(*                                                                         *)
(* The clocks between two IOTs are F3.  BreaksInTime: an SPI byte takes    *)
(* longer than a data break waits (RK8E/README: "We should be fine").      *)
(***************************************************************************)
EXTENDS DiskController, Transmitter, DumpProgram, DumpReceiver

CONSTANTS CardFails,   \* may the card answer wrongly, or not at all
          LineBuffer   \* bound: characters the host lags behind

(* A block is a sector on every side; all of the programs' words lie in    *)
(* two buffers in field 0.  A seek does not end with the flag.             *)
ASSUME SizesAssumption == BLOCK = Words /\ SECTOR = Words /\ Words <= 256
ASSUME JobsAssumption ==
  Jobs \subseteq [curent  : {Buffer, OtherBuffer(Buffer)},
                  command : {c \in 0..4095 : (c \div 8) % 8 = 0 /\ Bit4(c) = 0},
                  track   : 0..4095]

VARIABLES cpu,         \* state, the latched address and data of a break
          memory,      \* the two buffers, and the words around them
          mem2disk,
          prog         \* the program

vars == <<sd, rk, card, tx, dropped, tty, rx, oct, cpu, memory, mem2disk, prog>>

Addresses == UNION {(b - 1)..(b + Words) : b \in {Buffer, OtherBuffer(Buffer)}}

(* What the buffers hold before: different words everywhere.               *)
Before == [a \in Addresses |-> (a * 37) % 4096]

Init ==
  /\ sd = SDIdle /\ rk = RKIdle /\ card = [sends |-> <<>>, sent |-> 0, got |-> <<>>]
  /\ tx = TXIdle /\ dropped = FALSE /\ tty = <<>>
  /\ rx = Receiving /\ oct = Converting
  /\ cpu = [state |-> "F0", eaddr |-> 0, mdin |-> 0, write_en |-> 0]
  /\ memory = Before /\ mem2disk = 0
  /\ prog \in {Dump} \cup {WriteSector(job) : job \in Jobs}

-----------------------------------------------------------------------------
BreaksInTime == /\ sd.dmaWR = 0 /\ sd.dmaRD = 0 /\ rk.data_break = 0
                /\ cpu.state \notin {"DB0", "DB1", "DB2"}

Exchange == At(OnSPI) /\ ~Asks /\ BreaksInTime

(* What the card may answer when the interface listens.                    *)
Good == CASE sd.state \in {"READ02", "WRITE02", "WRITE14", "WRITE15"} -> "00"
          [] sd.state = "READ03"  -> "fe"
          [] sd.state = "WRITE11" -> "05"
          [] OTHER -> "ff"

Waiting == IF sd.state \in {"READ02", "READ03", "WRITE02", "WRITE14"} THEN {"ff"}
           ELSE IF sd.state = "WRITE12" THEN {"00"} ELSE {}

Patience == sd.bytecnt < (CASE sd.state = "READ03" -> nAC
                            [] sd.state = "WRITE12" -> nBZ
                            [] OTHER -> nCR)

Answers == IF sd.CS = 1 THEN {"ff"}
           ELSE IF CardFails THEN {Good, "xx"} \cup Waiting
           ELSE {Good} \cup (IF Patience THEN Waiting ELSE {})

-----------------------------------------------------------------------------
RunsIOT == cpu.state = "F1"

CPUAtF0 ==
  /\ cpu.state = "F0"
  /\ cpu' = IF rk.data_break = 1
            THEN [cpu EXCEPT !.state = "DB0", !.eaddr = rk.dmaAddr, !.mdin = sd.dmaDOUT]
            ELSE [cpu EXCEPT !.state = IF Halted(prog) THEN "F0" ELSE "F1"]
  /\ UNCHANGED <<memory, mem2disk, prog>>

CPUAtF1 == /\ RunsIOT
           /\ cpu' = [cpu EXCEPT !.state = "F3"]
           /\ UNCHANGED <<memory, mem2disk, prog>>

CPUAtF3 ==
  /\ cpu.state = "F3"
  /\ cpu' = [cpu EXCEPT !.state = "F0"]
  /\ prog' = Advance(prog, IF prog.pc = "TSF" THEN tx.skip ELSE rk.skip, rk.disk_bus, memory)
  /\ UNCHANGED <<memory, mem2disk>>

CPUAtDB0 == /\ cpu.state = "DB0"
            /\ cpu' = [cpu EXCEPT !.state = "DB1"]
            /\ UNCHANGED <<memory, mem2disk, prog>>

CPUAtDB1 ==
  /\ cpu.state = "DB1"
  /\ cpu' = [cpu EXCEPT !.state = "DB2", !.mdin = sd.dmaDOUT, !.write_en = 1 - rk.to_disk]
  /\ UNCHANGED <<memory, mem2disk, prog>>

CPUAtDB2 ==
  /\ cpu.state = "DB2"
  /\ memory' = IF cpu.write_en = 1 THEN [memory EXCEPT ![cpu.eaddr] = cpu.mdin] ELSE memory
  /\ mem2disk' = IF rk.to_disk = 1 THEN memory[cpu.eaddr] ELSE mem2disk
  /\ cpu' = [cpu EXCEPT !.state = "F0", !.write_en = 0]
  /\ UNCHANGED prog

CPUEdge == CPUAtF0 \/ CPUAtF1 \/ CPUAtF3 \/ CPUAtDB0 \/ CPUAtDB1 \/ CPUAtDB2

Edge(spiDONE, spiRXD) ==
  /\ SDEdge(spiDONE, spiRXD, mem2disk)
  /\ RKEdge(cpu.state, IOTOf(prog), ACOf(prog, memory))
  /\ CPUEdge
  /\ IF RunsIOT THEN SerialIOT(IOTOf(prog), ACOf(prog, memory))
     ELSE UNCHANGED <<tx, dropped, tty>>
  /\ UNCHANGED <<rx, oct>>

Clock == Edge(0, "ff")
ByteExchanged == Exchange /\ \E spiRXD \in Answers : Edge(1, spiRXD)

-----------------------------------------------------------------------------
Transmit == /\ Start \/ (Send /\ Len(tty) < LineBuffer) \/ Stop
            /\ UNCHANGED <<sd, rk, card, rx, oct, cpu, memory, mem2disk, prog>>

Arrive == /\ tty # <<>>
          /\ Receive(Head(tty)) /\ tty' = Tail(tty)
          /\ UNCHANGED <<sd, rk, card, tx, dropped, cpu, memory, mem2disk, prog>>

Next == Clock \/ ByteExchanged \/ Transmit \/ Arrive

Spec == Init /\ [][Next]_vars

(* The clocks run, the card's bytes, the transmitter's periods and the     *)
(* host's reads come to an end.                                            *)
Fairness == WF_vars(Clock) /\ WF_vars(ByteExchanged) /\ WF_vars(Transmit) /\ WF_vars(Arrive)

FairSpec == Spec /\ Fairness

-----------------------------------------------------------------------------
Word == 0..4095
Octet == 0..255
Bit == {0, 1}

(* Every register keeps its width.                                         *)
TypeOK ==
  /\ sd.state \in OnSPI \cup {"IDLE", "READ00", "READ04", "READ07", "READ08", "WRITE00",
                              "WRITE05", "WRITE06", "WRITE07", "DONE", "RWFAIL"}
  /\ sd.bytecnt \in 0..4095 /\ sd.memADDR \in Address /\ sd.dmaADDR \in Address
  /\ sd.dmaDOUT \in Word /\ sd.memBUF \in 0..15
  /\ {sd.memREQ, sd.abort, sd.CS, sd.dmaRD, sd.dmaWR, sd.dmaREQ} \subseteq Bit
  /\ rk.status \subseteq StatusBit /\ rk.disk_bus \subseteq StatusBit
  /\ rk.car \in Word /\ rk.dar \in Word /\ rk.cmd_reg \in Word
  /\ rk.sdOP \in {"NOP", "ABORT", "RD", "WR"} /\ rk.write_lock \subseteq 0..3
  /\ tx.tto \in Octet /\ tx.state \in {"IDLE", "SENDING", "STOP"}
  /\ \A i \in 1..Len(tty) : tty[i] \in Octet
  /\ memory \in [Addresses -> Word] /\ mem2disk \in Word
  /\ prog.CHKSUM \in Word /\ prog.TRACK \in Word /\ prog.EXBIT \in Bit
  /\ rx.temp \in Octet /\ rx.count \in -2..BLOCK

(* The words of a block are 12 bits of the card's.                         *)
Content(a) == [i \in 1..Words |-> Image[a][i] % 4096]
Holds(b, a, n) == \A i \in 1..n : memory[b + i - 1] = Content(a)[i]
Untouched(as) == \A a \in as : memory[a] = Before[a]

(* What a job is to do.                                                    *)
IsRead(job)   == job.command \div 512 \in {0, 1}
IsHalf(job)   == (job.command \div 64) % 2 = 1
Length(job)   == IF IsHalf(job) THEN Words \div 2 ELSE Words
BlockOf(job)  == (job.command % 8) * 4096 + job.track
Filling(b, n) == b..(b + n - 1)

(* Whenever the program finds a read done (rk8e.sv:194, dumprk05.pal:176)  *)
(* the buffer holds the sector it asked for.  Every word came by a data    *)
(* break of its own, a half block leaves the second half of the buffer     *)
(* alone (sd.sv:944), and no word before or after the buffer is touched.   *)
BlockRead ==
  /\ prog.pc = "CK2" /\ rk.disk_bus = {"done"} /\ cpu.state = "F3" =>
       Holds(prog.CURBUF, prog.EXBIT * 4096 + prog.TRACK, Words)
  /\ prog.pc = "W-finished" /\ IsRead(prog.job) =>
       /\ Holds(prog.job.curent, BlockOf(prog.job), Length(prog.job))
       /\ Untouched(Addresses \ Filling(prog.job.curent, Length(prog.job)))
  /\ Untouched(Addresses \ (Filling(Buffer, Words) \cup Filling(OtherBuffer(Buffer), Words)))

(* The words a write sends are the buffer's, in order, each fetched by a   *)
(* data break in time; after a half block come zeros (sd.sv:1110-1128).    *)
SentWord(i) == card.got[2 * i - 1] + 256 * card.got[2 * i]
WrittenInOrder ==
  \A i \in 1..(Len(card.got) \div 2) :
    \/ SentWord(i) = memory[prog.job.curent + i - 1]
    \/ IsHalf(prog.job) /\ i >= Words \div 2 /\ SentWord(i) = 0

(* PUN waits for the flag after each character (dumprk05.pal:291), and the *)
(* transmitter takes a character only when it is idle or in its stop bits  *)
(* (tx.v:43): none is loaded in vain, at any speed of either.              *)
NothingDropped == ~dropped

(* Both decoders make the same words of the same characters.               *)
DecodersAgree == oct.printed = rx.out

-----------------------------------------------------------------------------
(* The disk is the sectors of all tracks, those with EXBIT 1 at 4096.      *)
Sectors == TRACKSIZE + MAXTRK + 1
TrackOf(s) == IF s < TRACKSIZE THEN s ELSE 4096 + s - TRACKSIZE
WholeDisk == [i \in 1..(Sectors * Words) |->
                Content(TrackOf((i - 1) \div Words))[((i - 1) % Words) + 1]]

(* The copy dumprk05.c makes, and whether it is called done.               *)
Outcome == CASE rx.ended = "Done" -> "done"
             [] rx.ended = "no"   -> "copying"
             [] OTHER             -> "failed"
Copy_ == INSTANCE DiskCopy WITH Disk <- WholeDisk, copy <- rx.out, outcome <- Outcome

(* What arrives is the disk, word for word and in order, and it is called  *)
(* done exactly when it is complete, whatever the card does.               *)
ImplementsDiskCopy == Copy_!Spec
=============================================================================
