---------------------------- MODULE SDInterface ----------------------------
(***************************************************************************)
(* RK8E/sd.sv, an initialised card: the blocks it reads and writes, one    *)
(* action for a state.  spiDONE is 1 on an edge where the SPI interface    *)
(* has exchanged the byte it was given, spiRXD is what the card answered   *)
(* then (a deselected card answers ff).  The bytes of a command and of a   *)
(* checksum are one exchange.                                              *)
(***************************************************************************)
EXTENDS Integers, Sequences, FiniteSets

CONSTANTS Words,           \* words of a block (256)
          nCR, nAC, nBZ,   \* the answers waited for: 8, 1023, 4095
          Image            \* external: the card's blocks, of 16 bits a word

Address  == 0..32767   \* 15 bits, of a word in memory and of a block
CardWord == 0..65535

ASSUME WordsAssumption == Words \in Nat /\ Words > 2 /\ Words % 2 = 0
ASSUME AnswersAssumption == {nCR, nAC} \subseteq 1..4095 /\ nBZ \in 0..4095
ASSUME ImageAssumption == Image \in [Address -> [1..Words -> CardWord]]

VARIABLES sd,      \* the registers of sd.sv
          rk,      \* the registers of rk8e.sv, read here
          card     \* external: the block the card sends, the bytes it was sent

SDIdle == [state |-> "IDLE", bytecnt |-> 0, memADDR |-> 0, memREQ |-> 0, memBUF |-> 0,
           abort |-> 0, sdSTATE |-> "READY", CS |-> 1,
           dmaRD |-> 0, dmaWR |-> 0, dmaDOUT |-> 0, dmaADDR |-> 0, dmaREQ |-> 0,
           sdSTAT |-> "READY"]

(* What happens on every edge: pulses end, copies follow, an abort sticks. *)
Ticked == [sd EXCEPT !.dmaRD = 0, !.dmaWR = 0,
                     !.dmaADDR = sd.memADDR, !.dmaREQ = sd.memREQ, !.sdSTAT = sd.sdSTATE,
                     !.abort = IF rk.sdOP = "ABORT" /\ sd.state # "IDLE" THEN 1 ELSE @]

Go(next) == [Ticked EXCEPT !.state = next, !.bytecnt = 0]
Deselect(s) == [s EXCEPT !.CS = 1]

At(states) == sd.state \in states
Moves(next) == sd' = next /\ UNCHANGED card

(* States that wait for the SPI interface. *)
OnSPI == {"READ01", "READ02", "READ03", "READ05", "READ06", "READ09",
          "WRITE01", "WRITE02", "WRITE03", "WRITE04", "WRITE08", "WRITE09", "WRITE10",
          "WRITE11", "WRITE12", "WRITE13", "WRITE14", "WRITE15", "WRITE16", "FINI"}

(* READ02, READ03 and WRITE02 have first to ask for a byte.                *)
Asks == At({"READ02", "READ03", "WRITE02"}) /\ sd.bytecnt = 0

Exchanging(spiDONE) == At(OnSPI) /\ ~Asks /\ spiDONE = 0 /\ Moves(Ticked)

AtIDLE ==
  /\ At({"IDLE"})
  /\ Moves([Ticked EXCEPT !.abort = 0, !.sdSTATE = "READY",
              !.state = CASE rk.sdOP = "RD" -> "READ00"
                          [] rk.sdOP = "WR" -> "WRITE00"
                          [] OTHER -> "IDLE"])

-----------------------------------------------------------------------------
(* A word is sent as its low byte and its high byte, of which 4 bits count. *)
HighByteWhole(w) == w \div 256     \* faulty: the upper 4 bits are kept
LowByte(w)  == w % 256
HighByte(w) == (w \div 256) % 16

sdLEN      == (rk.cmd_reg \div 64) % 2
sdMEMaddr  == ((rk.cmd_reg \div 8) % 8) * 4096 + rk.car
sdDISKaddr == (rk.cmd_reg % 8) * 4096 + rk.dar

Command ==
  /\ At({"READ00", "WRITE00"})
  /\ sd' = [Go(IF At({"READ00"}) THEN "READ01" ELSE "WRITE01") EXCEPT
              !.sdSTATE = IF At({"READ00"}) THEN "READ" ELSE "WRITE",
              !.memADDR = sdMEMaddr, !.CS = 0]
  /\ card' = [sends |-> IF At({"READ00"}) THEN Image[sdDISKaddr] ELSE <<>>,
              sent |-> 0, got |-> <<>>]

Commanded(spiDONE) ==
  /\ At({"READ01", "WRITE01", "WRITE13"}) /\ spiDONE = 1
  /\ Moves(Go(CASE At({"READ01"}) -> "READ02"
                [] At({"WRITE01"}) -> "WRITE02"
                [] At({"WRITE13"}) -> "WRITE14"))

(* READ02 and READ03 report a failure and stay where they are; the writing *)
(* states go to RWFAIL.                                                    *)
Fail == Deselect(IF At({"READ02", "READ03"})
                 THEN [Ticked EXCEPT !.bytecnt = 0, !.sdSTATE = "RWFAIL"]
                 ELSE Go("RWFAIL"))

(* The state that should follow the answer. *)
Answered(spiRXD) ==
  CASE At({"READ02"}) /\ spiRXD = "00" -> Go("READ03")
    [] At({"READ03"}) /\ spiRXD = "fe" -> Go("READ04")
    [] At({"WRITE02"}) /\ spiRXD = "00" -> [Go("WRITE03") EXCEPT !.dmaRD = 1]
    [] At({"WRITE14"}) /\ spiRXD \in {"00", "01"} -> Go("WRITE15")
    [] OTHER -> Fail

(* An answer may be a number of ff away; READ02, READ03 and WRITE02 count  *)
(* from the one they send themselves.                                      *)
Limit == IF At({"READ03"}) THEN nAC ELSE nCR

Listen == Asks /\ Moves([Ticked EXCEPT !.bytecnt = 1])

Answer(spiDONE, spiRXD) ==
  /\ At({"READ02", "READ03", "WRITE02", "WRITE14"}) /\ ~Asks /\ spiDONE = 1
  /\ Moves(IF spiRXD # "ff" THEN Answered(spiRXD)
           ELSE IF sd.bytecnt = Limit THEN Fail
           ELSE [Ticked EXCEPT !.bytecnt = @ + 1])

-----------------------------------------------------------------------------
Next15(a) == (a + 1) % 32768

Granted ==
  /\ At({"READ04", "WRITE05"})
  /\ Moves([Ticked EXCEPT !.memREQ = 1, !.bytecnt = 0,
              !.state = IF rk.dmaGNT = 0 THEN sd.state
                        ELSE IF At({"READ04"}) THEN "READ05" ELSE "WRITE06"])

Byte == card.sends[(card.sent \div 2) + 1]

AtREAD05(spiDONE) ==
  /\ At({"READ05"}) /\ spiDONE = 1
  /\ sd' = [Ticked EXCEPT !.state = "READ06", !.bytecnt = @ + 1,
              !.dmaDOUT = 256 * HighByte(@) + LowByte(Byte)]
  /\ card' = [card EXCEPT !.sent = @ + 1]

AtREAD06(spiDONE) ==
  /\ At({"READ06"}) /\ spiDONE = 1
  /\ sd' = [Ticked EXCEPT !.state = "READ07",
              !.dmaDOUT = 256 * HighByte(Byte) + LowByte(@)]
  /\ card' = [card EXCEPT !.sent = @ + 1]

AtREAD07 == At({"READ07"}) /\ Moves([Ticked EXCEPT !.state = "READ08", !.dmaWR = sd.memREQ])

Finished == Deselect([Go("FINI") EXCEPT !.memREQ = 0])

(* Faulty: a half block is noticed one word late. *)
AfterReadLate ==
  CASE sd.abort = 1 -> Finished
    [] sd.abort = 0 /\ sd.bytecnt = (2 * Words) - 1
         -> [Go("READ09") EXCEPT !.memREQ = 0, !.memADDR = Next15(@)]
    [] sd.abort = 0 /\ sd.bytecnt \in (Words + 1)..((2 * Words) - 2) /\ sdLEN = 1
         -> [Ticked EXCEPT !.state = "READ05", !.bytecnt = @ + 1, !.memREQ = 0]
    [] OTHER -> [Ticked EXCEPT !.state = "READ05", !.bytecnt = @ + 1, !.memADDR = Next15(@)]

AfterRead ==
  CASE sd.abort = 1 -> Finished
    [] sd.abort = 0 /\ sd.bytecnt = (2 * Words) - 1
         -> [Go("READ09") EXCEPT !.memREQ = 0, !.memADDR = Next15(@)]
    [] sd.abort = 0 /\ sd.bytecnt \in (Words - 1)..((2 * Words) - 2) /\ sdLEN = 1
         -> [Ticked EXCEPT !.state = "READ05", !.bytecnt = @ + 1, !.memREQ = 0]
    [] OTHER -> [Ticked EXCEPT !.state = "READ05", !.bytecnt = @ + 1, !.memADDR = Next15(@)]

AtREAD08 == At({"READ08"}) /\ Moves(AfterRead)

AtREAD09(spiDONE) == At({"READ09"}) /\ spiDONE = 1 /\ Moves(Deselect(Go("FINI")))

-----------------------------------------------------------------------------
(* The first word is asked for in WRITE02, the others one pass ahead.      *)
AtWRITE03(spiDONE) == At({"WRITE03"}) /\ spiDONE = 1 /\ Moves(Go("WRITE04"))

(* Faulty: the address of the first word is used again.                    *)
AtWRITE04Still(spiDONE) ==
  /\ At({"WRITE04"}) /\ spiDONE = 1
  /\ Moves(Go("WRITE05"))

AtWRITE04(spiDONE) ==
  /\ At({"WRITE04"}) /\ spiDONE = 1
  /\ Moves([Go("WRITE05") EXCEPT !.memADDR = Next15(@)])

AtWRITE06 == At({"WRITE06"}) /\ Moves([Ticked EXCEPT !.state = "WRITE07", !.dmaRD = sd.memREQ])

ToCard(byte) == card' = [card EXCEPT !.got = Append(@, byte)]

AtWRITE07(dmaDIN) ==
  /\ At({"WRITE07"})
  /\ sd' = [Ticked EXCEPT !.state = "WRITE08", !.memADDR = Next15(@),
              !.memBUF = IF sd.memREQ = 1 THEN HighByte(dmaDIN) ELSE 0]
  /\ ToCard(IF sd.memREQ = 1 THEN LowByte(dmaDIN) ELSE 0)

AtWRITE08(spiDONE) ==
  /\ At({"WRITE08"}) /\ spiDONE = 1
  /\ sd' = [Ticked EXCEPT !.state = "WRITE09", !.bytecnt = @ + 1]
  /\ ToCard(sd.memBUF)

AfterWrite ==
  CASE sd.abort = 1 -> Finished
    [] sd.abort = 0 /\ sd.bytecnt = (2 * Words) - 3 -> [Go("WRITE10") EXCEPT !.memREQ = 0]
    [] sd.abort = 0 /\ sd.bytecnt = Words - 3 /\ sdLEN = 1
         -> [Ticked EXCEPT !.state = "WRITE06", !.bytecnt = @ + 1, !.memREQ = 0]
    [] OTHER -> [Ticked EXCEPT !.state = "WRITE06", !.bytecnt = @ + 1]

AtWRITE09(spiDONE) ==
  At({"WRITE09"}) /\ spiDONE = 1 /\ Moves(AfterWrite)

AtWRITE10(spiDONE) == At({"WRITE10"}) /\ spiDONE = 1 /\ Moves(Go("WRITE11"))

(* The response, the end of busy, and the two bytes of the status. *)
AtWRITE11(spiDONE, spiRXD) ==
  /\ At({"WRITE11"}) /\ spiDONE = 1
  /\ Moves(IF spiRXD = "05" THEN Go("WRITE12") ELSE Fail)

AtWRITE12(spiDONE, spiRXD) ==
  /\ At({"WRITE12"}) /\ spiDONE = 1
  /\ Moves(IF spiRXD # "00" THEN Go("WRITE13")
           ELSE IF sd.bytecnt = nBZ THEN Fail
           ELSE [Ticked EXCEPT !.bytecnt = @ + 1])

AtWRITE15(spiDONE, spiRXD) ==
  /\ At({"WRITE15"}) /\ spiDONE = 1
  /\ Moves(IF spiRXD = "00" THEN Go("WRITE16") ELSE Fail)

AtWRITE16(spiDONE) == At({"WRITE16"}) /\ spiDONE = 1 /\ Moves(Deselect(Go("FINI")))

-----------------------------------------------------------------------------
AtFINI(spiDONE) == At({"FINI"}) /\ spiDONE = 1 /\ Moves(Go("DONE"))
AtDONE   == At({"DONE"}) /\ Moves([Ticked EXCEPT !.state = "IDLE", !.sdSTATE = "DONE"])
AtRWFAIL == At({"RWFAIL"}) /\ Moves([Ticked EXCEPT !.sdSTATE = "RWFAIL"])

SDEdge(spiDONE, spiRXD, dmaDIN) ==
  \/ Exchanging(spiDONE)
  \/ AtIDLE
  \/ Command
  \/ Commanded(spiDONE)
  \/ Listen
  \/ Answer(spiDONE, spiRXD)
  \/ Granted
  \/ AtREAD05(spiDONE)
  \/ AtREAD06(spiDONE)
  \/ AtREAD07
  \/ AtREAD08
  \/ AtREAD09(spiDONE)
  \/ AtWRITE03(spiDONE)
  \/ AtWRITE04(spiDONE)
  \/ AtWRITE06
  \/ AtWRITE07(dmaDIN)
  \/ AtWRITE08(spiDONE)
  \/ AtWRITE09(spiDONE)
  \/ AtWRITE10(spiDONE)
  \/ AtWRITE11(spiDONE, spiRXD)
  \/ AtWRITE12(spiDONE, spiRXD)
  \/ AtWRITE15(spiDONE, spiRXD)
  \/ AtWRITE16(spiDONE)
  \/ AtFINI(spiDONE)
  \/ AtDONE
  \/ AtRWFAIL
=============================================================================
