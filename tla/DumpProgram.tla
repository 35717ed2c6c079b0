---------------------------- MODULE DumpProgram ----------------------------
(***************************************************************************)
(* The programs that drive disk and console: sd_debug/dumprk05.pal, which  *)
(* sends a whole disk to the console, and sd_debug/write_sector.pal.  A    *)
(* program stands at its next IOT, pc; Advance is what it does from there  *)
(* to the following one.  ERRCN2, a count that is only displayed, is left  *)
(* out; DRIVE is 0.                                                        *)
(***************************************************************************)
EXTENDS Integers, Sequences

CONSTANTS BLOCK,       \* words of a sector (256)
          TRACKSIZE,   \* tracks before EXBIT counts (4096)
          MAXTRK,      \* the last track with EXBIT 1 (04537)
          RETCNT,      \* retries (0200)
          Jobs         \* what write_sector may be set up for

ASSUME BlockAssumption == BLOCK \in Nat \ {0} /\ BLOCK % 2 = 0
ASSUME TracksAssumption == TRACKSIZE \in 1..4096 /\ MAXTRK \in 0..2399 /\ MAXTRK < TRACKSIZE
ASSUME RetriesAssumption == RETCNT \in Nat

(* A word is sent in one and a half characters.                            *)
Low(w)  == w % 256
High(w) == w \div 16
Mid(first, second) == (first \div 256) + 16 * (second % 16)

Negated(w) == (4096 - w) % 4096

Buffer == 512

(* Faulty: one buffer for everything.                                      *)
OneBuffer(b) == b

OtherBuffer(b) == 1280 - b     \* ((b + 0400) AND 0400) + 01000

Dump == [pc |-> "CAF", what |-> "-", EXBIT |-> 0, TRACK |-> 0,
         CURBUF |-> Buffer, LSTBUF |-> Buffer, READST |-> 255, ERRCNT |-> 0, CHKSUM |-> 0,
         LOC |-> 0, back |-> "-", then |-> "-",
         job |-> [curent |-> 0, command |-> 0, track |-> 0]]

(* write_sector.pal: the IOTs of its standard sequence, for one job.       *)
WriteSector(job) == [Dump EXCEPT !.pc = "W1", !.job = job]

Halted(p) == p.pc \in {"FINISH", "BADSTA", "W-error", "W-finished"}

IOTOf(p) ==
  CASE p.pc \in {"RC1", "RC3", "RD1", "W1"} -> "DCLR"
    [] p.pc \in {"RC2", "RC5", "RD3", "W3"} -> "DLDC"
    [] p.pc \in {"RC4", "RC6", "CK1", "W5"} -> "DSKP"
    [] p.pc \in {"RC7", "CK2", "CK3", "W6"} -> "DRST"
    [] p.pc \in {"RD2", "W2"} -> "DLCA"
    [] p.pc \in {"RD4", "W4"} -> "DLAG"
    [] OTHER -> p.pc                     \* CAF, TLS, TSF

(* What PUN is called with.                                                *)
Char(p, mem) ==
  CASE p.what = "flag"    -> p.READST
    [] p.what = "low"     -> Low(mem[p.LSTBUF + p.LOC])
    [] p.what = "mid"     -> Mid(mem[p.LSTBUF + p.LOC], mem[p.LSTBUF + p.LOC + 1])
    [] p.what = "high"    -> High(mem[p.LSTBUF + p.LOC + 1])
    [] p.what = "fe"      -> 254
    [] p.what = "sum"     -> Low(Negated(p.CHKSUM))
    [] p.what = "sumhigh" -> Negated(p.CHKSUM) \div 256

ACOf(p, mem) ==
  CASE p.pc \in {"RC1", "RD1", "W1"} -> 1
    [] p.pc = "RC2" -> 0
    [] p.pc = "RC3" -> 2
    [] p.pc = "RC5" -> 128
    [] p.pc = "RD2" -> p.CURBUF
    [] p.pc = "RD3" -> p.EXBIT
    [] p.pc = "RD4" -> p.TRACK
    [] p.pc = "W2"  -> p.job.curent
    [] p.pc = "W3"  -> p.job.command
    [] p.pc = "W4"  -> p.job.track
    [] p.pc = "TLS" -> Char(p, mem)
    [] OTHER -> 0

-----------------------------------------------------------------------------
GoTo(p, pc) == [p EXCEPT !.pc = pc]

(* JMS RECAL and where it returns to; JMS READ; JMS PUN.                   *)
RECAL(p, back) == [p EXCEPT !.pc = "RC1", !.back = back]
READ(p, then)  == [p EXCEPT !.pc = "RD1", !.then = then]
PUN(p, what)   == [p EXCEPT !.pc = "TLS", !.what = what]

(* SEND starts a sector with its flag; OUT adds both words of a pair to    *)
(* the checksum.                                                           *)
SEND(p, then) == PUN([p EXCEPT !.LOC = 0, !.then = then], "flag")

OUT(p, mem) ==
  PUN([p EXCEPT !.CHKSUM = (@ + mem[p.LSTBUF + p.LOC] + mem[p.LSTBUF + p.LOC + 1]) % 4096],
      "low")

Sent(p, mem) ==
  CASE p.what = "flag" -> OUT(p, mem)
    [] p.what = "low"  -> PUN(p, "mid")
    [] p.what = "mid"  -> PUN(p, "high")
    [] p.what = "high" /\ p.LOC + 2 < BLOCK -> OUT([p EXCEPT !.LOC = @ + 2], mem)
    [] p.what = "high" /\ p.LOC + 2 = BLOCK /\ p.then = "DMPLP" -> GoTo(p, "CK1")
    [] p.what = "high" /\ p.LOC + 2 = BLOCK /\ p.then = "LAST"  -> PUN(p, "fe")
    [] p.what = "fe"  -> PUN(p, "sum")
    [] p.what = "sum" -> PUN(p, "sumhigh")
    [] p.what = "sumhigh" -> GoTo(p, "FINISH")

LastTrack(p) == p.EXBIT # 0 /\ p.TRACK = MAXTRK

INCTRK(p) == [p EXCEPT !.TRACK = (@ + 1) % TRACKSIZE,
                       !.EXBIT = IF p.TRACK + 1 = TRACKSIZE THEN @ + 1 ELSE @]

(* A sector is in: the next one is read into the other buffer while this   *)
(* one is sent.                                                            *)
Filled(p) ==
  LET q == [p EXCEPT !.LSTBUF = p.CURBUF, !.ERRCNT = Negated(RETCNT + 1)]
  IN IF LastTrack(p) THEN SEND(q, "LAST")
     ELSE READ([INCTRK(q) EXCEPT !.CURBUF = OtherBuffer(@)], "SEND")

(* CHKRD has read the status: retry after a recalibration, or give the     *)
(* sector up.                                                              *)
ERROR(p) == LET q == [p EXCEPT !.ERRCNT = (@ + 1) % 4096]
            IN IF q.ERRCNT = 0 THEN GoTo(q, "CK3") ELSE RECAL(q, "DUMP")

Recalibrated(p) ==
  CASE p.back = "DUMP"  -> READ(p, "DMPLP")
    [] p.back = "CHKRD" -> Filled([p EXCEPT !.READST = 253])

Sequence == [CAF |-> "RC1", RC1 |-> "RC2", RC2 |-> "RC3", RC3 |-> "RC4", RC4 |-> "RC5",
             RC5 |-> "RC6", RC6 |-> "RC7", RD1 |-> "RD2", RD2 |-> "RD3", RD3 |-> "RD4",
             CK1 |-> "CK2", W1 |-> "W2", W2 |-> "W3", W3 |-> "W4", W4 |-> "W5", W5 |-> "W6"]

(* skip and disk_bus are what the IOT has answered.                        *)
Advance(p, skip, disk_bus, mem) ==
  CASE p.pc \in {"RC4", "RC6", "CK1", "W5", "TSF"} /\ skip = 0 -> p
    [] p.pc = "CAF" -> RECAL([p EXCEPT !.ERRCNT = Negated(RETCNT + 1)], "DUMP")
    [] p.pc = "RC7" -> IF disk_bus = {"done"} THEN Recalibrated(p) ELSE GoTo(p, "BADSTA")
    [] p.pc = "RD4" -> IF p.then = "SEND" THEN SEND(p, "DMPLP") ELSE GoTo(p, "CK1")
    [] p.pc = "CK2" -> LET q == [p EXCEPT !.READST = 255]
                       IN IF disk_bus = {"done"} THEN Filled(q) ELSE ERROR(q)
    [] p.pc = "CK3" -> RECAL(p, "CHKRD")
    [] p.pc = "TLS" -> GoTo(p, "TSF")
    [] p.pc = "TSF" /\ skip = 1 -> Sent(p, mem)
    [] p.pc = "W6"  -> GoTo(p, IF disk_bus = {"done"} THEN "W-finished" ELSE "W-error")
    [] OTHER -> GoTo(p, Sequence[p.pc])
=============================================================================
