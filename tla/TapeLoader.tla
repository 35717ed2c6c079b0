----------------------------- MODULE TapeLoader -----------------------------
(***************************************************************************)
(* mem_gen/: the loaders of pdp8_sys.c, a frame at a time; mem_gen.c and   *)
(* mem_gen_bin.c, which print what they loaded; mem_merge.c; and           *)
(* FPGA_image/Test_SW/rim.c, which makes a RIM tape from a table.          *)
(*                                                                         *)
(* A memory is the function of the addresses stored so far; every other    *)
(* word is zero.  On the tapes loaded the low half of a word has six bits. *)
(***************************************************************************)
EXTENDS Integers, Sequences, SequencesExt

(* The words of core in mem_gen.c, and in mem_gen_bin.c. *)
RIM_CORE == 4096
BIN_CORE == 8192

WordAt(core, k) == IF k \in DOMAIN core THEN core[k] ELSE 0
Stored(core, k, wd) == [j \in DOMAIN core \cup {k} |-> IF j = k THEN wd ELSE core[j]]

Loader == [st |-> "leader", hi |-> 0, lo |-> 0, csum |-> 0, origin |-> 0, field |-> 0,
           newf |-> 0, rubout |-> FALSE, core |-> [k \in {} |-> 0], status |-> "FMT"]

IsLeader(c) == c = 0 \/ c >= \o200
Loading(l) == l.st # "end"

-----------------------------------------------------------------------------
(* sim_load_rim: origin and data words alternate as they come. *)
RimWord(l) ==
  LET wd == 64 * l.hi + l.lo IN
  IF wd > \o7777 THEN [l EXCEPT !.origin = wd % 4096]
  ELSE [l EXCEPT !.core = Stored(@, l.origin % 4096, wd), !.origin = @ + 1]

RimFrame(l, c) ==
  CASE ~Loading(l) \/ (l.st = "leader" /\ IsLeader(c)) -> l
    [] l.st = "leader" /\ ~IsLeader(c) -> [l EXCEPT !.origin = \o200, !.hi = c, !.st = "lo"]
    [] l.st = "lo" -> [RimWord([l EXCEPT !.lo = c]) EXCEPT !.st = "hi"]
    [] l.st = "hi" /\ c >= \o200 -> [l EXCEPT !.st = "end", !.status = "OK"]
    [] l.st = "hi" /\ c < \o200 -> [l EXCEPT !.hi = c, !.st = "lo"]

sim_load_rim(tape) == FoldLeft(RimFrame, Loader, tape)

-----------------------------------------------------------------------------
(* Faulty: the field changes before the word that preceded it is stored. *)
BinWordLate(l) ==
  LET wd == 64 * l.hi + l.lo
      summed == [l EXCEPT !.csum = @ + l.hi + l.lo, !.field = l.newf]
  IN IF wd > \o7777 THEN [summed EXCEPT !.origin = wd % 4096]
     ELSE [summed EXCEPT !.core = Stored(@, l.newf + l.origin, wd), !.origin = (@ + 1) % 4096]

(* sim_load_bin looks one character ahead: a word followed by the trailer  *)
(* is the checksum, and a change of field met before the next character    *)
(* takes effect after this word.                                           *)
BinWord(l) ==
  LET wd == 64 * l.hi + l.lo
      at == l.field + l.origin
      summed == [l EXCEPT !.csum = @ + l.hi + l.lo, !.field = l.newf]
  IN IF wd > \o7777 THEN [summed EXCEPT !.origin = wd % 4096]
     ELSE [summed EXCEPT !.core = Stored(@, at, wd), !.origin = (@ + 1) % 4096]

BinChecksum(l) == IF (l.csum - (64 * l.hi + l.lo)) % 4096 = 0 THEN "OK" ELSE "CSUM"

BinChar(l, c) ==
  CASE l.st = "leader" /\ IsLeader(c) -> l
    [] l.st = "leader" /\ ~IsLeader(c)
         -> [l EXCEPT !.hi = c, !.st = "lo", !.csum = 0, !.origin = 0, !.field = 0, !.newf = 0]
    [] l.st = "lo" -> [l EXCEPT !.lo = c, !.st = "hi"]
    [] l.st = "hi" /\ c = \o200 -> [l EXCEPT !.st = "end", !.status = BinChecksum(l)]
    [] l.st = "hi" /\ c # \o200 -> [BinWord(l) EXCEPT !.hi = c, !.st = "lo"]

(* sim_bin_getc: a rubout hides the next character; a character above the  *)
(* leader's is a change of field.                                          *)
BinFrame(l, c) ==
  CASE ~Loading(l) -> l
    [] Loading(l) /\ l.rubout -> [l EXCEPT !.rubout = FALSE]
    [] Loading(l) /\ ~l.rubout /\ c = \o377 -> [l EXCEPT !.rubout = TRUE]
    [] Loading(l) /\ ~l.rubout /\ c \in (\o200 + 1)..(\o377 - 1)
         -> [l EXCEPT !.newf = 4096 * ((c \div 8) % 8)]
    [] OTHER -> BinChar(l, c)

sim_load_bin(tape) == FoldLeft(BinFrame, Loader, tape)

-----------------------------------------------------------------------------
(* main of the two generators: the status is not looked at, the words of   *)
(* core are printed.                                                       *)
Image(l, size) == [k \in DOMAIN l.core \cap 0..(size - 1) |-> l.core[k]]

mem_gen(tape)     == Image(sim_load_rim(tape), RIM_CORE)
mem_gen_bin(tape) == Image(sim_load_bin(tape), BIN_CORE)

(* mem_merge: the first 4096 words of two images, or a collision. *)
Locations == 0..4095

Collisions(in1, in2) == {k \in Locations \cap DOMAIN in1 \cap DOMAIN in2 :
                           in1[k] # 0 /\ in2[k] # 0}

(* Faulty: a word of the second file replaces one of the first. *)
MergedSecond(in1, in2) == [k \in Locations \cap (DOMAIN in1 \cup DOMAIN in2) |->
                            IF k \in DOMAIN in2 THEN in2[k] ELSE in1[k]]

Merged(in1, in2) == [k \in Locations \cap (DOMAIN in1 \cup DOMAIN in2) |->
                       IF WordAt(in1, k) = 0 THEN WordAt(in2, k) ELSE WordAt(in1, k)]

(* rim.c: four frames for each address and word of the table. *)
RimEntry(addr, data) ==
  <<((addr \div 64) % 64) + \o100, addr % 64, (data \div 64) % 64, data % 64>>

RimFrames(table) == FlattenSeq([i \in DOMAIN table |-> RimEntry(table[i][1], table[i][2])])
=============================================================================
