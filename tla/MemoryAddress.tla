--------------------------- MODULE MemoryAddress ---------------------------
(***************************************************************************)
(* The memory address module (ma/ma.v) with its memory (ram/ram.v), in the *)
(* states of a stopped machine: F0, the keys' cycle HW to H3 and the data  *)
(* break DB0 to DB2.  write_en raised on one edge makes the RAM write on   *)
(* the next, at the address and with the data of that moment.              *)
(***************************************************************************)
EXTENDS Opcodes

CONSTANTS Fields,   \* the fields that hold memory (MAX_ADDRESS)
          Size      \* the words of a field: 4096 in the machine

VARIABLES eaddr,       \* the address, [f |-> field, w |-> word]
          pc, mdin, write_en, mdout, mem2disk,
          memory,      \* the RAM, and mdtmp, its registered output
          mdtmp

VARIABLE IF_   \* driven by mem_ext.v

maVars == <<eaddr, pc, mdin, write_en, mdout, mem2disk, memory, mdtmp>>

Cell == [f : Field, w : 0..(Size - 1)]
Populated == [f : Fields, w : 0..(Size - 1)]

MATypeOK == /\ eaddr \in Cell
            /\ pc \in 0..(Size - 1)
            /\ mdin \in Word /\ mdout \in Word /\ mem2disk \in Word /\ mdtmp \in Word
            /\ write_en \in Bit
            /\ memory \in [Populated -> Word]

(* Reset leaves pc, mdout and the RAM alone; a running clock settles them. *)
MAInit == /\ eaddr = [f |-> 0, w |-> 0] /\ pc = 0
          /\ mdin = 0 /\ write_en = 0 /\ mem2disk = 0
          /\ memory = [c \in Populated |-> 0] /\ mdtmp = 0 /\ mdout = 0

(* Faulty: the address does not wrap. *)
Next13(w) == w + 1

Next12(w) == (w + 1) % Size

(* The RAM: an edge with write_en up writes, any other reads.  A write     *)
(* beyond the array is dropped.  Both select the word with fourteen bits   *)
(* of the address (addr[13:0]): with more than four fields, fields 4 to 7  *)
(* are the words of fields 0 to 3.  A read beyond the array is undefined:  *)
(* 0, or some word of the array.                                           *)
Selected == [eaddr EXCEPT !.f = @ % 4]

Read == IF Selected \in Populated THEN {memory[Selected]}
        ELSE {0} \cup {memory[c] : c \in Populated}

Written == IF eaddr \in Populated THEN [memory EXCEPT ![Selected] = mdin] ELSE memory

RAM == \/ write_en = 1 /\ memory' = Written /\ UNCHANGED mdtmp
       \/ write_en = 0 /\ mdtmp' \in Read /\ UNCHANGED memory

-----------------------------------------------------------------------------
(* Faulty: a spinning F0 does not refresh the display. *)
MAAtF0Stale(data_break, dmaAddr, disk2mem) ==
  /\ pc' = eaddr.w
  /\ IF data_break = 1 THEN eaddr' = dmaAddr /\ mdin' = disk2mem
                       ELSE UNCHANGED <<eaddr, mdin>>
  /\ write_en' = 0
  /\ UNCHANGED <<mem2disk, mdout>>
  /\ RAM

(* F0: pc follows the address; a data break takes the address and the data *)
(* of the disk.                                                            *)
MAAtF0(data_break, dmaAddr, disk2mem) ==
  /\ pc' = eaddr.w
  /\ mdout' = mdtmp
  /\ IF data_break = 1 THEN eaddr' = dmaAddr /\ mdin' = disk2mem
                       ELSE UNCHANGED <<eaddr, mdin>>
  /\ write_en' = 0
  /\ UNCHANGED mem2disk
  /\ RAM

MAIdle == /\ write_en' = 0
          /\ UNCHANGED <<eaddr, pc, mdin, mdout, mem2disk>>
          /\ RAM

MAAtHW == /\ mdout' = mdtmp
          /\ write_en' = 0
          /\ UNCHANGED <<eaddr, pc, mdin, mem2disk>>
          /\ RAM

(* H1: ADDR LOAD takes the word address (SW up: the last word), DEP writes *)
(* the switches, EXTD ADDR LOAD takes the field; one of them, in this      *)
(* order.                                                                  *)
MAAtH1(asserted, sr, sw) ==
  /\ \/ /\ "addr_load" \in asserted
        /\ eaddr' = [eaddr EXCEPT !.w = IF sw = 1 THEN Size - 1 ELSE sr % Size]
        /\ write_en' = 0 /\ UNCHANGED mdin
     \/ /\ "addr_load" \notin asserted /\ "dep" \in asserted
        /\ mdin' = sr /\ write_en' = 1 /\ UNCHANGED eaddr
     \/ /\ asserted \cap {"addr_load", "dep"} = {} /\ "extd_addr" \in asserted
        /\ eaddr' = [eaddr EXCEPT !.f = Mid(sr)]
        /\ write_en' = 0 /\ UNCHANGED mdin
     \/ /\ asserted \cap {"addr_load", "dep", "extd_addr"} = {}
        /\ write_en' = 0 /\ UNCHANGED <<eaddr, mdin>>
  /\ UNCHANGED <<pc, mdout, mem2disk>>
  /\ RAM

(* H2: DEP and EXAM move on to the next word. *)
MAAtH2(asserted) ==
  /\ eaddr' = IF asserted \cap {"dep", "exam"} # {}
              THEN [eaddr EXCEPT !.w = Next12(@)] ELSE eaddr
  /\ write_en' = 0
  /\ UNCHANGED <<pc, mdin, mdout, mem2disk>>
  /\ RAM

-----------------------------------------------------------------------------
(* The data break, DB0 being idle.  DB2 gives the address back. *)
MAAtDB1(to_disk, disk2mem) ==
  /\ mdin' = disk2mem
  /\ write_en' = IF to_disk = 0 THEN 1 ELSE 0
  /\ UNCHANGED <<eaddr, pc, mdout, mem2disk>>
  /\ RAM

(* Faulty: the word sent is the one on display. *)
MAAtDB2Display(to_disk) ==
  /\ mem2disk' = IF to_disk = 1 THEN mdout ELSE mem2disk
  /\ eaddr' = [f |-> IF_, w |-> pc]
  /\ write_en' = 0
  /\ UNCHANGED <<pc, mdin, mdout>>
  /\ RAM

MAAtDB2(to_disk) ==
  /\ mem2disk' = IF to_disk = 1 THEN mdtmp ELSE mem2disk
  /\ eaddr' = [f |-> IF_, w |-> pc]
  /\ write_en' = 0
  /\ UNCHANGED <<pc, mdin, mdout>>
  /\ RAM
=============================================================================
