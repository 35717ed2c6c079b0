------------------------------ MODULE PalPunch ------------------------------
(***************************************************************************)
(* sd_debug/palbart.c: the object tape, the rows of the listing that show  *)
(* a word, the literal pools and the location counter.                     *)
(*                                                                         *)
(* A pool is the sequence of its literals from location 0177 downwards, so *)
(* cp[i].loc is 0200 less its length; cp[i].last_punched is 0200 less      *)
(* "punched".  The checksum is kept modulo 4096, all that is ever punched  *)
(* of it.  Frames of leader and trailer are scaled down by LeaderFrames    *)
(* and TrailerFrames (240 and 8 in the code).                              *)
(***************************************************************************)
EXTENDS PalSymbols, FiniteSets, SequencesExt

CONSTANTS LeaderFrames, TrailerFrames
ASSUME FrameCounts == LeaderFrames \in Nat \ {0} /\ TrailerFrames \in Nat \ {0}

PAGE_SIZE == 128
MAX_PAGES == 32

GET_PAGE_INDEX(x) == (x \div PAGE_SIZE) % MAX_PAGES
InPage(x) == x % PAGE_SIZE
PageOf(x) == ((x \div PAGE_SIZE) * PAGE_SIZE) % 4096      \* x & 07600
FieldLc(a) == a.clc % 4096                                \* fieldlc
FieldBits(x) == ((x \div 4096) % 8) * 4096                \* x & 070000

(* x | y, for an x of at most 16 bits; y may be negative. *)
Bit16(x, i) == (x \div 2^i) % 2
OrBits(x, y) ==
  FoldLeft(LAMBDA z, i : IF Bit16(x, i) > Bit16(y, i) THEN z + 2^i ELSE z, y,
           [i \in 1..16 |-> i - 1])

NoOperand == -1

-----------------------------------------------------------------------------
punchObject(a, val) ==
  [a EXCEPT !.tape = IF a.objectfile THEN Append(@, val % 256) ELSE @,
            !.checksum = IF a.objectfile THEN (@ + (val % 256)) % 4096 ELSE @,
            !.binary_data_output = TRUE]

punchLeader(a, count) ==
  IF a.objectfile THEN [a EXCEPT !.tape = @ \o [i \in 1..count |-> \o200]] ELSE a

punchPair(a, hi, lo) == punchObject(punchObject(a, hi), lo)

punchOrigin(a, loc) == punchPair(a, ((loc \div 64) % 64) + \o100, loc % 64)

punchLocObject(a, loc, val) ==
  punchPair(IF a.rim_mode THEN punchOrigin(a, loc) ELSE a, (val \div 64) % 64, val % 64)

punchChecksum(a) ==
  LET p == IF a.binary_data_output /\ ~a.rim_mode
           THEN punchLocObject(a, 0, a.checksum) ELSE a
  IN [p EXCEPT !.binary_data_output = FALSE, !.checksum = 0]

(* Faulty: the checksum counts the frame. *)
FieldFrameSummed(a, newfield) ==
  [punchObject(a, 8 * newfield + \o300) EXCEPT !.field = 4096 * newfield]

(* FIELD: the pools of the field are punched, then the frame that changes  *)
(* the field, which the checksum leaves out.                               *)
FieldFrame(a, newfield) ==
  LET frame == 8 * newfield + \o300
      p == punchObject(a, frame)
  IN [p EXCEPT !.checksum = IF a.objectfile THEN (@ - frame) % 4096 ELSE @,
               !.field = 4096 * newfield]

-----------------------------------------------------------------------------
(* printLine: a row LOC_VAL or LINE_LOC_VAL shows the location and the     *)
(* word.  "operand" is no part of the row: it keeps the address a memory   *)
(* reference was assembled from, for the properties.                       *)
printLine(a, kind, loc, val, operand) ==
  IF ~a.listfile THEN a
  ELSE [a EXCEPT !.listing = Append(@, [kind |-> kind, loc |-> loc, val |-> val,
                                        reloc |-> a.reloc, operand |-> operand,
                                        punched |-> a.objectfile])]

punchOutObject(a, loc, val, operand) ==
  punchLocObject(
    printLine(a, "LINE_LOC_VAL", OrBits(a.field, loc) + a.reloc, val, operand), loc, val)

-----------------------------------------------------------------------------
PoolLoc(p) == PAGE_SIZE - Len(p.pool)
EmptyPool  == [pool |-> <<>>, punched |-> 0]

clearLiteralTable(a) == [a EXCEPT !.cp = [i \in 0..(MAX_PAGES - 1) |-> EmptyPool],
                                  !.max_page_used = [i \in 0..(MAX_PAGES - 1) |-> 0]]

Overflow(page) == IF page % 16 = 0 THEN "pz_literal_overflow" ELSE "literal_overflow"

(* The literal is found in the pool or added below it; ix is its location. *)
insertLiteral(a, value, page) ==
  LET p == a.cp[page]
      here == {i \in DOMAIN p.pool : p.pool[i] = value}
      first == CHOOSE i \in here : \A j \in here : i <= j
      ix == PoolLoc(p) - 1
      added == [a EXCEPT !.cp[page].pool = Append(@, value)]
  IN IF here # {} THEN [a |-> a, ix |-> PAGE_SIZE - first]
     ELSE [a |-> IF a.max_page_used[page] >= ix
                 THEN errorMessage(added, Overflow(page)) ELSE added,
           ix |-> ix]

PoolStart(a, page) == page * PAGE_SIZE + PoolLoc(a.cp[page])

(* One literal of the pool of a page, the i-th from its lowest location. *)
punchLiteral(a, page, i) ==
  LET p == a.cp[page]
      loc == PoolStart(a, page) + i
      val == p.pool[Len(p.pool) - i]
  IN punchLocObject(printLine(a, "LOC_VAL", OrBits(a.field, loc), val, NoOperand), loc, val)

(* The literals of one page not punched so far, lowest location first. *)
punchPage(a, page) ==
  LET p == a.cp[page]
      origin == IF a.rim_mode THEN a ELSE punchOrigin(a, PoolStart(a, page))
      words == [i \in 1..(Len(p.pool) - p.punched) |-> i - 1]
  IN [FoldLeft(LAMBDA b, i : punchLiteral(b, page, i), origin, words)
        EXCEPT !.cp[page].punched = Len(p.pool)]

PagesDown == [i \in 1..MAX_PAGES |-> MAX_PAGES - i]

(* Faulty: a pool is punched once, whatever is added to it later. *)
punchPageOnce(a, page, punch_page0) ==
  IF Len(a.cp[page].pool) # 0 /\ a.cp[page].punched = 0 /\ (punch_page0 \/ page # 0)
  THEN punchPage(a, page) ELSE a
punchPoolOnce(a, punch_page0) ==
  FoldLeft(LAMBDA b, page : punchPageOnce(b, page, punch_page0), a, PagesDown)

punchPending(a, page, punch_page0) ==
  IF Len(a.cp[page].pool) # a.cp[page].punched /\ (punch_page0 \/ page # 0)
  THEN punchPage(a, page) ELSE a

punchLiteralPool(a, punch_page0) ==
  FoldLeft(LAMBDA b, page : punchPending(b, page, punch_page0), a, PagesDown)

endOfBinary(a) ==
  LET p == punchLiteralPool(a, TRUE) IN
  IF p.error_in_line THEN errorMessage(p, "end_of_file") ELSE p

-----------------------------------------------------------------------------
(* Faulty: the location is noted, not compared with the pool. *)
testForNothing(a, loc) ==
  [a EXCEPT !.max_page_used[GET_PAGE_INDEX(loc)] =
     IF InPage(loc) > @ THEN InPage(loc) ELSE @]

testForLiteralCollision(a, loc) ==
  LET page == GET_PAGE_INDEX(loc)
      pagelc == InPage(loc)
      used == [a EXCEPT !.max_page_used[page] = IF pagelc > @ THEN pagelc ELSE @]
  IN IF pagelc >= PoolLoc(a.cp[page])
     THEN errorMessage(used, IF PageOf(loc) = 0 THEN "pz_literal_overflow"
                                                ELSE "literal_overflow")
     ELSE used

incrementClc(a) ==
  [testForLiteralCollision(a, a.clc) EXCEPT !.clc = FieldBits(@) + ((@ + 1) % 4096)]

(* Punch a word at the location counter and step it. *)
PunchNext(a, val, operand) == incrementClc(punchOutObject(a, a.clc, val, operand))

PunchAll(a, words) ==
  FoldLeft(LAMBDA b, w : PunchNext(b, w, NoOperand), a, words)
=============================================================================
