------------------------------ MODULE PalPages ------------------------------
(***************************************************************************)
(* sd_debug/palbart.c: where the assembler goes on, and what becomes of    *)
(* the literals it leaves behind: origins, PAGE, FIELD, SEGMNT, RELOC, the *)
(* two modes of punching, the ends of a pass and of a tape.  Arguments     *)
(* have been evaluated (PalExpr, PalPseudo).                               *)
(***************************************************************************)
EXTENDS PalPunch

VARIABLE asm    \* the globals of the assembler

(* punchOrigin is left out in RIM mode, where every word has its origin. *)
OriginUnlessRim(a) == IF a.rim_mode THEN a ELSE punchOrigin(a, a.clc)

(* The head of onePass. *)
BeginPass(a) ==
  OriginUnlessRim(clearLiteralTable([a EXCEPT !.clc = \o200, !.field = 0, !.reloc = 0,
                                              !.radix = 8, !.at = "line"]))

(* The end of pass 2; what NOPUNCH turned off is on again. *)
CloseTape(a) == punchLeader(punchChecksum([a EXCEPT !.objectfile = TRUE]), TrailerFrames)

(* BINPUNCH drops the literals of the RIM segment; RIMPUNCH punches those  *)
(* of the BIN segment.                                                     *)
Binpunch(a) ==
  LET c == punchLeader(clearLiteralTable(a), TrailerFrames)
      b == IF a.binary_data_output /\ a.rim_mode
           THEN [c EXCEPT !.checksum = 0, !.binary_data_output = FALSE] ELSE a
  IN [b EXCEPT !.rim_mode = FALSE]

Rimpunch(a) ==
  LET ended == punchLeader(punchChecksum(clearLiteralTable(endOfBinary(a))), TrailerFrames)
      b == IF a.binary_data_output /\ ~a.rim_mode THEN ended ELSE a
  IN [b EXCEPT !.rim_mode = TRUE]

-----------------------------------------------------------------------------
(* An origin: another page leaves the literals of this one behind. *)
LeavePage(a, newclc) ==
  IF GET_PAGE_INDEX(newclc) # GET_PAGE_INDEX(a.clc) THEN punchLiteralPool(a, FALSE) ELSE a

GoTo(a, newclc) ==
  OriginUnlessRim([LeavePage(a, newclc) EXCEPT !.clc = newclc - a.reloc])

(* Faulty: any number is a field. *)
ChangeFieldUnchecked(a, newfield) ==
  IF a.rim_mode THEN errorMessage(a, "in_rim_mode") ELSE FieldFrame(a, newfield)

ChangeField(a, newfield) ==
  CASE a.rim_mode -> errorMessage(a, "in_rim_mode")
    [] ~a.rim_mode /\ newfield \notin 0..7 -> errorMessage(a, "illegal_field_value")
    [] OTHER -> FieldFrame(a, newfield)

StartField(a) == clearLiteralTable(OriginUnlessRim([a EXCEPT !.clc = \o200 + a.field]))

(* PAGE: the start of the next page, or of a page of the field. *)
NextPage(a) ==
  [a EXCEPT !.clc = ((((@ + a.reloc + \o177) \div PAGE_SIZE) * PAGE_SIZE) % 32768) - a.reloc]
PageOfField(a, val) == [a EXCEPT !.clc = a.field + PAGE_SIZE * (val % 32) - a.reloc]

OriginIfMoved(a, oldclc) == IF a.clc = oldclc THEN a ELSE OriginUnlessRim(a)

StartPage(a, oldclc) == OriginIfMoved(testForLiteralCollision(a, a.clc + a.reloc), oldclc)

(* SEGMNT: an argument is evaluated, but the segment is taken from the     *)
(* number of the pseudo-op, 21: always the second.                         *)
SEGMNT == 21

SegmentAfter(a) == [a EXCEPT !.clc = ((@ % 4096) \div \o2000) * \o2000 + \o2000]
SegmentOfOp(a) == [a EXCEPT !.clc = \o2000 * (SEGMNT % 4)]
StartSegment(a) == testForLiteralCollision(OriginUnlessRim(a), a.clc)

RelocatedTo(a, val) == [a EXCEPT !.reloc = (val % 4096) - FieldLc(a)]
NotRelocated(a) == [a EXCEPT !.reloc = 0]

-----------------------------------------------------------------------------
(* Code and literals share a page from its two ends: while no error has    *)
(* been reported, the highest word of code assembled on any page since its *)
(* pool was cleared is below the lowest literal of the pool, whichever of  *)
(* the two grew last (palbart.c:2605-2634, 3065-3097).                     *)
PoolsApart ==
  asm.pass = 2 /\ asm.errors = 0 =>
    \A page \in 0..(MAX_PAGES - 1) : asm.max_page_used[page] < PoolLoc(asm.cp[page])
=============================================================================
