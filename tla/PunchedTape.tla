---------------------------- MODULE PunchedTape ----------------------------
(***************************************************************************)
(* A BIN tape from palbart's punch to the loader of pdp8_sys.c.  palbart   *)
(* punches, in any order, whatever a source can make it punch: origins,    *)
(* words, changes of field, and, between NOPUNCH and ENPUNCH, nothing.     *)
(* The loader reads each frame as it is punched, which is what it makes of *)
(* the finished tape, since it never goes back.                            *)
(***************************************************************************)
EXTENDS PalPunch, TapeLoader

VARIABLES punch,     \* of the assembler's record, what punching uses
          reader,    \* the loader
          written,   \* the memory that was punched: field and location to word
          at         \* the field and location of the next word on the tape

tapeVars == <<punch, reader, written, at>>

(* The leader has been punched, and read: it leaves the loader as it was.  *)
(* Pass 1 has left binary_data_output set.                                 *)
Init ==
  /\ punch = [tape |-> [i \in 1..LeaderFrames |-> \o200], checksum |-> 0, field |-> 0,
              objectfile |-> TRUE, binary_data_output |-> TRUE, rim_mode |-> FALSE]
  /\ reader = Loader
  /\ written = [k \in {} |-> 0]
  /\ at = [field |-> 0, loc |-> 0]

(* The loader after the frames of "tape" that are not on "old", one or two. *)
ReadOn(l, old, tape) ==
  CASE Len(tape) = Len(old) -> l
    [] Len(tape) = Len(old) + 1 -> BinFrame(l, tape[Len(old) + 1])
    [] Len(tape) = Len(old) + 2 -> BinFrame(BinFrame(l, tape[Len(old) + 1]), tape[Len(old) + 2])

Punch(a) == /\ punch' = a
            /\ reader' = ReadOn(reader, punch.tape, a.tape)

Underway == reader.st = "hi"

Origin(loc) == /\ Punch(punchOrigin(punch, loc))
               /\ at' = IF punch.objectfile THEN [at EXCEPT !.loc = loc % 4096] ELSE at
               /\ UNCHANGED written

(* A pass starts with an origin. *)
Begin == reader.st = "leader" /\ Origin(\o200)

NewOrigin == Underway /\ \E loc \in Int : Origin(loc)

NewWord ==
  /\ Underway
  /\ \E loc \in Int, val \in Int :
       /\ Punch(punchLocObject(punch, loc, val))
       /\ written' = IF punch.objectfile
                     THEN Stored(written, at.field + at.loc, val % 4096) ELSE written
  /\ at' = IF punch.objectfile THEN [at EXCEPT !.loc = (@ + 1) % 4096] ELSE at

NewField == /\ Underway
            /\ \E f \in 0..7 :
                 /\ Punch(FieldFrame(punch, f))
                 /\ at' = IF punch.objectfile THEN [at EXCEPT !.field = 4096 * f] ELSE at
            /\ UNCHANGED written

EnableOrNot == /\ Underway
               /\ \E on \in BOOLEAN : punch' = [punch EXCEPT !.objectfile = on]
               /\ UNCHANGED <<reader, written, at>>

(* The first frame of the trailer ends the loader. *)
Finish ==
  /\ Underway
  /\ LET closed == punchChecksum([punch EXCEPT !.objectfile = TRUE])
         ended == punchLeader(closed, TrailerFrames)
     IN /\ punch' = ended
        /\ reader' = BinFrame(ReadOn(reader, punch.tape, closed.tape),
                              ended.tape[Len(closed.tape) + 1])
  /\ UNCHANGED <<written, at>>

Next == Begin \/ NewOrigin \/ NewWord \/ NewField \/ EnableOrNot \/ Finish

Spec == Init /\ [][Next]_tapeVars

-----------------------------------------------------------------------------
(* The loader takes every tape: the checksum palbart punches is the sum of *)
(* the frames the loader counts, whatever was punched, changes of field    *)
(* and pieces not punched included.                                        *)
ChecksumCounted == reader.st = "end" => reader.status = "OK"

(* What the loader has stored at the end is what was punched, each word in *)
(* the field and at the location the tape had come to, though the loader   *)
(* stores a word a character late and meets changes of field early.  (How  *)
(* many fields fit in core is the generator's affair: see Image.)          *)
WordsPlaced == reader.st = "end" => reader.core = written
=============================================================================
