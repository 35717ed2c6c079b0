------------------------------ MODULE PalPseudo ------------------------------
(***************************************************************************)
(* sd_debug/palbart.c, pseudoOperators: one operator per pseudo-op, applied*)
(* with the current lexeme the one after the pseudo-op.  a.at says where   *)
(* the assembler goes on: "scan" (the rest of the line), "line" (the next  *)
(* line), "skip" (the text of a false conditional), "dubl" and "fltg" (the *)
(* input of numbers).                                                      *)
(***************************************************************************)
EXTENDS PalNumbers

NoArgument(a) == IsDone(Lexeme(a))

Punching(a, on) == IF a.pass = 2 THEN [a EXCEPT !.objectfile = on] ELSE a

-----------------------------------------------------------------------------
FieldOf(e) == ChangeField(e.a, e.val)

Field_(a) ==
  StartField(IF NoArgument(a)
             THEN ChangeField(punchLiteralPool(a, TRUE), (a.field \div 4096) + 1)
             ELSE FieldOf(getExpr(punchLiteralPool(a, TRUE))))

PageAt(e) == PageOfField(e.a, e.val)

Page(a) ==
  StartPage(IF NoArgument(a) THEN NextPage(punchLiteralPool(a, FALSE))
            ELSE PageAt(getExpr(punchLiteralPool(a, FALSE))), a.clc)

RelocTo(e) == RelocatedTo(e.a, e.val)
Reloc(a) == IF NoArgument(a) THEN NotRelocated(a) ELSE RelocTo(getExpr(a))

SegmentAt(e) == SegmentOfOp(e.a)

Segment(a) ==
  StartSegment(IF NoArgument(a) THEN SegmentAfter(punchLiteralPool(a, FALSE))
               ELSE SegmentAt(getExpr(punchLiteralPool(a, FALSE))))

Zeros(e) ==
  CASE e.val < 0 -> errorMessage(e.a, "zblock_too_small")
    [] e.val >= 0 /\ e.val + FieldLc(e.a) - 1 > \o7777 -> errorMessage(e.a, "zblock_too_large")
    [] OTHER -> PunchAll(e.a, [i \in 1..e.val |-> 0])

Zblock(a) == Zeros(getExpr(a))

Listing(a, on) == IF a.pass = 2 THEN [a EXCEPT !.listfile = on] ELSE a
ListingIfZero(e) == Listing(e.a, e.val = 0)
Xlist(a) == IF NoArgument(a) THEN Listing(a, ~a.listfile) ELSE ListingIfZero(getExpr(a))

-----------------------------------------------------------------------------
(* Strings: two six-bit characters a word, a word of zeros (or half a      *)
(* word) at the end of a TEXT; whole bytes, marked, for ASCII.             *)
CharAt(chars, i) == IF i \in DOMAIN chars THEN chars[i] % 64 ELSE 0
PackWords(chars, n) == [i \in 1..n |-> 64 * CharAt(chars, 2 * i - 1) + CharAt(chars, 2 * i)]

PastString(a) ==
  LET b == [a EXCEPT !.cc = a.lexstart + 1] IN
  nextLexeme(IF Lexeme(a).k = "torn" THEN errorMessage(b, "text_string") ELSE b)

(* With -b a missing delimiter is no error. *)
PastText(a) == IF a.options.allowBad THEN nextLexeme([a EXCEPT !.cc = a.lexstart + 1])
               ELSE PastString(a)

Text(a) == LET s == Lexeme(a).d IN
  PastText(PunchAll(a, PackWords(s, (Len(s) \div 2) + 1)))

Ascii(a) == LET s == Lexeme(a).d IN
  PastText(PunchAll(a, [i \in DOMAIN s |-> (s[i] % 128) + 128]))

(* The characters of a name are the codes its item carries. *)
FirstOf(s, n) == SubSeq(s, 1, IF Len(s) < n THEN Len(s) ELSE n)

Filename(a) ==
  LET dot == Is(Lexeme(a), ".")
      both == dot \/ Is(After(a), ".")
      stem == IF dot THEN <<>> ELSE FirstOf(Lexeme(a).d, 6)
      b == nextLexeme(IF ~dot /\ both THEN nextLexeme(a) ELSE a)
      ext == IF both THEN FirstOf(Lexeme(b).d, 2) ELSE <<>>
      chars == [i \in 1..8 |-> IF i <= 6 THEN CharAt(stem, i) ELSE CharAt(ext, i - 6)]
  IN nextLexeme(PunchAll(b, PackWords(chars, 4)))

Device(a) == nextLexeme(PunchAll(a, PackWords(FirstOf(Lexeme(a).d, 4), 2)))

-----------------------------------------------------------------------------
(* FIXMRI name=value defines a memory reference. *)
DefineMRI(e, name) == defineSymbol(e.a, name, e.val, MRI)
Fixmri(a) ==
  IF Lexeme(a).k = "alpha" /\ Is(After(a), "=")
  THEN DefineMRI(getExprs(nextLexeme(nextLexeme(a))), Lexeme(a).s)
  ELSE getExprs(nextLexeme(nextLexeme(errorMessage(a, "symbol_syntax")))).a

conditionTrue(a) == IF Is(Lexeme(a), "<") THEN nextLexeme(a)
                    ELSE errorMessage(a, "lt_expected")

conditionFalse(a) == IF Is(Lexeme(a), "<") THEN [a EXCEPT !.at = "skip", !.level = 1]
                     ELSE errorMessage(a, "lt_expected")

Condition(a, holds) == IF holds THEN conditionTrue(a) ELSE conditionFalse(a)

OnSymbol(a, wanted) ==
  Condition(nextLexeme(a), DefinedConditionally(a, Lexeme(a).s) = wanted)
Ifdef(a, wanted) == IF Lexeme(a).k = "alpha" THEN OnSymbol(evalSymbol(a), wanted)
                    ELSE errorMessage(a, "label_syntax")

OnValue(e, wanted) == Condition(e.a, (e.val = 0) = wanted)
Ifzero(a, wanted) == OnValue(getExprs(a), wanted)

(* The text of a false conditional: brackets count wherever they stand, in *)
(* a comment too, and a $ ends it.                                         *)
RECURSIVE SkipText(_, _, _)
SkipText(a, i, level) ==
  LET x == ItemAt(a, i) IN
  IF level = 0 \/ IsEnd(x) THEN [a EXCEPT !.cc = i, !.level = level]
  ELSE SkipText(a, i + 1, CASE Is(x, ">") -> level - 1 [] Is(x, "<") -> level + 1
                            [] Is(x, "$") -> 0 [] OTHER -> level)

-----------------------------------------------------------------------------
pseudoOperators(a, name) ==
  CASE name = "BINPUN" -> Binpunch(a)
    [] name = "RIMPUN" -> Rimpunch(a)
    [] name = "ENPUNC" -> Punching(a, TRUE)
    [] name = "NOPUNC" -> Punching(a, FALSE)
    [] name = "DECIMA" -> [a EXCEPT !.radix = 10]
    [] name = "OCTAL"  -> [a EXCEPT !.radix = 8]
    [] name = "DUBL"   -> [a EXCEPT !.at = "dubl"]
    [] name = "FLTG"   -> [a EXCEPT !.at = "fltg"]
    [] name = "EJECT"  -> [a EXCEPT !.at = "line"]
    [] name = "EXPUNG" -> Expunge(a)
    [] name = "FIXTAB" -> FixTable(a)
    [] name = "FIXMRI" -> Fixmri(a)
    [] name = "FIELD"  -> Field_(a)
    [] name = "PAGE"   -> Page(a)
    [] name = "RELOC"  -> Reloc(a)
    [] name = "SEGMNT" -> Segment(a)
    [] name = "ZBLOCK" -> Zblock(a)
    [] name = "XLIST"  -> Xlist(a)
    [] name = "IFDEF"  -> Ifdef(a, TRUE)
    [] name = "IFNDEF" -> Ifdef(a, FALSE)
    [] name = "IFZERO" -> Ifzero(a, TRUE)
    [] name = "IFNZRO" -> Ifzero(a, FALSE)
    [] name = "TEXT"   -> Text(a)
    [] name = "ASCII"  -> Ascii(a)
    [] name = "FILENA" -> Filename(a)
    [] name = "DEVICE" -> Device(a)
    [] name = "TITLE"  -> PastString(a)
    [] name = "BANK"   -> errorMessage(a, "no_pseudo_op")
    [] name = "PAUSE"  -> a
=============================================================================
