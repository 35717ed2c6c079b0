------------------------------ MODULE PalLine ------------------------------
(***************************************************************************)
(* sd_debug/palbart.c: the current input line, its lexemes and the errors  *)
(* found on it.  The globals of the assembler are one record, a, so that   *)
(* each C function is an operator from the record to the record.           *)
(*                                                                         *)
(* A line is a sequence of items, each a lexeme or a blank; spelling is    *)
(* abstracted: a name is a string of at most six capitals, a number its    *)
(* digits, a quoted character and the body of a TEXT string their codes    *)
(* (after anything but a pseudo-op that wants it, a string is a comment).  *)
(* Columns are positions in that sequence.                                 *)
(***************************************************************************)
EXTENDS Integers, Sequences

Item(k, s, d) == [k |-> k, s |-> s, d |-> d]
Name(s)    == Item("alpha", s, <<>>)
Digits(d)  == Item("digit", "", d)
Punct(s)   == Item("punct", s, <<>>)
Quoted(c)  == Item("quote", "", <<c>>)
String(d)  == Item("text", "/", d)      \* delimiter, characters, delimiter
Torn(d)    == Item("torn", "/", d)      \* the closing delimiter is missing
EndItem    == Item("end", "", <<>>)

Is(item, s)   == item.k \in {"punct", "text", "torn"} /\ item.s = s
IsEnd(item)   == item.k = "end"
IsDone(item)  == IsEnd(item) \/ Is(item, "/") \/ Is(item, ";")
IsBlank(item) == Is(item, " ") \/ Is(item, ">")

ItemAt(a, i) == IF i \in DOMAIN a.line THEN a.line[i] ELSE EndItem

(* line[lexstart], and line[lexterm], the character after the lexeme *)
Lexeme(a) == ItemAt(a, a.lexstart)
After(a)  == ItemAt(a, a.cc)

-----------------------------------------------------------------------------
(* errorMessage, errorLexeme, errorSymbol: only pass 2 counts and reports. *)
errorMessage(a, mesg) ==
  [a EXCEPT !.error_in_line = TRUE,
            !.errors = IF a.pass = 2 THEN @ + 1 ELSE @,
            !.errorfile = IF a.pass = 2 THEN @ \cup {mesg} ELSE @]

SkipBlanks(a) == CHOOSE i \in a.cc..(Len(a.line) + 1) :
                   /\ ~IsBlank(ItemAt(a, i))
                   /\ \A j \in a.cc..(i - 1) : IsBlank(ItemAt(a, j))

(* A comment and the end of the line are not stepped over. *)
LexemeFrom(a, i) ==
  [a EXCEPT !.lexstart = i,
            !.cc = IF IsEnd(ItemAt(a, i)) \/ Is(ItemAt(a, i), "/") THEN i ELSE i + 1]

nextLexeme(a) == LexemeFrom(a, SkipBlanks(a))

(* A blank before an operator ended the expression: it is an error here. *)
MarkDelimiter(a) == [a EXCEPT !.delimiter = After(a)]

NoBlank(a) == IF IsBlank(a.delimiter) THEN errorMessage(a, "illegal_blank") ELSE a

nextLexBlank(a) == MarkDelimiter(NoBlank(nextLexeme(a)))

moveToEndOfLine(a) == [a EXCEPT !.cc = Len(a.line) + 1, !.lexstart = Len(a.line) + 1]

ReadLine(a, text, at_eof) ==
  [a EXCEPT !.line = text, !.cc = 1, !.lexstart = 1,
            !.error_in_line = at_eof /\ ~a.options.dollar_not_required]
=============================================================================
