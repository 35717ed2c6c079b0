------------------------------ MODULE Palbart ------------------------------
(***************************************************************************)
(* sd_debug/palbart.c: the two passes over the source.  One action per     *)
(* turn of the scanning loop of onePass: it takes one statement, or one    *)
(* separator, of the current line.                                         *)
(***************************************************************************)
EXTENDS PalPseudo

CONSTANTS Programs,   \* the sources: sequences of lines
          Options     \* the command lines: records of flags

VARIABLES source,   \* the input file
          lineno    \* lines read so far in this pass

palVars == <<asm, source, lineno>>

Blank(options) ==
  [options |-> options, pass |-> 0, at |-> "pass", level |-> 0,
   line |-> <<>>, cc |-> 1, lexstart |-> 1, delimiter |-> EndItem,
   error_in_line |-> FALSE, errors |-> 0, errorfile |-> {},
   symtab |-> InitialSymbols(options.additional_enabled),
   getexpr |-> Symbol(DEFINED, 0),
   clc |-> 0, field |-> 0, reloc |-> 0, radix |-> 8,
   cp |-> [i \in 0..(MAX_PAGES - 1) |-> EmptyPool],
   max_page_used |-> [i \in 0..(MAX_PAGES - 1) |-> 0],
   rim_mode |-> options.rim, binary_data_output |-> FALSE, checksum |-> 0,
   objectfile |-> FALSE, tape |-> <<>>, listfile |-> FALSE, listing |-> <<>>, links |-> 0,
   labels |-> [p \in 1..2 |-> {}], literals |-> {}, numbers |-> {},
   conditions |-> [p \in 1..2 |-> <<>>]]

PalInit == /\ source \in Programs
           /\ \E o \in Options : asm = Blank(o)
           /\ lineno = 0

-----------------------------------------------------------------------------
(* main *)
PassOne == /\ asm.at = "pass" /\ asm.pass = 0
           /\ asm' = BeginPass([asm EXCEPT !.pass = 1, !.checksum = 0])
           /\ lineno' = 0
           /\ UNCHANGED source

PassTwo == /\ asm.at = "pass" /\ asm.pass = 1
           /\ LET opened == punchLeader([asm EXCEPT !.objectfile = TRUE, !.listfile = TRUE],
                                        LeaderFrames)
              IN asm' = BeginPass([opened EXCEPT !.pass = 2, !.checksum = 0, !.errors = 0])
           /\ lineno' = 0
           /\ UNCHANGED source

Finish == /\ asm.at = "pass" /\ asm.pass = 2
          /\ asm' = [CloseTape(asm) EXCEPT !.at = "done"]
          /\ UNCHANGED <<source, lineno>>

-----------------------------------------------------------------------------
(* Faulty: the file goes on with empty lines. *)
NextTextForever == IF lineno < Len(source) THEN source[lineno + 1] ELSE <<>>

(* readLine; at the end of the file it makes up a line with a $. *)
NextText == IF lineno < Len(source) THEN source[lineno + 1] ELSE <<Punct("$")>>

WithNextLine(a) == ReadLine(a, NextText, lineno >= Len(source))

CountLine == lineno' = IF lineno <= Len(source) THEN lineno + 1 ELSE lineno

NewLine == /\ asm.at = "line"
           /\ asm' = [nextLexeme(WithNextLine(asm)) EXCEPT !.at = "scan"]
           /\ CountLine /\ UNCHANGED source

Scanning(test) == /\ asm.at = "scan" /\ test
                  /\ UNCHANGED <<source, lineno>>

X == Lexeme(asm)
EndsStatement(x) == IsEnd(x) \/ Is(x, "/")
Special(x) == EndsStatement(x) \/ \E s \in {";", "$", "*"} : Is(x, s)
IsLabel(a)      == ~Special(Lexeme(a)) /\ Is(After(a), ",")
IsAssignment(a) == ~Special(Lexeme(a)) /\ Is(After(a), "=")
IsPseudo(a)     == /\ ~Special(Lexeme(a)) /\ ~IsLabel(a) /\ ~IsAssignment(a)
                   /\ Lexeme(a).k = "alpha" /\ Lexeme(a).s \in DOMAIN a.symtab
                   /\ "PSEUDO" \in a.symtab[Lexeme(a).s].type

EndLine   == Scanning(EndsStatement(X)) /\ asm' = [asm EXCEPT !.at = "line"]
Separator == Scanning(Is(X, ";")) /\ asm' = nextLexeme(asm)

EndOfSource == Scanning(Is(X, "$")) /\ asm' = [endOfBinary(asm) EXCEPT !.at = "pass"]

(* A new origin; an error anywhere on the line leaves the old one. *)
OriginAt(e) == IF e.a.error_in_line THEN e.a ELSE GoTo(e.a, e.a.field + (e.val % 4096))

Origin == /\ Scanning(Is(X, "*"))
          /\ asm' = OriginAt(getExpr(nextLexeme(asm)))

(* Faulty: the labels of pass 2 are not compared with those of pass 1. *)
DefineLabelUnchecked(a) ==
  [defineSymbol(a, Lexeme(a).s, a.clc + a.reloc, LABEL) EXCEPT
     !.labels[a.pass] = @ \cup {[name |-> Lexeme(a).s, at |-> (a.clc + a.reloc) % 4096]}]

(* A label that had another value in pass 1 is a duplicate. *)
DefineLabel(a0) ==
  LET name == Lexeme(a0).s
      a == lookup(a0, name)
      sym == a.symtab[name]
      here == a.clc + a.reloc
      moved == a.pass = 2 /\ IsDefined(sym) /\ sym.val % 4096 # here % 4096
      b == IF moved THEN errorMessage(a, "duplicate_label") ELSE a
      c == IF IsDefined(sym) THEN [b EXCEPT !.symtab[name].type = @ \cup DUPLICATE] ELSE b
  IN [defineSymbol(c, name, here, LABEL) EXCEPT
        !.labels[a.pass] = @ \cup {[name |-> name, at |-> here % 4096]}]

Label == /\ Scanning(IsLabel(asm))
         /\ asm' = nextLexeme(nextLexeme(IF X.k = "alpha" THEN DefineLabel(asm)
                                         ELSE errorMessage(asm, "label_syntax")))

Assign(e, name) == defineSymbol(e.a, name, e.val, DEFINED)

Assignment ==
  /\ Scanning(IsAssignment(asm))
  /\ LET value == nextLexeme(nextLexBlank(MarkDelimiter(asm)))
         bad == nextLexeme(nextLexeme(errorMessage(asm, "symbol_syntax")))
     IN asm' = IF X.k = "alpha" THEN Assign(getExprs(MarkDelimiter(value)), X.s)
               ELSE getExprs(bad).a

(* The outcomes of the conditionals of each pass, and what they asked for, *)
(* are kept for the properties, as are the labels.                         *)
Conditionals == {"IFDEF", "IFNDEF", "IFZERO", "IFNZRO"}

Decided(a, name, asked) ==
  IF name \notin Conditionals THEN a
  ELSE [a EXCEPT !.conditions[a.pass] =
          Append(@, [line |-> lineno, op |-> name, asked |-> asked, skipped |-> a.at = "skip"])]

PseudoOp == /\ Scanning(IsPseudo(asm))
            /\ LET next == nextLexeme(asm) IN
               asm' = Decided(pseudoOperators(next, X.s), X.s, Lexeme(next))

PunchValue(e) == PunchNext(e.a, e.val % 4096, e.held)

LoadValue ==
  /\ Scanning(~Special(X) /\ ~IsLabel(asm) /\ ~IsAssignment(asm) /\ ~IsPseudo(asm))
  /\ asm' = PunchValue(getExprs(IF X.k = "alpha" THEN lookup(asm, X.s) ELSE asm))

-----------------------------------------------------------------------------
(* conditionFalse: the rest of this line, and the lines that follow. *)
SkipFalse ==
  /\ asm.at = "skip"
  /\ LET s == SkipText(asm, asm.cc, asm.level) IN
     IF s.level = 0
     THEN /\ asm' = [nextLexeme(s) EXCEPT !.at = "scan"]
          /\ UNCHANGED lineno
     ELSE /\ asm' = WithNextLine(s)
          /\ CountLine
  /\ UNCHANGED source

(* inputDubl, inputFltg: numbers, on as many lines as there are, up to     *)
(* anything else or an error.                                              *)
AtNumber(a) == Lexeme(a).k = "digit" \/ Is(Lexeme(a), "-")
AfterError(a, mode) == [a EXCEPT !.at = IF a.error_in_line THEN "scan" ELSE mode]
PastPlus(a) == IF Is(Lexeme(a), "+") THEN nextLexBlank(MarkDelimiter(a)) ELSE a

NumbersOnNextLine ==
  /\ asm.at \in {"dubl", "fltg"} /\ EndsStatement(X)
  /\ IF asm.error_in_line
     THEN asm' = [asm EXCEPT !.at = "scan"] /\ UNCHANGED lineno
     ELSE asm' = nextLexeme(WithNextLine(asm)) /\ CountLine
  /\ UNCHANGED source

NextNumber ==
  /\ asm.at \in {"dubl", "fltg"} /\ Is(X, ";")
  /\ asm' = AfterError(nextLexeme(asm), asm.at)
  /\ UNCHANGED <<source, lineno>>

InputDubl ==
  /\ asm.at = "dubl" /\ ~EndsStatement(X) /\ ~Is(X, ";")
  /\ LET a == PastPlus(asm) IN
     asm' = IF AtNumber(a) THEN AfterError(PunchDubl(a), "dubl") ELSE [a EXCEPT !.at = "scan"]
  /\ UNCHANGED <<source, lineno>>

InputFltg ==
  /\ asm.at = "fltg" /\ ~EndsStatement(X) /\ ~Is(X, ";")
  /\ LET a == PastPlus(asm)
         e == getFltgExprs(a)
     IN asm' = IF ~AtNumber(a) THEN [a EXCEPT !.at = "scan"]
               ELSE IF e.null THEN [e.a EXCEPT !.at = "scan"]
               ELSE AfterError(PunchFltg(a, e), "fltg")
  /\ UNCHANGED <<source, lineno>>

Assemble == \/ PassOne \/ PassTwo \/ Finish
            \/ NewLine \/ EndLine \/ Separator \/ EndOfSource
            \/ Origin \/ Label \/ Assignment \/ PseudoOp \/ LoadValue
            \/ SkipFalse \/ NumbersOnNextLine \/ NextNumber \/ InputDubl \/ InputFltg
=============================================================================
