----------------------------- MODULE PalNumbers -----------------------------
(***************************************************************************)
(* sd_debug/palbart.c: the numbers of DUBL (two words) and FLTG (exponent  *)
(* and two words of mantissa), always decimal.  A WORD32 of the host is    *)
(* wide enough for every number modelled here.                             *)
(***************************************************************************)
EXTENDS PalExpr

Number(a, val) == [a |-> a, val |-> val]

(* The end of the line and a comment are lexemes without characters: after *)
(* a lone sign they leave the value as it is.                              *)
evalDubl(a, initial) ==
  LET x == Lexeme(a)
      b == MarkDelimiter(a)
  IN CASE x.k = "digit" -> Number(b, FoldLeft(LAMBDA v, d : 10 * v + d, initial, x.d))
       [] IsEnd(x) \/ Is(x, "/") -> Number(b, initial)
       [] OTHER -> Number(errorMessage(b, "not_a_number"), 0)

(* A number ends at a blank or at the end of the statement; an operator or *)
(* anything else is an error and the rest of the line is given up.         *)
EndNumber(r) ==
  LET x == Lexeme(r.a) IN
  IF IsBlank(r.a.delimiter) \/ IsDone(x) THEN r
  ELSE Number(moveToEndOfLine(errorMessage(r.a, "illegal_expression")), 0)

Bounded(r, max) == IF r.val <= max THEN r
                   ELSE Number(errorMessage(r.a, "dubl_overflow"), 0)

getDublExpr(a0) ==
  LET a == MarkDelimiter(a0)
      minus == Is(Lexeme(a), "-")
      e == evalDubl(IF minus THEN nextLexBlank(a) ELSE a, 0)
      b == Bounded([e EXCEPT !.a = nextLexeme(@)], IF minus THEN 2^23 ELSE 2^23 - 1)
  IN EndNumber([b EXCEPT !.val = IF minus THEN -@ ELSE @])

getDublExprs(a) ==
  LET e == getDublExpr(a) IN
  IF IsDone(Lexeme(e.a)) THEN e ELSE Number(errorMessage(e.a, "illegal_expression"), 0)

Remember(a, n) == [a EXCEPT !.numbers = IF a.pass = 2 THEN @ \cup {n} ELSE @]

PunchDubl(a) ==
  LET e == getDublExprs(a)
      n == [at |-> a.clc, kind |-> "dubl", negate |-> e.val < 0,
            digits |-> IF e.val < 0 THEN -e.val ELSE e.val, exponent |-> 0]
  IN PunchAll(IF e.a.error_in_line THEN e.a ELSE Remember(e.a, n),
              <<(e.val \div 4096) % 4096, e.val % 4096>>)

-----------------------------------------------------------------------------
(* evalFltg: the table of states, columns + - d . E end other.             *)
state_table == [s \in 0..9 |->
  CASE s = 0 -> << 2,  1,  3,  4, 10, 10, 10>>
    [] s \in {1, 2} -> <<11, 11,  3,  4, 11, 11, 11>>
    [] s = 3 -> <<10, 10, 10,  4,  6, 10, 10>>
    [] s = 4 -> <<11, 11,  5, 11, 11, 10, 10>>
    [] s = 5 -> <<11, 11, 11, 11,  6, 10, 11>>
    [] s = 6 -> << 8,  7,  9, 11, 11, 11, 11>>
    [] s \in {7, 8} -> <<11, 11,  9, 11, 11, 11, 11>>
    [] s = 9 -> <<11, 11, 11, 11, 11, 10, 11>>]

Column(x) == CASE Is(x, "+") -> 1 [] Is(x, "-") -> 2 [] x.k = "digit" -> 3
               [] Is(x, ".") -> 4 [] x = Name("E") -> 5 [] IsDone(x) -> 6 [] OTHER -> 7

Past(a) == nextLexBlank(MarkDelimiter(a))
PastE(a) == nextLexBlank([a EXCEPT !.delimiter = Lexeme(a), !.cc = a.lexstart + 1])

NoFltg(a) == [a |-> a, state |-> 0, input |-> 0, negate |-> FALSE, negexp |-> FALSE,
              exponent |-> 0, right |-> 0]

(* One transition into a state: what it does with the lexeme. *)
Enter(f, s) ==
  LET whole == evalDubl(f.a, 0)
      more  == evalDubl(f.a, f.input)
      g == [f EXCEPT !.state = s]
  IN CASE s \in {1, 2} -> [g EXCEPT !.a = Past(f.a), !.negate = @ \/ s = 1]
       [] s = 3 -> [g EXCEPT !.a = nextLexeme(whole.a), !.input = whole.val]
       [] s = 4 -> [g EXCEPT !.a = Past(f.a)]
       [] s = 5 -> [g EXCEPT !.a = nextLexeme(more.a), !.input = more.val,
                             !.right = Len(Lexeme(f.a).d)]
       [] s = 6 -> [g EXCEPT !.a = PastE(f.a)]
       [] s \in {7, 8} -> [g EXCEPT !.a = Past(f.a), !.negexp = @ \/ s = 7]
       [] s = 9 -> [g EXCEPT !.a = nextLexeme(whole.a),
                             !.exponent = IF f.negexp THEN -whole.val ELSE whole.val]
       [] OTHER -> g

RECURSIVE Scan(_)
Scan(f) == IF f.state \in {10, 11} THEN f
           ELSE Scan(Enter(f, state_table[f.state][Column(Lexeme(f.a))]))

-----------------------------------------------------------------------------
(* The conversion, with three bits of precision more than are kept.        *)
Float(mantissa, exponent) == [mantissa |-> mantissa, exponent |-> exponent]

RECURSIVE normalizeFltg(_)
normalizeFltg(f) ==
  CASE f.mantissa = 0 -> Float(0, 0)
    [] f.mantissa \in 1..(2^25 - 1) -> normalizeFltg(Float(2 * f.mantissa, f.exponent - 1))
    [] f.mantissa \in 2^25..(2^26 - 1) -> f
    [] f.mantissa >= 2^26 -> normalizeFltg(Float(f.mantissa \div 2, f.exponent + 1))

RECURSIVE Strip(_, _), Scale(_, _)
Strip(n, exponent) == IF n % 10 = 0 THEN Strip(n \div 10, exponent + 1)
                      ELSE [n |-> n, exponent |-> exponent]

Scale(f, exponent) ==
  CASE exponent = 0 -> f
    [] exponent < 0 -> Scale(normalizeFltg([f EXCEPT !.mantissa = @ \div 10]), exponent + 1)
    [] exponent > 0 -> Scale(normalizeFltg([f EXCEPT !.mantissa = @ * 10]), exponent - 1)

(* Faulty: the digits to the right of the point are not counted. *)
ConvertWhole(f) ==
  LET s == Strip(f.input, f.exponent)
      w == Scale(normalizeFltg(Float(8 * s.n, 26)), s.exponent)
  IN IF f.input = 0 THEN Float(0, 0) ELSE Float(w.mantissa \div 8, w.exponent - 3)

Convert(f) ==
  LET s == Strip(f.input, f.exponent - f.right)
      w == Scale(normalizeFltg(Float(8 * s.n, 26)), s.exponent)
      m == w.mantissa \div 8
  IN IF f.input = 0 \/ f.state = 11 THEN Float(0, 0)
     ELSE Float(IF f.negate THEN 2^24 - m ELSE m, w.exponent - 3)

(* getFltgExpr(s): a null result ends the input of numbers. *)
getFltgExprs(a) ==
  LET f == Scan(NoFltg(MarkDelimiter(a)))
      e == EndNumber(Number(f.a, 1))
      over == ~IsDone(Lexeme(e.a))
  IN [a |-> IF over THEN errorMessage(e.a, "illegal_expression") ELSE e.a,
      null |-> e.val = 0 \/ over, scan |-> f]

PunchFltg(a, e) ==
  LET x == Convert(e.scan)
      n == [at |-> a.clc, kind |-> "fltg", negate |-> e.scan.negate,
            digits |-> e.scan.input, exponent |-> e.scan.exponent - e.scan.right]
  IN PunchAll(IF e.scan.state = 10 THEN Remember(e.a, n) ELSE e.a,
              <<x.exponent % 4096, (x.mantissa \div 4096) % 4096, x.mantissa % 4096>>)
=============================================================================
