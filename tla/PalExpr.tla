------------------------------- MODULE PalExpr -------------------------------
(***************************************************************************)
(* sd_debug/palbart.c: expressions.  The operators return the assembler's  *)
(* record and a value [val, type]; sym_getexpr, a global the recursion     *)
(* through a literal overwrites, is a.getexpr.                             *)
(***************************************************************************)
EXTENDS PalPages

Result(a, val, type) == [a |-> a, val |-> val, type |-> type]

Wrap16(x) == ((x + 32768) % 65536) - 32768        \* WORD16

RECURSIVE AndBits(_, _)
AndBits(x, y) == IF x = 0 THEN 0
                 ELSE 2 * AndBits(x \div 2, y \div 2) + (x % 2) * (y % 2)

(* C division truncates; the sources modelled do not divide by zero. *)
Quotient(x, y) == IF (x < 0) = (y < 0)
                  THEN (IF x < 0 THEN -x ELSE x) \div (IF y < 0 THEN -y ELSE y)
                  ELSE -((IF x < 0 THEN -x ELSE x) \div (IF y < 0 THEN -y ELSE y))

Operators == {"+", "-", "^", "%", "&", "!"}

Apply(op, x, y) == CASE op = "+" -> Wrap16(x + y)
                     [] op = "-" -> Wrap16(x - y)
                     [] op = "^" -> Wrap16(x * y)
                     [] op = "%" -> Quotient(x, y)
                     [] op = "&" -> AndBits(x % 65536, y % 65536)
                     [] op = "!" -> OrBits(x % 65536, y % 65536)

-----------------------------------------------------------------------------
(* The operand of a memory reference: page zero, the current page, or a    *)
(* link, the address as a literal on this page used indirectly.            *)
OnThisPage(a, value) == PageOf(FieldLc(a) + a.reloc) = PageOf(value) /\ value < 4096

(* Faulty: a link on page zero, for a reference that keeps the page bit. *)
fixMRIOnPageZero(a, instruction, value) ==
  LET l == insertLiteral(a, value, GET_PAGE_INDEX(a.field)) IN
  CASE value < \o200 -> Result(a, OrBits(instruction, value), DEFINED)
    [] value >= \o200 /\ OnThisPage(a, value)
         -> Result(a, OrBits(instruction, \o200 + InPage(value)), DEFINED)
    [] OTHER -> Result(l.a, OrBits(instruction, OrBits(\o600, l.ix)), DEFINED)

fixMRIInstruction(a, instruction, value) ==
  CASE value < \o200 -> Result(a, OrBits(instruction, value), DEFINED)
    [] value >= \o200 /\ OnThisPage(a, value)
         -> Result(a, OrBits(instruction, \o200 + InPage(value)), DEFINED)
    [] value >= \o200 /\ ~OnThisPage(a, value) /\ (instruction \div \o400) % 2 = 1
         -> Result(errorMessage(a, "illegal_indirect"), instruction, DEFINED)
    [] value >= \o200 /\ ~OnThisPage(a, value) /\ (instruction \div \o400) % 2 = 0
                      /\ ~a.options.literals_ok
         -> Result(errorMessage(a, "illegal_reference"),
                   OrBits(instruction, InPage(value)), DEFINED)
    [] OTHER
         -> LET l == insertLiteral(a, value, GET_PAGE_INDEX(a.clc))
            IN Result([l.a EXCEPT !.links = IF a.pass = 2 THEN @ + 1 ELSE @],
                      OrBits(instruction, OrBits(\o600, l.ix)), DEFINED)

-----------------------------------------------------------------------------
IsMRI(type) == "MRI" \in type

(* getExprs: what is combined so far, the operand a memory reference holds *)
(* back (NoOperand if none).                                               *)
Held(r, temp) == IF r.held = NoOperand THEN temp ELSE OrBits(r.held, temp)

Combine(r, e) ==
  LET temp == e.val % 4096 IN
  CASE IsMRI(r.type) /\ IsMRI(e.type) /\ r.held = NoOperand
         -> [r EXCEPT !.a = e.a, !.val = OrBits(@ % 65536, temp)]
    [] IsMRI(r.type) /\ ~(IsMRI(e.type) /\ r.held = NoOperand)
         -> [r EXCEPT !.a = e.a, !.held = Held(r, temp)]
    [] ~IsMRI(r.type) /\ UNDEFINED \in {r.type, e.type}
         -> [r EXCEPT !.a = e.a, !.val = 0]
    [] OTHER -> [r EXCEPT !.a = e.a, !.val = OrBits(@ % 65536, temp)]

ClosesExprs(item) == IsDone(item) \/ \E s \in {")", "]", "<"} : Is(item, s)

(* eval: numbers in the radix, 8 or 10. *)
EvalDigits(a, digits) ==
  LET Next(v, d) == IF v = -1 \/ d >= a.radix THEN -1 ELSE v * a.radix + d
      v == FoldLeft(Next, 0, digits)
  IN IF v = -1 THEN Result(nextLexeme(errorMessage(a, "number_not_radix")), 0, DEFINED)
     ELSE Result(nextLexeme(a), v, DEFINED)

EvalName(a) ==
  LET b == evalSymbol(a)
      sym == b.symtab[Lexeme(a).s]
      c == IF ~IsDefined(sym) /\ a.pass = 2 THEN errorMessage(b, "undefined_symbol") ELSE b
  IN Result(nextLexeme(c), sym.val, sym.type)

SkipIf(a, s) == IF Is(Lexeme(a), s) THEN nextLexBlank(a) ELSE a

(* getExpr's last choices: what may follow an expression. *)
EndExpr(a) ==
  LET x == Lexeme(a)
      said == errorMessage(a, IF Is(x, "=") THEN "illegal_equals" ELSE "illegal_expression")
  IN IF ClosesExprs(x) THEN a ELSE [moveToEndOfLine(said) EXCEPT !.getexpr.val = 0]

RECURSIVE getExprs(_), MoreExprs(_), getExpr(_), MoreTerms(_), eval(_), EvalLiteral(_, _, _)

(* A memory reference is put together with the operand it held back. *)
Valued(e, held) == [a |-> e.a, val |-> e.val, held |-> held]
WithOperand(r) ==
  IF r.held = NoOperand THEN Valued(r, NoOperand)
  ELSE Valued(fixMRIInstruction(r.a, r.val % 4096, r.held), r.held)

First(e) == [a |-> e.a, val |-> e.val, type |-> e.type, held |-> NoOperand]

getExprs(a) == WithOperand(MoreExprs(First(getExpr(a))))

(* A blank between two expressions is an inclusive or. *)
MoreExprs(r) == IF ClosesExprs(Lexeme(r.a)) THEN r
                ELSE MoreExprs(Combine(r, getExpr(r.a)))

-----------------------------------------------------------------------------
SkipSign(a) == IF Is(Lexeme(a), "-") \/ Is(Lexeme(a), "+") THEN nextLexBlank(a) ELSE a

Term(e, minus) == [e.a EXCEPT !.getexpr =
                     Symbol(e.type, (IF minus THEN -e.val ELSE e.val) % 4096)]

(* sym_getexpr is read after eval: a literal has overwritten it. *)
Plus(e, op) ==
  [e.a EXCEPT !.getexpr = IF UNDEFINED \in {@.type, e.type} THEN Symbol(UNDEFINED, 0)
                          ELSE Symbol(@.type, Apply(op, @.val, e.val))]

Sum(a) == Result(a, a.getexpr.val, a.getexpr.type)

getExpr(a) == Sum(MoreTerms(Term(eval(SkipSign(MarkDelimiter(a))), Is(Lexeme(a), "-"))))

IsOperator(x) == x.k = "punct" /\ x.s \in Operators

MoreTerms(a) ==
  CASE IsBlank(a.delimiter) -> a
    [] ~IsBlank(a.delimiter) /\ IsOperator(Lexeme(a))
         -> MoreTerms(Plus(eval(nextLexBlank(a)), Lexeme(a).s))
    [] OTHER -> EndExpr(a)

-----------------------------------------------------------------------------
(* A literal in a pool; its value is the literal's address. *)
RememberLiteral(l, val, page) ==
  [a |-> [l.a EXCEPT !.literals =
            IF l.a.pass = 2
            THEN @ \cup {[at |-> l.a.field + page * PAGE_SIZE + l.ix, val |-> val]} ELSE @],
   ix |-> l.ix]

PutLiteral(e, close, page) ==
  RememberLiteral(insertLiteral(SkipIf(e.a, close), e.val % 4096, page), e.val % 4096, page)

(* With -b a blank may follow the parenthesis. *)
PastParen(a) == IF a.options.allowBad THEN nextLexeme(a) ELSE nextLexBlank(a)

EvalLiteral(a, close, page) == PutLiteral(getExprs(a), close, page)

AddressOf(l, base) == Result(l.a, base + l.ix, DEFINED)
PageBase(a) == ((a.clc + a.reloc) \div PAGE_SIZE) * PAGE_SIZE

eval(a0) ==
  LET a == MarkDelimiter(a0)
      x == Lexeme(a)
  IN CASE x.k = "alpha" -> EvalName(a)
       [] x.k = "digit" -> EvalDigits(a, x.d)
       [] x.k = "quote" -> Result(nextLexeme(a), x.d[1] + \o200, DEFINED)
       [] Is(x, ".") -> Result(nextLexeme(a), FieldLc(a) + a.reloc, DEFINED)
       [] Is(x, "[") -> AddressOf(EvalLiteral(nextLexBlank(a), "]", GET_PAGE_INDEX(a.field)), 0)
       [] Is(x, "(") -> AddressOf(EvalLiteral(PastParen(a), ")", GET_PAGE_INDEX(a.clc)),
                                    PageBase(a))
       [] Is(x, "=") -> Result(nextLexBlank(moveToEndOfLine(
                                 errorMessage(a, "illegal_equals"))), 0, DEFINED)
       [] OTHER -> Result(nextLexBlank(errorMessage(a, "illegal_character")), 0, DEFINED)
=============================================================================
