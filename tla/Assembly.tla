------------------------------ MODULE Assembly ------------------------------
(***************************************************************************)
(* From a source to the words of a memory: palbart assembles it, the       *)
(* generator that fits the tape loads it, mem_merge adds the words of a    *)
(* second tape, made by rim.c.  The Makefiles run the tools in this order. *)
(***************************************************************************)
EXTENDS Palbart, MemoryImages

vars == <<asm, source, lineno, loader, image, other, merged>>

Init == PalInit /\ ImagesInit

Load == /\ asm.at = "done"
        /\ Generate(asm.tape, asm.options.rim)
        /\ UNCHANGED palVars

Stop == merged.done /\ UNCHANGED vars

Next == \/ Assemble /\ UNCHANGED imageVars
        \/ Load
        \/ Merge /\ UNCHANGED palVars
        \/ Stop

Spec == Init /\ [][Next]_vars

(* A tool that has started is run to its end.  The weak fairness of Next,  *)
(* said without ENABLED: Next is enabled until Stop, which the absence of  *)
(* deadlock shows.                                                         *)
FairSpec == Spec /\ ([]<><<Next>>_vars \/ <>[]merged.done)

-----------------------------------------------------------------------------
Rows == {asm.listing[i] : i \in DOMAIN asm.listing}
Clean == asm.errors = 0
(* No pseudo-op of the source changes what its loader is to expect. *)
ModesKept == \A i \in DOMAIN source : \A m \in {"RIMPUN", "BINPUN"} :
               ~\E j \in DOMAIN source[i] : source[i][j] = Name(m)

(* An assembly without errors, for one loader, loaded. *)
Faithful == Loaded /\ Clean /\ ModesKept

(* Where the loader stores the word of a row: statements are listed at the  *)
(* address they run at, literals at the one they are loaded at.            *)
Home(row) == IF row.kind = "LOC_VAL" THEN row.loc ELSE row.loc - row.reloc

CellOf(k) == WordAt(loader.core, k)

TypeOK == /\ asm.at \in {"pass", "line", "scan", "skip", "dubl", "fltg", "done"}
          /\ asm.pass \in 0..2 /\ asm.errors \in Nat /\ asm.links \in Nat
          /\ asm.field \in {4096 * f : f \in 0..7}
          /\ \A n \in DOMAIN asm.symtab : asm.symtab[n].type \subseteq TypeBits
          /\ \A p \in 0..(MAX_PAGES - 1) :
               /\ asm.cp[p].pool \in Seq(0..4095)
               /\ asm.cp[p].punched \in 0..Len(asm.cp[p].pool)
          /\ asm.checksum \in 0..4095
          /\ asm.tape \in Seq(0..255)
          /\ lineno \in 0..(Len(source) + 1)
          /\ \A k \in DOMAIN loader.core : loader.core[k] \in 0..4095

(* A tape punched in one mode, with anything on it, is accepted by its     *)
(* loader: every word is aligned, the checksum counts what the loader      *)
(* counts (no FIELD frame, nothing of a NOPUNCH).  Whether the source has  *)
(* errors or not.                                                          *)
Empty(tape) == \A i \in DOMAIN tape : tape[i] = \o200

LoaderAccepts == Loaded /\ ModesKept /\ ~Empty(asm.tape) => loader.status = "OK"

(* What the listing shows at an address is what the loader puts there, in  *)
(* every field, for code, literals and relocated code: the last row for an *)
(* address tells.                                                          *)
LoadedAsListed ==
  Loaded /\ ModesKept =>
    \A i \in DOMAIN asm.listing :
      LET row == asm.listing[i] IN
      row.punched /\ (\A j \in (i + 1)..Len(asm.listing) : Home(asm.listing[j]) # Home(row))
        => CellOf(Home(row)) = row.val

(* An error-free assembly puts no literal where the code of its page is,   *)
(* whichever came first, nor where another literal is.  (Code over code is *)
(* the author's overlay.)                                                  *)
OneWordPerLocation ==
  Faithful =>
    \A i, j \in DOMAIN asm.listing :
      i # j /\ asm.listing[i].kind = "LOC_VAL" => Home(asm.listing[i]) # Home(asm.listing[j])

(* A memory reference of an error-free assembly reaches the address its    *)
(* operand denotes: on page zero, on its own page, or through a link in    *)
(* the loaded memory.                                                      *)
AddressField(row) == (IF (row.val \div \o200) % 2 = 1 THEN PageOf(row.loc) ELSE 0)
                       + InPage(row.val)
LinkAt(row) == (row.loc \div 4096) * 4096 + AddressField(row) - row.reloc

OperandsReached ==
  Faithful =>
    \A row \in Rows : row.operand # NoOperand /\ row.punched =>
      \/ AddressField(row) = row.operand
      \/ (row.val \div \o400) % 2 = 1 /\ CellOf(LinkAt(row)) = row.operand

(* A literal of an error-free assembly is in memory where its address      *)
(* says, whatever was assembled and punched after it.                      *)
LiteralsIntact ==
  Faithful => \A w \in asm.literals : CellOf(w.at) = w.val

(* An error-free assembly gave every label one address, in both passes:    *)
(* references assembled before and after the label agree.                  *)
LabelsSettled ==
  asm.at = "done" /\ Clean =>
    /\ asm.labels[1] = asm.labels[2]
    /\ \A x, y \in asm.labels[2] : x.name = y.name => x.at = y.at

(* The condition bit keeps its promise (palbart.c:339-346) for the symbols *)
(* a source introduces: whether IFDEF and IFNDEF find one of them defined  *)
(* is the same in both passes, however the definition lies.  It does not   *)
(* for permanent symbols the source redefines, after an EXPUNGE, nor for   *)
(* the values IFZERO and IFNZRO ask for; so, without EXPUNGE, the first    *)
(* conditional on which the passes part asks for one of these.             *)
Introduced(c) == /\ c.op \in {"IFDEF", "IFNDEF"} /\ c.asked.k = "alpha"
                 /\ c.asked.s \notin DOMAIN InitialSymbols(TRUE)

Expunged == \E i \in DOMAIN source : \E j \in DOMAIN source[i] : source[i][j] = Name("EXPUNG")

Part(i) == LET one == asm.conditions[1]
               two == asm.conditions[2]
           IN ~(i \in DOMAIN one /\ i \in DOMAIN two /\ one[i] = two[i])

SourceSymbolsDecideAlike ==
  asm.at = "done" /\ ~Expunged =>
    \A i \in DOMAIN asm.conditions[1] \cup DOMAIN asm.conditions[2] :
      Part(i) /\ (\A j \in 1..(i - 1) : ~Part(j))
        => \A p \in 1..2 : /\ i \in DOMAIN asm.conditions[p]
                           /\ ~Introduced(asm.conditions[p][i])

(* The words of DUBL and FLTG stand for the number that was written: a     *)
(* double word exactly; a floating one to within two units of its last     *)
(* place.                                                                  *)
Double(n) == 4096 * CellOf(n.at) + CellOf(n.at + 1)
Magnitude(n, d) == IF n.negate /\ d # 0 THEN 2^24 - d ELSE d
Signed(x) == IF x < 2048 THEN x ELSE x - 4096

DublExact(n) == Magnitude(n, Double(n)) = n.digits

Close(x, y, slack) == x - y \in (-slack)..slack

FltgClose(n) ==
  LET mantissa == Magnitude(n, 4096 * CellOf(n.at + 1) + CellOf(n.at + 2))
      exponent == Signed(CellOf(n.at))
      shift == 23 - exponent
  IN IF n.exponent >= 0
     THEN Close(mantissa, n.digits * 10^n.exponent * 2^shift, 2)
     ELSE Close(mantissa * 10^(-n.exponent), n.digits * 2^shift, 2 * 10^(-n.exponent))

NumbersRepresented ==
  Faithful =>
    \A n \in asm.numbers : IF n.kind = "dubl" THEN DublExact(n) ELSE FltgClose(n)

(* Every source, however malformed, is assembled to the end: no construct  *)
(* keeps the assembler from reaching the end of its file, in both passes.  *)
Terminates == <>(asm.at = "done")
=============================================================================
