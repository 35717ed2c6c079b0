----------------------------- MODULE PalSymbols -----------------------------
(***************************************************************************)
(* sd_debug/palbart.c: the symbol table, a map from names to symbols.  The *)
(* sorted array with its fixed and user parts is one map (a name is in at  *)
(* most one of the parts); a SYMTYP is the set of its bits.  The counts    *)
(* and line numbers of the concordance are left out.                       *)
(***************************************************************************)
EXTENDS PalLine

UNDEFINED == {}
DEFINED   == {"DEFINED"}
FIXED     == {"FIXED"}
MRI       == {"MRI", "DEFINED"}
LABEL     == {"LABEL", "DEFINED"}
DUPLICATE == {"DUPLICATE", "DEFINED"}
REDEFINED == {"REDEFINED", "DEFINED"}
PSEUDO    == {"PSEUDO", "FIXED", "DEFINED"}
CONDITION == {"CONDITION", "DEFINED"}
PERM_REDEFINED == {"PERM_REDEFINED"}
MRIFIX    == MRI \cup FIXED
DEFFIX    == DEFINED \cup FIXED

TypeBits == DUPLICATE \cup REDEFINED \cup PSEUDO \cup CONDITION \cup PERM_REDEFINED
              \cup LABEL \cup MRIFIX

Symbol(type, val) == [type |-> type, val |-> val]

pseudo == {"BINPUN", "DECIMA", "DUBL", "EJECT", "ENPUNC", "EXPUNG", "FIELD", "FIXMRI",
           "FIXTAB", "FLTG", "IFDEF", "IFNDEF", "IFNZRO", "IFZERO", "NOPUNC", "OCTAL",
           "PAGE", "PAUSE", "RELOC", "RIMPUN", "SEGMNT", "TEXT", "ASCII", "FILENA",
           "DEVICE", "XLIST", "ZBLOCK"}
additional_pseudo == {"TITLE", "BANK"}

really_permanent_symbols == [I |-> Symbol(MRIFIX, \o400), Z |-> Symbol(MRIFIX, 0)]

(* A few of the permanent symbols stand for the table. *)
permanent_symbols == [TAD |-> Symbol(MRIFIX, \o1000), DCA |-> Symbol(MRIFIX, \o3000),
                      JMP |-> Symbol(MRIFIX, \o5000), CLA |-> Symbol(DEFFIX, \o7200),
                      CLL |-> Symbol(DEFFIX, \o7100), CDF |-> Symbol(DEFFIX, \o6201)]

Extend(new, old) == [n \in DOMAIN new \cup DOMAIN old |->
                       IF n \in DOMAIN new THEN new[n] ELSE old[n]]

PseudoSymbols(names) == [n \in names |-> Symbol(PSEUDO, 0)]

(* main: the table before pass 1 (no condition bits: pass is 0) *)
InitialSymbols(additional) ==
  Extend(PseudoSymbols(IF additional THEN pseudo \cup additional_pseudo ELSE pseudo),
         Extend(really_permanent_symbols, permanent_symbols))

-----------------------------------------------------------------------------
(* A symbol looked up is a symbol in the table. *)
lookup(a, name) ==
  IF name \in DOMAIN a.symtab THEN a
  ELSE [a EXCEPT !.symtab = Extend([n \in {name} |-> Symbol(UNDEFINED, 0)], @)]

(* evalSymbol less the concordance; the current lexeme is a name. *)
evalSymbol(a) == lookup(a, Lexeme(a).s)

IsDefined(sym) == "DEFINED" \in sym.type

-----------------------------------------------------------------------------
(* defineSymbol: in pass 2 a symbol that changes its value is reported if  *)
(* it is, or was, a label.                                                 *)
RedefinedPermanent(a, sym, val) ==
  \/ "FIXED" \in sym.type /\ a.pass = 1 /\ a.options.perm_redef_error
  \/ "PERM_REDEFINED" \in sym.type /\ sym.val # val

ChangesInPass2(a, sym, val) ==
  /\ IsDefined(sym) /\ a.pass = 2
  /\ sym.val % 4096 # val % 4096 \/ "PERM_REDEFINED" \in sym.type

defineSymbol(a0, name, val, type0) ==
  LET a    == lookup(a0, name)
      sym  == a.symtab[name]
      type == IF RedefinedPermanent(a, sym, val) THEN type0 \cup PERM_REDEFINED ELSE type0
      changed == ChangesInPass2(a, sym, val)
      label == "LABEL" \in sym.type \cup type
      said == CASE changed /\ label /\ "PERM_REDEFINED" \in sym.type
                     -> errorMessage(a, "illegal_redefine")
                [] changed /\ label /\ "PERM_REDEFINED" \notin sym.type
                                    /\ "REDEFINED" \in sym.type
                     -> errorMessage(a, "redefined_symbol")
                [] OTHER -> a
  IN [said EXCEPT !.symtab[name] =
        Symbol(type \cup (IF changed THEN REDEFINED ELSE {})
                    \cup (IF a.pass = 1 THEN CONDITION ELSE {}),
               IF "LABEL" \in type THEN val ELSE val % 4096)]

-----------------------------------------------------------------------------
(* EXPUNGE and FIXTAB act in pass 1.  What EXPUNGE puts back is defined in *)
(* pass 1 and carries the condition bit.                                   *)
Expunge(a) ==
  IF a.pass # 1 THEN a
  ELSE LET back == Extend(PseudoSymbols(pseudo \cup additional_pseudo),
                          really_permanent_symbols)
       IN [a EXCEPT !.symtab =
             [n \in DOMAIN back |-> [back[n] EXCEPT !.type = @ \cup CONDITION]]]

FixTable(a) ==
  IF a.pass # 1 THEN a
  ELSE [a EXCEPT !.symtab = [n \in DOMAIN @ |-> [@[n] EXCEPT !.type = @ \cup FIXED]]]

(* Faulty: the condition bit is not looked at. *)
DefinedEver(a, name) == IsDefined(a.symtab[name])

(* M_DEFINED_CONDITIONALLY *)
DefinedConditionally(a, name) ==
  LET sym == a.symtab[name] IN
  IsDefined(sym) /\ (a.pass = 1 \/ "CONDITION" \notin sym.type)
=============================================================================
