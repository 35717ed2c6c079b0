---------------------------- MODULE MCAssembly ----------------------------
(***************************************************************************)
(* Instances of Assembly for TLC: sources made of alternatives, line by    *)
(* line, around one part of the language each.                             *)
(***************************************************************************)
EXTENDS Assembly

SP == Punct(" ")
LT == Punct("<")
GT == Punct(">")
Op(name) == <<Name(name)>>
With(name, arg) == <<Name(name), SP>> \o arg
At(loc) == <<Punct("*"), Digits(loc)>>
Labelled(name, line) == <<Name(name), Punct(","), SP>> \o line
Lit(x) == <<Punct("("), x, Punct(")")>>
Zero(x) == <<Punct("["), x, Punct("]")>>
Dollar == <<Punct("$")>>
D(d) == <<Digits(d)>>

(* Every choice of one line from each set. *)
Each(theme) == FoldLeft(LAMBDA ps, ls : {Append(p, l) : p \in ps, l \in ls}, {<<>>}, theme)

(* Labels, forward references, links and literals around the end of a page *)
(* and on page zero, in two fields.                                        *)
Addresses == Each(<<
  {At(<<2, 0, 0>>), At(<<3, 7, 5>>), At(<<1, 7, 6>>)},
  {With("TAD", Lit(Digits(<<5>>))), With("TAD", Zero(Digits(<<7>>))), With("JMP", <<Name("B")>>)},
  {Labelled("A", With("TAD", Lit(Digits(<<6>>)))), With("DCA", <<Name("B")>>)},
  {At(<<3, 7, 6>>), Op("PAGE"), With("FIELD", D(<<1>>)), Op("CLA")},
  {Labelled("B", With("TAD", Lit(Name("A")))), Labelled("A", Op("CLL")),
   Labelled("B", With("TAD", <<Name("I"), SP, Name("B")>>))},
  {Dollar}>>)

(* Relocated code, with literals and references in and out of it. *)
Relocated == Each(<<
  {At(<<4, 0, 0>>)},
  {With("RELOC", D(<<1, 2, 0, 0>>)), With("RELOC", D(<<2, 0, 0>>))},
  {Labelled("X", With("TAD", Lit(Digits(<<3>>)))), Labelled("X", With("DCA", <<Name("Y")>>))},
  {With("JMP", <<Name("X")>>), With("TAD", <<Name("I"), SP>> \o Lit(Name("X")))},
  {Op("RELOC"), Op("PAGE"), At(<<1, 4, 0, 0>>)},
  {Labelled("Y", With("TAD", Lit(Digits(<<5>>)))), Labelled("Y", With("JMP", <<Name("X")>>))},
  {Dollar}>>)

(* Changes of page, segment and origin, with literals of the pages left. *)
Pages == Each(<<
  {With("TAD", Lit(Digits(<<1>>))), With("TAD", Zero(Digits(<<1>>)))},
  {Op("PAGE"), With("PAGE", D(<<1>>)), Op("SEGMNT"), With("SEGMNT", D(<<1>>)), At(<<1, 7, 7>>)},
  {With("TAD", Lit(Digits(<<2>>))), With("TAD", Zero(Digits(<<2>>)))},
  {With("FIELD", D(<<1>>)), Op("FIELD"), With("FIELD", D(<<1, 0>>)), Op("PAGE")},
  {With("TAD", Lit(Digits(<<1>>))), With("TAD", Zero(Digits(<<1>>)))},
  {Dollar}>>)

(* A page left and taken up again. *)
Returns == Each(<<
  {With("TAD", Lit(Digits(<<1>>)))},
  {At(<<4, 0, 0>>), Op("PAGE")},
  {With("TAD", Lit(Digits(<<2>>))), With("TAD", Zero(Digits(<<2>>)))},
  {At(<<2, 0, 1>>), At(<<3, 7, 6>>), At(<<3, 7, 7>>)},
  {With("TAD", Lit(Digits(<<3>>))), With("TAD", Lit(Digits(<<1>>)))},
  {Dollar}>>)

(* What is punched, and how. *)
Modes == Each(<<
  {Op("RIMPUN"), Op("BINPUN"), Op("NOPUNC")},
  {With("TAD", Lit(Digits(<<5>>))), Op("CLA")},
  {Op("RIMPUN"), Op("BINPUN"), Op("ENPUNC")},
  {At(<<3, 0, 0>>)},
  {With("TAD", Lit(Digits(<<6>>)))},
  {Dollar}>>)

(* Conditionals on symbols of the source, true, false, nested, unclosed. *)
Guarded == {<<SP, LT, Name("CLL"), GT>>, <<SP, LT, Name("TAD"), SP, LT>>, <<SP, LT>>,
            <<SP, Name("CLL")>>}
Conditions == Each(<<
  {<<Name("A"), Punct("="), Digits(<<1>>)>>, Labelled("B", Op("CLA"))},
  {With("IFDEF", <<Name("A")>> \o g) : g \in Guarded}
    \cup {With("IFNDEF", <<Name("B")>> \o g) : g \in Guarded}
    \cup {With("IFDEF", D(<<5>>)),
          With("IFZERO", <<Digits(<<1>>), Punct("-"), Digits(<<1>>), LT, Name("CLA"), GT>>),
          With("IFNZRO", <<Digits(<<1>>), LT, Name("CLA"), Punct(";"), Name("CLL"), GT>>),
          With("IFZERO", <<Digits(<<2>>), LT, Dollar[1]>>)},
  {Labelled("A", Op("CLA")), <<GT, Punct("/"), GT>>, <<Name("B"), Punct("="), Digits(<<2>>)>>},
  {<<GT>>, Labelled("D", Op("CLL"))},
  {Dollar}>>)

(* Words that are not instructions. *)
Foo == Item("alpha", "FOO", <<6, 15, 15>>)
Data == Each(<<
  {With("ZBLOCK", D(<<3>>)), With("ZBLOCK", D(<<7, 7, 7, 7>>)),
   With("ZBLOCK", <<Punct("-"), Digits(<<1>>)>>)},
  {With("TEXT", <<String(<<1, 2, 3>>)>>), With("TEXT", <<Torn(<<1, 2>>)>>),
   With("ASCII", <<String(<<65, 66>>)>>)},
  {With("FILENA", <<Foo, Punct("."), Item("alpha", "PA", <<16, 1>>)>>),
   With("FILENA", <<Foo>>), With("FILENA", <<Punct("."), Item("alpha", "PA", <<16, 1>>)>>),
   With("DEVICE", <<Foo>>)},
  {Op("XLIST"), With("XLIST", D(<<1>>)), Op("EJECT"), Op("PAUSE"), With("BANK", D(<<1>>)),
   With("TITLE", <<String(<<1>>)>>)},
  {Op("CLA") \o <<Punct(";"), SP, Name("CLL"), SP, Punct("/"), SP, Name("CLA")>>},
  {Dollar}>>)

(* Numbers of several words. *)
Point == Punct(".")
Numbers == Each(<<
  {Op("DUBL")},
  {D(<<1, 2, 3, 4, 5>>), <<Punct("-"), Digits(<<7>>), Punct(";"), Digits(<<9>>)>>,
   <<Punct("+"), Digits(<<8>>)>>, <<Digits(<<1>>), Punct("+")>>,
   <<Punct("-"), Name("A")>>, <<Digits(<<1>>), SP, Digits(<<2>>)>>,
   <<Punct("-")>>, <<Punct("-"), SP, Punct("/")>>, <<Punct("-"), Punct(";"), Digits(<<3>>)>>},
  {<<>>, <<Punct("/")>>, Op("CLA")},
  {Op("CLL")},
  {Dollar}>>)
  \cup Each(<<
  {Op("FLTG")},
  {D(<<5>>), <<Punct("-"), Digits(<<2>>), Point, Digits(<<5>>)>>,
   <<Digits(<<3>>), Name("E"), Punct("-"), Digits(<<2>>)>>,
   <<Digits(<<1, 2, 3, 4>>), Name("E"), Punct("+"), Digits(<<3>>), Punct(";"), Digits(<<0>>)>>,
   <<Punct("+"), Digits(<<7>>), Point>>, <<Digits(<<1>>), Point, Point>>,
   <<Digits(<<1>>), SP, Digits(<<2>>)>>},
  {<<>>, <<Punct("/")>>, Op("CLA")},
  {Op("CLL")},
  {Dollar}>>)

(* Expressions, and statements that are wrong; the last line may miss. *)
Five == Digits(<<5>>)
Terms == {<<Name("A"), Punct("-"), Digits(<<1>>)>>, <<Five, Punct("+"), Five>>,
          <<Five, Punct("^"), Five>>, <<Digits(<<7>>), Punct("%"), Five>>,
          <<Digits(<<7>>), Punct("&"), Five>>, <<Five, Punct("!"), Digits(<<2>>)>>,
          <<Punct("."), Punct("+"), Digits(<<1>>)>>, <<Quoted(65)>>, <<Punct("-"), Five>>,
          <<Five, SP, Digits(<<2>>)>>, <<Name("U")>>}
Wrong == {<<Digits(<<9>>)>>, <<Five, Punct("#")>>, <<Five, Punct("=")>>, <<Five, Punct(",")>>,
          <<Five, Punct("="), Five>>, <<Five, Punct(","), Five>>, <<Punct("="), Five>>,
          <<Name("A"), SP, Punct("+"), Five>>, Lit(Name("U")), <<Punct(")")>>,
          With("TAD", <<Five, Punct("-")>>), <<Punct("#")>>, <<Punct("("), SP, Five, Punct(")")>>}
Expressions ==
  Each(<<{<<Name("A"), Punct("="), Five>>, Labelled("A", Op("CLA"))},
         {With("TAD", t) : t \in Terms} \cup {<<Name("A"), Punct("=")>> \o t : t \in Terms}
           \cup Wrong,
         {Op("DECIMA"), Op("OCTAL"), <<Name("A"), Punct("="), Digits(<<6>>)>>, <<>>},
         {<<Digits(<<8>>)>>, Labelled("A", Op("CLL"))}>>)

(* Changes to the symbol table. *)
Symbols == Each(<<
  {With("FIXMRI", <<Name("FOO"), Punct("="), Digits(<<4, 0, 0, 0>>)>>),
   With("FIXMRI", <<Name("FOO"), Five>>), Op("FIXTAB"), Op("EXPUNG")},
  {<<Name("TAD"), Punct("="), Digits(<<1, 0, 0, 0>>)>>, Labelled("CLA", D(<<1>>)),
   <<Name("TAD"), Punct("="), Digits(<<1>>)>>},
  {With("FOO", <<Name("B")>>), With("TAD", <<Name("B")>>)},
  {Labelled("B", Op("CLA"))},
  {Dollar}>>)

(* Sizes and places that pass 1 does not know yet (blocks low in the field, *)
(* where a label makes a short one).                                        *)
Ahead == <<
  {Labelled("B", Op("CLA")), With("TAD", <<Name("B")>>)},
  {<<Name("N"), Punct("="), Digits(<<1>>)>>, Labelled("N", With("JMP", <<Name("N")>>))},
  {Dollar}>>
Forward ==
  Each(<<{With(p, <<Name("N")>>) : p \in {"PAGE", "RELOC", "FIELD"}}
           \cup {<<Punct("*"), Name("N")>>, With("TAD", <<Name("N")>>)}>> \o Ahead)
  \cup Each(<<{At(<<3>>)}, {With("ZBLOCK", <<Name("N")>>)}>> \o Ahead)

(* Conditionals the passes may decide differently: on permanent symbols    *)
(* the source redefines or expunges, on values pass 1 does not know yet,   *)
(* and, after those, on symbols of the source itself.                      *)
Redefinitions == Each(<<
  {<<Name("A"), Punct("="), Digits(<<1>>)>>, Op("CLL")},
  {With("IFDEF", <<Name("CDF"), SP, LT, Name("CLA"), GT>>),
   With("IFNDEF", <<Name("A"), SP, LT, Name("CDF"), Punct("="), Digits(<<1>>), GT>>),
   With("IFZERO", <<Name("A"), Punct("-"), Digits(<<1>>), LT, Name("CLA"), GT>>),
   With("IFNZRO", <<Name("N"), LT, Name("A"), Punct("="), Digits(<<2>>), GT>>)},
  {<<Name("CDF"), Punct("="), Digits(<<6, 2, 0, 1>>)>>, <<Name("N"), Punct("="), Digits(<<1>>)>>,
   Op("EXPUNG")},
  {With("IFDEF", <<Name("A"), SP, LT, Name("CLA"), GT>>),
   With("IFDEF", <<Name("PAGE"), SP, LT, Name("CLA"), GT>>)},
  {Labelled("A", Op("CLL")), Labelled("B", D(<<1>>))},
  {Dollar}>>)

(* A PAGE that stays where it is punches the pools and no origin (see the *)
(* README), so this theme is not in MCPrograms.                            *)
Unmoved == Each(<<
  {<<Name("A"), Punct("=")>> \o Lit(Digits(<<5>>)), With("TAD", Lit(Digits(<<5>>)))},
  {At(<<2, 0, 0>>)},
  {Op("PAGE")},
  {Labelled("B", Op("CLA"))},
  {Dollar}>>)

MCPrograms == Addresses \cup Relocated \cup Pages \cup Returns \cup Modes \cup Conditions \cup Data
                \cup Redefinitions \cup Numbers \cup Expressions \cup Symbols \cup Forward
Flags == [rim |-> FALSE, literals_ok |-> TRUE, perm_redef_error |-> FALSE,
          dollar_not_required |-> FALSE, additional_enabled |-> FALSE, allowBad |-> FALSE]
MCOptions == {Flags, [rim |-> TRUE, literals_ok |-> FALSE, perm_redef_error |-> TRUE,
                      dollar_not_required |-> TRUE, additional_enabled |-> TRUE,
                      allowBad |-> TRUE]}
MCTables == {<< <<\o7756, \o6032>>, <<\o7757, \o6031>> >>, << <<\o200, \o7402>> >>,
             << <<\o200, 0>>, <<\o377, 1>>, <<\o377, \o7777>> >>}
=============================================================================
