---------------------------- MODULE LiteralPools ----------------------------
(***************************************************************************)
(* Literals from the statement that needs them to the memory the tape is   *)
(* loaded in.  Pass 2 of palbart assembles, in any order, whatever a       *)
(* source can make it assemble; each step is an operator of PalPunch or    *)
(* PalPages, applied to the assembler's record.  The pseudo-ops that leave *)
(* a page punch its pools first and evaluate their argument then, which    *)
(* may add literals, or find errors: they take two steps.                  *)
(***************************************************************************)
EXTENDS PalPages, TapeLoader

VARIABLES
  doing,    \* "statement", or the pseudo-op whose argument is evaluated,
            \* or "end", "done"
  code,     \* the words assembled: field and location to word
  lits,     \* the literals, likewise
  strayed,  \* a pool has been punched, and no origin after it
  plain     \* nothing has happened that this module does not follow

poolVars == <<asm, doing, code, lits, strayed, plain>>

(* The part of the assembler's record that punching and the pools need, as *)
(* pass 2 finds it.                                                        *)
Opened(rim, data) ==
  [pass |-> 2, at |-> "pass", radix |-> 8, clc |-> 0, field |-> 0, reloc |-> 0,
   error_in_line |-> FALSE, errors |-> 0, errorfile |-> {},
   cp |-> [i \in 0..(MAX_PAGES - 1) |-> EmptyPool],
   max_page_used |-> [i \in 0..(MAX_PAGES - 1) |-> 0],
   rim_mode |-> rim, binary_data_output |-> data, checksum |-> 0,
   objectfile |-> TRUE, tape |-> <<>>, listfile |-> TRUE, listing |-> <<>>]

PoolsInit ==
  /\ \E rim, data \in BOOLEAN :
       /\ asm = BeginPass(punchLeader(Opened(rim, data), LeaderFrames))
       /\ plain = ~rim
  /\ doing = "statement" /\ strayed = FALSE
  /\ code = [k \in {} |-> 0] /\ lits = [k \in {} |-> 0]

-----------------------------------------------------------------------------
Leaving == {"PAGE", "SEGMNT", "FIELD"}

Here == asm.field + FieldLc(asm)

(* Some word of code or literal of the field is known already: a field     *)
(* that is taken up again starts with empty pools.                         *)
Entered(f) == \E k \in DOMAIN code \cup DOMAIN lits : k \div 4096 = f

(* A literal, or a link, in the pool of the page or of page zero.  FIELD   *)
(* forgets the literals of its own argument.                               *)
Literals == 0..4095

PoolPages(a) == {GET_PAGE_INDEX(a.clc), GET_PAGE_INDEX(a.field)}

LiteralAt(a, value, page) == a.field + page * PAGE_SIZE + insertLiteral(a, value, page).ix

AddLiteral ==
  /\ doing \in {"statement"} \cup Leaving
  /\ \E value \in Literals, page \in PoolPages(asm) :
       /\ asm' = insertLiteral(asm, value, page).a
       /\ lits' = Stored(lits, LiteralAt(asm, value, page), value)
  /\ plain' = (plain /\ doing # "FIELD")
  /\ UNCHANGED <<doing, code, strayed>>

Mistake == /\ doing \in {"statement"} \cup Leaving
           /\ asm' = errorMessage(asm, "another")
           /\ UNCHANGED <<doing, code, lits, strayed, plain>>

AssembleWord ==
  /\ doing = "statement"
  /\ \E val, operand \in Int :
       /\ asm' = PunchNext(asm, val, operand)
       /\ code' = Stored(code, Here, val % 4096)
  /\ UNCHANGED <<doing, lits, strayed, plain>>

(* The next line, DECIMAL and OCTAL, XLIST, RELOC. *)
Unmarked(a)        == [a EXCEPT !.error_in_line = FALSE]
WithRadix(a, r)    == [a EXCEPT !.radix = r]
WithListing(a, on) == [a EXCEPT !.listfile = on]

NextLine ==
  /\ doing = "statement"
  /\ \/ asm' = Unmarked(asm)
     \/ \E r \in {8, 10} : asm' = WithRadix(asm, r)
     \/ \E on \in BOOLEAN : asm' = WithListing(asm, on)
     \/ asm' = NotRelocated(asm)
     \/ \E val \in Int : asm' = RelocatedTo(asm, val)
  /\ UNCHANGED <<doing, code, lits, strayed, plain>>

SetOrigin == /\ doing = "statement"
             /\ \E val \in Int : asm' = GoTo(asm, asm.field + (val % 4096))
             /\ strayed' = FALSE
             /\ UNCHANGED <<doing, code, lits, plain>>

-----------------------------------------------------------------------------
(* A pseudo-op that leaves the page, or the field. *)
Pending(a, punch_page0) ==
  \E page \in 0..(MAX_PAGES - 1) :
    Len(a.cp[page].pool) # a.cp[page].punched /\ (punch_page0 \/ page # 0)

LeavePools ==
  /\ doing = "statement"
  /\ \E op \in Leaving :
       /\ doing' = op
       /\ asm' = punchLiteralPool(asm, op = "FIELD")
       /\ strayed' = Pending(asm, op = "FIELD")
  /\ UNCHANGED <<code, lits, plain>>

(* A PAGE that stays where it is punches no origin after the pools it may  *)
(* have punched.                                                           *)
TakePage ==
  /\ doing = "PAGE"
  /\ \/ asm' = StartPage(NextPage(asm), asm.clc)
     \/ \E val \in Int : asm' = StartPage(PageOfField(asm, val), asm.clc)
  /\ strayed' = (strayed /\ asm'.clc = asm.clc)
  /\ plain' = (plain /\ ~strayed')
  /\ doing' = "statement"
  /\ UNCHANGED <<code, lits>>

TakeSegment ==
  /\ doing = "SEGMNT"
  /\ \/ asm' = StartSegment(SegmentAfter(asm))
     \/ asm' = StartSegment(SegmentOfOp(asm))
  /\ strayed' = FALSE
  /\ doing' = "statement"
  /\ UNCHANGED <<code, lits, plain>>

TakeField ==
  /\ doing = "FIELD"
  /\ \E newfield \in Int :
       /\ asm' = StartField(ChangeField(asm, newfield))
       /\ plain' = (plain /\ ~Entered(newfield))
  /\ strayed' = FALSE
  /\ doing' = "statement"
  /\ UNCHANGED <<code, lits>>

(* RIMPUNCH, BINPUNCH, NOPUNCH and ENPUNCH. *)
WithTape(a, on) == [a EXCEPT !.objectfile = on]

ChangeMode ==
  /\ doing = "statement"
  /\ \/ asm' = Binpunch(asm)
     \/ asm' = Rimpunch(asm)
     \/ \E on \in BOOLEAN : asm' = WithTape(asm, on)
  /\ plain' = FALSE
  /\ UNCHANGED <<doing, code, lits, strayed>>

EndSource == /\ doing = "statement"
             /\ asm' = endOfBinary(asm)
             /\ doing' = "end"
             /\ UNCHANGED <<code, lits, strayed, plain>>

EndTape == /\ doing = "end"
           /\ asm' = CloseTape(asm)
           /\ doing' = "done"
           /\ UNCHANGED <<code, lits, strayed, plain>>

PoolsNext == \/ AddLiteral \/ Mistake \/ AssembleWord \/ NextLine \/ SetOrigin
             \/ LeavePools \/ TakePage \/ TakeSegment \/ TakeField
             \/ ChangeMode \/ EndSource \/ EndTape

PoolsSpec == PoolsInit /\ [][PoolsNext]_poolVars

-----------------------------------------------------------------------------
(* The tape of an error-free assembly in BIN mode that enters no field     *)
(* twice, loaded: memory is the code and the literals, each where its      *)
(* statement says, nothing else, and no literal where code is, whatever    *)
(* was assembled in between and wherever the assembler went.               *)
LiteralsLoaded ==
  doing = "done" /\ plain /\ asm.errors = 0 =>
    LET l == sim_load_bin(asm.tape) IN
    /\ l.status = "OK"
    /\ DOMAIN code \cap DOMAIN lits = {}
    /\ DOMAIN l.core = DOMAIN code \cup DOMAIN lits
    /\ \A k \in DOMAIN code : l.core[k] = code[k]
    /\ \A k \in DOMAIN lits : l.core[k] = lits[k]
=============================================================================
