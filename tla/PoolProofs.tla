----------------------------- MODULE PoolProofs -----------------------------
(***************************************************************************)
(* Proofs about palbart's literal pools: code and literals never meet, and *)
(* the tape of an error-free assembly loads as its code and its literals,  *)
(* for every order of statements and every length of source.               *)
(***************************************************************************)
EXTENDS LiteralPools, ImageProofs

PoolFields == {"pass", "at", "radix", "clc", "field", "reloc", "error_in_line", "errors",
               "errorfile", "cp", "max_page_used", "rim_mode", "binary_data_output",
               "checksum", "objectfile", "tape", "listfile", "listing"}

Pages  == 0..31
Offset == 0..127
Fields == {4096 * f : f \in 0..7}

(* A pool: its size, the literals, and how many of them have been punched. *)
Size(p)   == Len(p.pool)
Lit(p, i) == p.pool[i]
Done(p)   == p.punched
Pool      == {p \in [pool : Seq(Word), punched : Nat] : Done(p) <= Size(p)}

Cp(a)   == a.cp
Used(a) == a.max_page_used
Clc(a)  == a.clc
Fld(a)  == a.field
Rel(a)  == a.reloc
Errs(a) == a.errors
Two(a)  == a.pass = 2

Room(p) == PoolLoc(p)

(* The assembler's record. *)
Pooled(a) == /\ DOMAIN a = PoolFields /\ Two(a)
             /\ Cp(a) \in [Pages -> Pool]
             /\ Used(a) \in [Pages -> Offset]
             /\ Clc(a) \in Int /\ Rel(a) \in Int /\ Fld(a) \in Fields /\ Errs(a) \in Nat

Apart(a) == \A page \in Pages : Used(a)[page] < Room(Cp(a)[page])

-----------------------------------------------------------------------------
(* What an operation leaves alone: all but the fields of F. *)
Same(a, b, F) == DOMAIN b = DOMAIN a /\ \A f \in DOMAIN a \ F : b[f] = a[f]

Taped   == {"tape", "checksum", "binary_data_output"}
Listed  == {"listing"}
Faulted == {"error_in_line", "errors", "errorfile"}

LEMMA SameTrans ==
  ASSUME NEW a, NEW b, NEW c, NEW F, NEW G, Same(a, b, F), Same(b, c, G)
  PROVE  Same(a, c, F \cup G)
  BY DEF Same

LEMMA SameMore ==
  ASSUME NEW a, NEW b, NEW F, NEW G, Same(a, b, F), F \subseteq G
  PROVE  Same(a, b, G)
  BY DEF Same

LEMMA SameSelf ==
  ASSUME NEW a, NEW F
  PROVE  Same(a, a, F)
  BY DEF Same

(* The parts of the record it leaves alone.                                *)
LEMMA Kept ==
  ASSUME NEW a, NEW b, NEW F, DOMAIN a = PoolFields, Same(a, b, F)
  PROVE  /\ DOMAIN b = PoolFields
         /\ "cp" \notin F => Cp(b) = Cp(a)
         /\ "max_page_used" \notin F => Used(b) = Used(a)
         /\ "clc" \notin F => Clc(b) = Clc(a)
         /\ "field" \notin F => Fld(b) = Fld(a)
         /\ "reloc" \notin F => Rel(b) = Rel(a)
         /\ "errors" \notin F => Errs(b) = Errs(a)
         /\ "pass" \notin F => (Two(b) <=> Two(a))
         /\ "tape" \notin F => TapeOf(b) = TapeOf(a)
         /\ "checksum" \notin F => SumOf(b) = SumOf(a)
         /\ "objectfile" \notin F => (On(b) <=> On(a)) /\ (Off(b) <=> Off(a))
         /\ "rim_mode" \notin F => (Bin(b) <=> Bin(a))
         /\ "binary_data_output" \notin F => (Data(b) <=> Data(a))
<1>1. \A f \in PoolFields \ F : b[f] = a[f]
  BY DEF Same
<1> QED BY <1>1 DEF Same, PoolFields, Cp, Used, Clc, Fld, Rel, Errs, Two, TapeOf, SumOf, On,
                    Off, Bin, Data

(* Punching changes the tape and the checksum.                             *)
LEMMA PunchSame ==
  ASSUME NEW a, NEW v
  PROVE  Same(a, punchObject(a, v), Taped)
  BY DEF Same, Taped, punchObject

LEMMA PairSame ==
  ASSUME NEW a, NEW v, NEW w
  PROVE  Same(a, punchPair(a, v, w), Taped)
<1>1. Same(a, punchObject(a, v), Taped)
  BY PunchSame
<1>2. Same(punchObject(a, v), punchObject(punchObject(a, v), w), Taped)
  BY PunchSame
<1>3. Taped \cup Taped = Taped
  OBVIOUS
<1> QED BY <1>1, <1>2, <1>3, SameTrans DEF punchPair

LEMMA OriginSame ==
  ASSUME NEW a, NEW loc
  PROVE  Same(a, punchOrigin(a, loc), Taped)
  BY PairSame DEF punchOrigin

LEMMA OriginUnlessSame ==
  ASSUME NEW a
  PROVE  Same(a, OriginUnlessRim(a), Taped)
  BY OriginSame, SameSelf DEF OriginUnlessRim

LEMMA LocSame ==
  ASSUME NEW a, NEW loc, NEW val
  PROVE  Same(a, punchLocObject(a, loc, val), Taped)
<1> DEFINE o == IF a.rim_mode THEN punchOrigin(a, loc) ELSE a
<1>1. Same(a, o, Taped)
  BY OriginSame, SameSelf
<1> HIDE DEF o
<1>2. Same(o, punchPair(o, (val \div 64) % 64, val % 64), Taped)
  BY PairSame
<1>3. Taped \cup Taped = Taped
  OBVIOUS
<1> QED BY <1>1, <1>2, <1>3, SameTrans DEF punchLocObject, o

LEMMA LineSame ==
  ASSUME NEW a, NEW kind, NEW loc, NEW val, NEW operand
  PROVE  Same(a, printLine(a, kind, loc, val, operand), Listed)
  BY DEF Same, Listed, printLine

LEMMA OutSame ==
  ASSUME NEW a, NEW loc, NEW val, NEW operand
  PROVE  Same(a, punchOutObject(a, loc, val, operand), Listed \cup Taped)
  BY LineSame, LocSame, SameTrans DEF punchOutObject

LEMMA LeaderSame ==
  ASSUME NEW a, NEW n
  PROVE  Same(a, punchLeader(a, n), {"tape"})
  BY DEF Same, punchLeader

LEMMA ChecksumSame ==
  ASSUME NEW a
  PROVE  Same(a, punchChecksum(a), Taped)
<1> DEFINE p == IF a.binary_data_output /\ ~a.rim_mode
                THEN punchLocObject(a, 0, a.checksum) ELSE a
<1>1. Same(a, p, Taped)
  BY LocSame, SameSelf
<1> HIDE DEF p
<1>2. Same(p, [p EXCEPT !.binary_data_output = FALSE, !.checksum = 0], Taped)
  BY DEF Same, Taped
<1>3. Taped \cup Taped = Taped
  OBVIOUS
<1> QED BY <1>1, <1>2, <1>3, SameTrans DEF punchChecksum, p

(* A message changes the errors, and counts.                               *)
LEMMA MessageSame ==
  ASSUME NEW a, NEW m
  PROVE  Same(a, errorMessage(a, m), Faulted)
  BY DEF Same, Faulted, errorMessage

LEMMA MessageCounts ==
  ASSUME NEW a, NEW m, "errors" \in DOMAIN a, Two(a), Errs(a) \in Nat
  PROVE  Errs(errorMessage(a, m)) \in Nat /\ Errs(errorMessage(a, m)) # 0
<1>1. errorMessage(a, m).errors = a.errors + 1
  BY DEF errorMessage, Two
<1> QED BY <1>1 DEF Errs

-----------------------------------------------------------------------------
(* Punching, listing and errors leave the pools alone.                     *)
Aside == Taped \cup Listed \cup Faulted
           \cup {"at", "radix", "rim_mode", "objectfile", "listfile"}

LEMMA AsidePooled ==
  ASSUME NEW a, Pooled(a), NEW b, Same(a, b, Aside), Errs(b) \in Nat
  PROVE  /\ Pooled(b) /\ Cp(b) = Cp(a) /\ Used(b) = Used(a) /\ Clc(b) = Clc(a)
         /\ Fld(b) = Fld(a) /\ Rel(b) = Rel(a) /\ (Apart(a) <=> Apart(b))
<1>1. DOMAIN a = PoolFields
  BY DEF Pooled
<1>2. /\ DOMAIN b = PoolFields /\ Cp(b) = Cp(a) /\ Used(b) = Used(a) /\ Clc(b) = Clc(a)
      /\ Fld(b) = Fld(a) /\ Rel(b) = Rel(a) /\ (Two(b) <=> Two(a))
  BY <1>1, Kept DEF Aside, Taped, Listed, Faulted
<1> QED BY <1>2 DEF Pooled, Apart

(* The numbers of a location.                                              *)
LEMMA Numbers ==
  ASSUME NEW loc \in Int
  PROVE  /\ GET_PAGE_INDEX(loc) \in Pages /\ InPage(loc) \in Offset
         /\ loc % 4096 = GET_PAGE_INDEX(loc) * 128 + InPage(loc)
  BY DEF GET_PAGE_INDEX, InPage, Pages, Offset, PAGE_SIZE, MAX_PAGES

LEMMA Rooms ==
  ASSUME NEW p \in Pool
  PROVE  /\ Size(p) \in Nat /\ Done(p) \in Nat /\ Done(p) <= Size(p)
         /\ Room(p) = 128 - Size(p) /\ Room(p) \in Int
         /\ \A i \in 1..Size(p) : Lit(p, i) \in Word
<1>1. p.pool \in Seq(Word) /\ p.punched \in Nat /\ Done(p) <= Size(p)
  BY DEF Pool
<1>2. Size(p) \in Nat /\ Done(p) \in Nat /\ \A i \in 1..Size(p) : Lit(p, i) \in Word
  <2>1. Size(p) = Len(p.pool) /\ Done(p) = p.punched /\ \A i \in 1..Size(p) : Lit(p, i) = p.pool[i]
    BY DEF Size, Done, Lit
  <2>2. Len(p.pool) \in Nat /\ \A i \in 1..Len(p.pool) : p.pool[i] \in Word
    BY <1>1
  <2> QED BY <1>1, <2>1, <2>2
<1>3. Room(p) = 128 - Size(p)
  BY DEF Room, PoolLoc, PAGE_SIZE, Size
<1> QED BY <1>1, <1>2, <1>3

UsedAt(a, page, o) == [a EXCEPT !.max_page_used[page] = o]

LEMMA UsedFields ==
  ASSUME NEW a, Pooled(a), NEW page \in Pages, NEW o \in Offset
  PROVE  /\ Same(a, UsedAt(a, page, o), {"max_page_used"}) /\ Pooled(UsedAt(a, page, o))
         /\ Used(UsedAt(a, page, o)) = [Used(a) EXCEPT ![page] = o]
         /\ Cp(UsedAt(a, page, o)) = Cp(a) /\ Errs(UsedAt(a, page, o)) = Errs(a)
<1> DEFINE b == UsedAt(a, page, o)
<1>1. DOMAIN a = PoolFields /\ Used(a) \in [Pages -> Offset]
  BY DEF Pooled
<1>2. /\ Same(a, b, {"max_page_used"}) /\ b.max_page_used = [a.max_page_used EXCEPT ![page] = o]
  BY <1>1 DEF UsedAt, Same, PoolFields
<1> HIDE DEF b
<1>3. Used(b) = [Used(a) EXCEPT ![page] = o]
  BY <1>2 DEF Used
<1>4. Used(b) \in [Pages -> Offset]
  BY <1>1, <1>3
<1>5. /\ DOMAIN b = PoolFields /\ Cp(b) = Cp(a) /\ Clc(b) = Clc(a) /\ Fld(b) = Fld(a)
      /\ Rel(b) = Rel(a) /\ (Two(b) <=> Two(a)) /\ Errs(b) = Errs(a)
  BY <1>1, <1>2, Kept
<1>6. Pooled(b)
  BY <1>4, <1>5 DEF Pooled
<1> QED BY <1>2, <1>3, <1>5, <1>6 DEF b

(* The test of a location: without an error it is below the pool of its    *)
(* page, and noted.                                                        *)
Tested(a, b, loc) ==
  /\ Pooled(b) /\ Same(a, b, {"max_page_used"} \cup Faulted)
  /\ Errs(b) = 0 =>
       /\ Errs(a) = 0 /\ InPage(loc) < Room(Cp(a)[GET_PAGE_INDEX(loc)])
       /\ InPage(loc) <= Used(b)[GET_PAGE_INDEX(loc)]
       /\ \A page \in Pages : Used(a)[page] <= Used(b)[page]
       /\ Apart(a) => Apart(b)

LEMMA CollisionTested ==
  ASSUME NEW a, Pooled(a), NEW loc \in Int
  PROVE  Tested(a, testForLiteralCollision(a, loc), loc)
<1> DEFINE page == GET_PAGE_INDEX(loc)
           o == InPage(loc)
           high == IF o > Used(a)[page] THEN o ELSE Used(a)[page]
           u == UsedAt(a, page, high)
           m == IF PageOf(loc) = 0 THEN "pz_literal_overflow" ELSE "literal_overflow"
           b == testForLiteralCollision(a, loc)
<1>1. page \in Pages /\ o \in Offset /\ Used(a) \in [Pages -> Offset]
  BY Numbers DEF Pooled
<1>2. b = IF o >= Room(Cp(a)[page]) THEN errorMessage(u, m) ELSE u
  BY DEF testForLiteralCollision, UsedAt, Used, Cp, Room
<1> HIDE DEF page, o, m, b
<1>3. high \in Offset /\ o <= high /\ Used(a)[page] <= high /\ (high = o \/ high = Used(a)[page])
  BY <1>1 DEF Offset
<1> HIDE DEF high
<1>4. /\ Same(a, u, {"max_page_used"}) /\ Pooled(u) /\ Used(u) = [Used(a) EXCEPT ![page] = high]
      /\ Cp(u) = Cp(a) /\ Errs(u) = Errs(a)
  BY <1>1, <1>3, UsedFields
<1> HIDE DEF u
<1>5. /\ o <= Used(u)[page] /\ \A q \in Pages : Used(a)[q] <= Used(u)[q]
      /\ \A q \in Pages : q # page => Used(u)[q] = Used(a)[q]
      /\ Used(u)[page] = high
  BY <1>1, <1>3, <1>4 DEF Offset
<1>6. CASE o >= Room(Cp(a)[page])
  <2>1. b = errorMessage(u, m)
    BY <1>2, <1>6
  <2>2. Same(u, b, Faulted)
    BY <2>1, MessageSame
  <2>3. Errs(b) \in Nat /\ Errs(b) # 0
    BY <1>4, <2>1, MessageCounts DEF Pooled, PoolFields
  <2>4. Same(u, b, Aside)
    BY <2>2, SameMore DEF Aside
  <2>5. Pooled(b)
    BY <1>4, <2>3, <2>4, AsidePooled
  <2>6. Same(a, b, {"max_page_used"} \cup Faulted)
    BY <1>4, <2>2, SameTrans
  <2>7. Tested(a, b, loc)
    BY <2>3, <2>5, <2>6 DEF Tested
  <2> QED BY <2>7 DEF b
<1>7. CASE ~(o >= Room(Cp(a)[page]))
  <2>1. b = u
    BY <1>2, <1>7
  <2>2. Room(Cp(a)[page]) \in Int
    BY <1>1, Rooms DEF Pooled
  <2>3. o < Room(Cp(a)[page])
    BY <1>1, <1>7, <2>2 DEF Offset
  <2>4. Apart(a) => Apart(u)
    BY <1>3, <1>4, <1>5, <2>3 DEF Apart
  <2>5. Same(a, b, {"max_page_used"} \cup Faulted)
    BY <1>4, <2>1, SameMore
  <2>6. /\ InPage(loc) < Room(Cp(a)[GET_PAGE_INDEX(loc)])
        /\ InPage(loc) <= Used(u)[GET_PAGE_INDEX(loc)]
    BY <1>5, <2>3 DEF page, o
  <2>7. Tested(a, b, loc)
    BY <1>4, <1>5, <2>1, <2>4, <2>5, <2>6 DEF Tested
  <2> QED BY <2>7 DEF b
<1> QED BY <1>6, <1>7 DEF b

(* A pool put in the place of another.                                     *)
PoolAt(a, page, p) == [a EXCEPT !.cp[page] = p]

LEMMA PoolFieldsAt ==
  ASSUME NEW a, Pooled(a), NEW page \in Pages, NEW p \in Pool
  PROVE  /\ Same(a, PoolAt(a, page, p), {"cp"}) /\ Pooled(PoolAt(a, page, p))
         /\ Cp(PoolAt(a, page, p)) = [Cp(a) EXCEPT ![page] = p]
         /\ Used(PoolAt(a, page, p)) = Used(a) /\ Errs(PoolAt(a, page, p)) = Errs(a)
<1> DEFINE b == PoolAt(a, page, p)
<1>1. DOMAIN a = PoolFields /\ Cp(a) \in [Pages -> Pool]
  BY DEF Pooled
<1>2. /\ Same(a, b, {"cp"}) /\ b.cp = [a.cp EXCEPT ![page] = p]
  BY <1>1 DEF PoolAt, Same, PoolFields
<1> HIDE DEF b
<1>3. Cp(b) = [Cp(a) EXCEPT ![page] = p]
  BY <1>2 DEF Cp
<1>4. Cp(b) \in [Pages -> Pool]
  BY <1>1, <1>3
<1>5. /\ DOMAIN b = PoolFields /\ Used(b) = Used(a) /\ Clc(b) = Clc(a) /\ Fld(b) = Fld(a)
      /\ Rel(b) = Rel(a) /\ (Two(b) <=> Two(a)) /\ Errs(b) = Errs(a)
  BY <1>1, <1>2, Kept
<1>6. Pooled(b)
  BY <1>4, <1>5 DEF Pooled
<1> QED BY <1>2, <1>3, <1>5, <1>6 DEF b

(* A literal more in a pool, below the others.                             *)
More(p, value) == [p EXCEPT !.pool = Append(@, value)]

LEMMA MoreFits ==
  ASSUME NEW p \in Pool, NEW value \in Word
  PROVE  /\ More(p, value) \in Pool /\ Room(More(p, value)) = Room(p) - 1
         /\ Done(More(p, value)) = Done(p)
         /\ Size(More(p, value)) = Size(p) + 1
         /\ Lit(More(p, value), Size(p) + 1) = value
         /\ \A i \in 1..Size(p) : Lit(More(p, value), i) = Lit(p, i)
<1> DEFINE s == p.pool
           m == More(p, value)
<1>1. s \in Seq(Word) /\ p.punched \in Nat /\ p.punched <= Len(s)
  BY DEF Pool, Done, Size
<1>2. m = [pool |-> Append(s, value), punched |-> p.punched]
  <2>1. PICK q \in Seq(Word), n \in Nat : p = [pool |-> q, punched |-> n]
    BY DEF Pool
  <2>2. More(p, value) = [pool |-> Append(q, value), punched |-> n]
    BY <2>1 DEF More
  <2> QED BY <2>1, <2>2
<1>3. m.pool = Append(s, value) /\ m.punched = p.punched
  BY <1>2
<1>4. m \in [pool : Seq(Word), punched : Nat]
  BY <1>1, <1>2
<1>5. /\ Size(p) = Len(s) /\ Done(p) = p.punched /\ \A i \in 1..Len(s) : Lit(p, i) = s[i]
  BY DEF Size, Done, Lit
<1> HIDE DEF s, m
<1>6. /\ Len(Append(s, value)) = Len(s) + 1 /\ Append(s, value)[Len(s) + 1] = value
      /\ \A i \in 1..Len(s) : Append(s, value)[i] = s[i]
      /\ Len(s) \in Nat
  BY <1>1
<1>7. /\ Size(m) = Len(s) + 1 /\ Done(m) = p.punched /\ Lit(m, Len(s) + 1) = value
      /\ \A i \in 1..Len(s) : Lit(m, i) = s[i]
  BY <1>3, <1>6 DEF Size, Done, Lit
<1>8. m \in Pool
  <2>1. Done(m) <= Size(m)
    BY <1>1, <1>6, <1>7
  <2> QED BY <1>4, <2>1 DEF Pool
<1>9. Room(m) = Room(p) - 1
  <2>1. Room(m) = 128 - Size(m) /\ Room(p) = 128 - Size(p)
    BY DEF Room, PoolLoc, PAGE_SIZE, Size
  <2> QED BY <1>5, <1>6, <1>7, <2>1
<1> QED BY <1>5, <1>7, <1>8, <1>9 DEF m

(* A literal is found in the pool of its page, or added below it where,    *)
(* without an error, no code has come so far.                              *)
Found(a, b, page, value, ix) ==
  b = a /\ \E i \in 1..Size(Cp(a)[page]) : Lit(Cp(a)[page], i) = value /\ ix = 128 - i

Added(a, b, page, value, ix) ==
  /\ Cp(b) = [Cp(a) EXCEPT ![page] = More(Cp(a)[page], value)]
  /\ ix = Room(Cp(a)[page]) - 1
  /\ Errs(b) = 0 => Used(a)[page] < ix

Inserted(a, b, page, value, ix) ==
  /\ Pooled(b) /\ Same(a, b, {"cp"} \cup Faulted)
  /\ Errs(b) = 0 => Errs(a) = 0 /\ (Apart(a) => Apart(b))
  /\ Found(a, b, page, value, ix) \/ Added(a, b, page, value, ix)

LEMMA LiteralInserted ==
  ASSUME NEW a, Pooled(a), NEW value \in Word, NEW page \in Pages
  PROVE  Inserted(a, insertLiteral(a, value, page).a, page, value,
                  insertLiteral(a, value, page).ix)
<1> DEFINE p == a.cp[page]
           here == {i \in DOMAIN p.pool : p.pool[i] = value}
           first == CHOOSE i \in here : \A j \in here : i <= j
           below == PoolLoc(p) - 1
           added == [a EXCEPT !.cp[page].pool = Append(@, value)]
           l == insertLiteral(a, value, page)
           b == l.a
           ix == l.ix
<1>1. l = IF here # {} THEN [a |-> a, ix |-> PAGE_SIZE - first]
          ELSE [a |-> IF a.max_page_used[page] >= below
                      THEN errorMessage(added, Overflow(page)) ELSE added,
                ix |-> below]
  BY DEF insertLiteral
<1>2. p = Cp(a)[page] /\ below = Room(p) - 1 /\ a.max_page_used = Used(a)
  BY DEF Cp, Room, Used
<1>3. added = PoolAt(a, page, More(Cp(a)[page], value))
  BY DEF PoolAt, More, Cp
<1>4. DOMAIN p.pool = 1..Size(p) /\ \A i \in 1..Size(p) : p.pool[i] = Lit(p, i)
  <2>1. p \in Pool
    BY <1>2 DEF Pooled
  <2> HIDE DEF p
  <2>2. p.pool \in Seq(Word)
    BY <2>1 DEF Pool
  <2> QED BY <2>2 DEF Size, Lit
<1>5. p \in Pool /\ Size(p) \in Nat /\ Room(p) \in Int
  <2>1. p \in Pool
    BY <1>2 DEF Pooled
  <2> HIDE DEF p
  <2> QED BY <2>1, Rooms
<1> HIDE DEF l, p
<1>6. CASE here # {}
  <2>1. here \in SUBSET Nat
    BY <1>4, <1>5
  <2>2. \E m \in here : \A y \in here : m <= y
    <3> HIDE DEF here
    <3> QED BY <1>6, <2>1, Reader!LeastElement
  <2>3. first \in here
    <3> HIDE DEF here
    <3> QED BY <2>2
  <2>4. b = a /\ ix = 128 - first
    <3> HIDE DEF here, first
    <3> QED BY <1>1, <1>6 DEF PAGE_SIZE
  <2>5. first \in 1..Size(p) /\ Lit(p, first) = value
    <3>1. first \in DOMAIN p.pool /\ p.pool[first] = value
      <4> HIDE DEF first
      <4> QED BY <2>3
    <3> HIDE DEF first, here
    <3> QED BY <1>4, <3>1
  <2> HIDE DEF first, here, b, ix
  <2>6. Found(a, b, page, value, ix)
    BY <1>2, <2>4, <2>5 DEF Found
  <2>7. Same(a, b, {"cp"} \cup Faulted)
    BY <2>4, SameSelf
  <2> QED BY <2>4, <2>6, <2>7 DEF Inserted, b, ix, l
<1>7. CASE here = {}
  <2> HIDE DEF here, first
  <2>1. ix = below
    BY <1>1, <1>7
  <2>2. b = IF a.max_page_used[page] >= below
            THEN errorMessage(added, Overflow(page)) ELSE added
    BY <1>1, <1>7
  <2> HIDE DEF b, ix
  <2>3. More(p, value) \in Pool /\ Room(More(p, value)) = below
    <3>1. More(p, value) \in Pool /\ Room(More(p, value)) = Room(p) - 1
      BY <1>5, MoreFits
    <3> QED BY <1>2, <3>1
  <2>4. /\ Same(a, added, {"cp"}) /\ Pooled(added) /\ Used(added) = Used(a)
        /\ Cp(added) = [Cp(a) EXCEPT ![page] = More(p, value)] /\ Errs(added) = Errs(a)
    BY <1>2, <1>3, <2>3, PoolFieldsAt
  <2>5. Used(a)[page] \in Int /\ Cp(a) \in [Pages -> Pool]
    BY DEF Pooled, Offset
  <2>6. below \in Int
    BY <1>2, <1>5
  <2> HIDE DEF added, below
  <2>7. CASE a.max_page_used[page] >= below
    <3>1. b = errorMessage(added, Overflow(page))
      BY <2>2, <2>7
    <3>2. Same(added, b, Faulted) /\ Errs(b) \in Nat /\ Errs(b) # 0
      BY <2>4, <3>1, MessageSame, MessageCounts DEF Pooled, PoolFields
    <3>3. Same(added, b, Aside)
      BY <3>2, SameMore DEF Aside
    <3>4. Pooled(b) /\ Cp(b) = Cp(added)
      BY <2>4, <3>2, <3>3, AsidePooled
    <3>5. Same(a, b, {"cp"} \cup Faulted)
      BY <2>4, <3>2, SameTrans
    <3>6. Added(a, b, page, value, ix)
      <4>1. ix = Room(Cp(a)[page]) - 1
        BY <1>2, <2>1
      <4>2. Cp(b) = [Cp(a) EXCEPT ![page] = More(Cp(a)[page], value)]
        BY <1>2, <2>4, <3>4
      <4> QED BY <3>2, <4>1, <4>2 DEF Added
    <3> QED BY <3>2, <3>4, <3>5, <3>6 DEF Inserted, b, ix, l
  <2>8. CASE ~(a.max_page_used[page] >= below)
    <3>1. b = added
      BY <2>2, <2>8
    <3>2. Same(a, b, {"cp"} \cup Faulted)
      BY <2>4, <3>1, SameMore
    <3>3. Used(a)[page] < below
      BY <1>2, <2>5, <2>6, <2>8
    <3>4. Added(a, b, page, value, ix)
      <4>1. ix = Room(Cp(a)[page]) - 1 /\ Used(a)[page] < ix
        BY <1>2, <2>1, <3>3
      <4>2. Cp(b) = [Cp(a) EXCEPT ![page] = More(Cp(a)[page], value)]
        BY <1>2, <2>4, <3>1
      <4> QED BY <4>1, <4>2 DEF Added
    <3>5. Apart(a) => Apart(b)
      <4>1. /\ Cp(b)[page] = More(p, value) /\ Used(b) = Used(a)
            /\ \A q \in Pages : q # page => Cp(b)[q] = Cp(a)[q]
        BY <2>4, <2>5, <3>1
      <4> QED BY <2>3, <3>3, <4>1 DEF Apart
    <3>6. Pooled(b) /\ Errs(b) = Errs(a)
      BY <2>4, <3>1
    <3> QED BY <3>2, <3>4, <3>5, <3>6 DEF Inserted, b, ix, l
  <2> QED BY <2>7, <2>8
<1> QED BY <1>6, <1>7

(* What becomes of the location counter, the field and RELOC is no matter  *)
(* of the pools either.                                                    *)
Moved == Aside \cup {"clc", "reloc", "field"}

LEMMA MovedPooled ==
  ASSUME NEW a, Pooled(a), NEW b, Same(a, b, Moved), Errs(b) \in Nat,
         Clc(b) \in Int, Rel(b) \in Int, Fld(b) \in Fields
  PROVE  Pooled(b) /\ Cp(b) = Cp(a) /\ Used(b) = Used(a) /\ (Apart(a) <=> Apart(b))
<1>1. DOMAIN a = PoolFields
  BY DEF Pooled
<1>2. DOMAIN b = PoolFields /\ Cp(b) = Cp(a) /\ Used(b) = Used(a) /\ (Two(b) <=> Two(a))
  BY <1>1, Kept DEF Moved, Aside, Taped, Listed, Faulted
<1> QED BY <1>2 DEF Pooled, Apart

ClcAt(a, c) == [a EXCEPT !.clc = c]

LEMMA ClcSet ==
  ASSUME NEW a, Pooled(a), NEW c \in Int
  PROVE  /\ Same(a, ClcAt(a, c), {"clc"}) /\ Pooled(ClcAt(a, c)) /\ Clc(ClcAt(a, c)) = c
         /\ Cp(ClcAt(a, c)) = Cp(a) /\ Used(ClcAt(a, c)) = Used(a)
         /\ Fld(ClcAt(a, c)) = Fld(a) /\ Rel(ClcAt(a, c)) = Rel(a)
         /\ Errs(ClcAt(a, c)) = Errs(a) /\ (Apart(a) <=> Apart(ClcAt(a, c)))
<1> DEFINE b == ClcAt(a, c)
<1>1. DOMAIN a = PoolFields
  BY DEF Pooled
<1>2. Same(a, b, {"clc"}) /\ b.clc = c
  BY <1>1 DEF ClcAt, Same, PoolFields
<1> HIDE DEF b
<1>3. /\ Clc(b) = c /\ Fld(b) = Fld(a) /\ Rel(b) = Rel(a) /\ Errs(b) = Errs(a)
  BY <1>1, <1>2, Kept DEF Clc
<1>4. Same(a, b, Moved)
  BY <1>2, SameMore DEF Moved
<1>5. Fld(a) \in Fields /\ Rel(a) \in Int /\ Errs(a) \in Nat
  BY DEF Pooled
<1>6. Pooled(b) /\ Cp(b) = Cp(a) /\ Used(b) = Used(a) /\ (Apart(a) <=> Apart(b))
  BY <1>3, <1>4, <1>5, MovedPooled
<1> QED BY <1>2, <1>3, <1>6 DEF b

(* The pools of a new pass, or a new field.                                *)
Emptied == [i \in Pages |-> EmptyPool]

LEMMA EmptyFits == EmptyPool \in Pool /\ Size(EmptyPool) = 0 /\ Done(EmptyPool) = 0
                   /\ Room(EmptyPool) = 128
<1>1. <<>> \in Seq(Word) /\ Len(<<>>) = 0
  OBVIOUS
<1> DEFINE none == <<>>
<1>2. EmptyPool = [pool |-> none, punched |-> 0]
  BY DEF EmptyPool
<1> HIDE DEF none
<1>3. EmptyPool \in [pool : Seq(Word), punched : Nat] /\ EmptyPool.pool = none
      /\ EmptyPool.punched = 0
  <2>1. none \in Seq(Word)
    BY <1>1 DEF none
  <2> QED BY <1>2, <2>1
<1>4. Size(EmptyPool) = 0 /\ Done(EmptyPool) = 0
  BY <1>1, <1>3 DEF Size, Done, none
<1>5. Room(EmptyPool) = 128 - Size(EmptyPool)
  BY DEF Room, PoolLoc, PAGE_SIZE, Size
<1> QED BY <1>3, <1>4, <1>5 DEF Pool

LEMMA TableCleared ==
  ASSUME NEW a, Pooled(a)
  PROVE  /\ Same(a, clearLiteralTable(a), {"cp", "max_page_used"})
         /\ Pooled(clearLiteralTable(a)) /\ Apart(clearLiteralTable(a))
         /\ Cp(clearLiteralTable(a)) = Emptied
<1> DEFINE b == clearLiteralTable(a)
           zeros == [i \in Pages |-> 0]
<1>1. DOMAIN a = PoolFields
  BY DEF Pooled
<1>2. b = [a EXCEPT !.cp = Emptied, !.max_page_used = zeros]
  BY DEF clearLiteralTable, Emptied, Pages, MAX_PAGES
<1> HIDE DEF b
<1>3. zeros \in [Pages -> Offset] /\ \A q \in Pages : zeros[q] = 0
  BY DEF Offset
<1> HIDE DEF zeros
<1>4. Same(a, b, {"cp", "max_page_used"}) /\ b.cp = Emptied /\ b.max_page_used = zeros
  BY <1>1, <1>2 DEF Same, PoolFields
<1>5. Cp(b) = Emptied /\ Used(b) = zeros
  BY <1>4 DEF Cp, Used
<1>6. Emptied \in [Pages -> Pool] /\ \A q \in Pages : Emptied[q] = EmptyPool
  BY EmptyFits DEF Emptied
<1>7. /\ DOMAIN b = PoolFields /\ Clc(b) = Clc(a) /\ Fld(b) = Fld(a)
      /\ Rel(b) = Rel(a) /\ (Two(b) <=> Two(a)) /\ Errs(b) = Errs(a)
  BY <1>1, <1>4, Kept
<1>8. Pooled(b)
  BY <1>3, <1>5, <1>6, <1>7 DEF Pooled
<1>9. Apart(b)
  BY <1>3, <1>5, <1>6, EmptyFits DEF Apart
<1> QED BY <1>4, <1>5, <1>8, <1>9 DEF b

(* A word is assembled: its location is tested, and the counter steps.     *)
Stepped(c) == FieldBits(c) + ((c + 1) % 4096)

LEMMA SteppedLow ==
  ASSUME NEW c \in Int
  PROVE  Stepped(c) \in Int /\ Stepped(c) % 4096 = ((c % 4096) + 1) % 4096
<1> DEFINE k == (c \div 4096) % 8
<1>1. k \in 0..7
  OBVIOUS
<1>2. Stepped(c) = k * 4096 + ((c + 1) % 4096)
  BY DEF Stepped, FieldBits
<1> HIDE DEF k
<1>3. (c + 1) % 4096 \in 0..4095 /\ (c + 1) % 4096 = ((c % 4096) + 1) % 4096
  OBVIOUS
<1>4. \A n \in 0..4095 : (k * 4096 + n) % 4096 = n
  BY <1>1
<1> DEFINE n == (c + 1) % 4096
<1>5. n \in 0..4095 /\ Stepped(c) = k * 4096 + n
  BY <1>2, <1>3
<1> HIDE DEF n
<1>6. Stepped(c) \in Int /\ Stepped(c) % 4096 = n
  BY <1>1, <1>4, <1>5
<1> QED BY <1>3, <1>6 DEF n

LEMMA ClcStepped ==
  ASSUME NEW a, Pooled(a)
  PROVE  \E t : Tested(a, t, Clc(a)) /\ incrementClc(a) = ClcAt(t, Stepped(Clc(a)))
<1> DEFINE t == testForLiteralCollision(a, Clc(a))
<1>1. Clc(a) \in Int
  BY DEF Pooled
<1>2. Tested(a, t, Clc(a))
  BY <1>1, CollisionTested
<1>3. incrementClc(a) = ClcAt(t, Stepped(Clc(t)))
  BY DEF incrementClc, ClcAt, Stepped, Clc
<1> HIDE DEF t
<1>4. Clc(t) = Clc(a)
  <2>1. Same(a, t, {"max_page_used"} \cup Faulted) /\ DOMAIN a = PoolFields
    BY <1>2 DEF Tested, Pooled
  <2> QED BY <2>1, Kept DEF Faulted
<1> QED BY <1>2, <1>3, <1>4

-----------------------------------------------------------------------------
(* What is on the tape so far: memory as the loader will have it once it   *)
(* has stored the word it holds, and where it will put the next one.       *)
Mem(a) == BinWord(sim_load_bin(TapeOf(a))).core
Org(a) == BinWord(sim_load_bin(TapeOf(a))).origin

Following(a, w, p) == Follows(sim_load_bin(TapeOf(a)), SumOf(a), w, Fld(a), p)

OnTape(a) == /\ DOMAIN a = PoolFields /\ Puncher(a) /\ Bin(a) /\ On(a) /\ Data(a)
             /\ Following(a, Mem(a), Org(a))

LEMMA OnTapeIs ==
  ASSUME NEW a, DOMAIN a = PoolFields, Puncher(a), Bin(a), On(a), Data(a),
         NEW w, NEW p, Following(a, w, p)
  PROVE  OnTape(a) /\ Mem(a) = w /\ Org(a) = p
<1>1. Mem(a) = w /\ Org(a) = p
  BY DEF Following, Follows, Mem, Org
<1> QED BY <1>1 DEF OnTape

LEMMA PairRead ==
  ASSUME NEW a, Puncher(a), On(a), NEW h \in Frames, NEW c \in Frames, NEW b, Pair(a, b, h, c)
  PROVE  /\ sim_load_bin(TapeOf(b)) = BinFrame(BinFrame(sim_load_bin(TapeOf(a)), h), c)
         /\ SumOf(b) = (SumOf(a) + h + c) % 4096 /\ SumOf(a) \in Word
         /\ Puncher(b) /\ On(b) /\ Data(b) /\ (Bin(a) => Bin(b))
<1>1. ReadOn(sim_load_bin(TapeOf(a)), TapeOf(a), TapeOf(b)) = sim_load_bin(TapeOf(b))
  BY ReadOnPair
<1>2. ReadOn(sim_load_bin(TapeOf(a)), TapeOf(a), TapeOf(b))
        = BinFrame(BinFrame(sim_load_bin(TapeOf(a)), h), c)
  BY ReadsPair
<1>3. SumOf(a) \in Word
  BY DEF Puncher
<1>4. /\ SumOf(b) = (SumOf(a) + h + c) % 4096
      /\ Puncher(b) /\ On(b) /\ Data(b) /\ (Bin(a) => Bin(b))
  BY DEF Pair, Alike
<1> QED BY <1>1, <1>2, <1>3, <1>4

(* The halves of a word, and of an origin.                                 *)
LEMMA Halves ==
  ASSUME NEW v \in Word
  PROVE  v \div 64 \in Frames /\ (v \div 64) + 64 \in Frames /\ v % 64 \in Frames
<1>1. v \in 0..4095
  BY DEF Word
<1> DEFINE h == v \div 64
           c == v % 64
<1>2. h \in 0..63 /\ c \in 0..63
  <2>1. h \in 0..63
    BY <1>1
  <2>2. c \in 0..63
    BY <1>1
  <2> QED BY <2>1, <2>2
<1> HIDE DEF h, c
<1>3. h \in 0..255 /\ h + 64 \in 0..255 /\ c \in 0..255
  BY <1>2
<1> QED BY <1>3 DEF Frames, h, c

(* An origin moves the place of the next word.                             *)
LEMMA OriginPunched ==
  ASSUME NEW a, OnTape(a), NEW loc \in Int
  PROVE  /\ OnTape(punchOrigin(a, loc)) /\ Mem(punchOrigin(a, loc)) = Mem(a)
         /\ Org(punchOrigin(a, loc)) = loc % 4096
         /\ OriginUnlessRim(a) = punchOrigin(a, a.clc)
<1> DEFINE b == punchOrigin(a, loc)
           v == loc % 4096
           h == (v \div 64) + 64
           c == v % 64
           l == sim_load_bin(TapeOf(a))
<1>1. v \in Word
  BY LowBits
<1>2. h \in Frames /\ c \in Frames
  <2> HIDE DEF v
  <2> QED BY <1>1, Halves
<1>3. DOMAIN a = PoolFields /\ Puncher(a) /\ Bin(a) /\ On(a) /\ Following(a, Mem(a), Org(a))
  BY DEF OnTape
<1>4. Pair(a, b, h, c)
  <2>1. OriginOn(a, b, loc)
    BY <1>3, OriginPair
  <2> QED BY <2>1 DEF OriginOn
<1>5. Same(a, b, Taped)
  BY OriginSame
<1> HIDE DEF b, v
<1>6. /\ sim_load_bin(TapeOf(b)) = BinFrame(BinFrame(l, h), c)
      /\ SumOf(b) = (SumOf(a) + h + c) % 4096 /\ SumOf(a) \in Word
      /\ Puncher(b) /\ On(b) /\ Data(b) /\ Bin(b)
  <2> HIDE DEF h, c
  <2> QED BY <1>2, <1>3, <1>4, PairRead
<1>7. DOMAIN b = PoolFields /\ Fld(b) = Fld(a)
  BY <1>3, <1>5, Kept DEF Taped
<1>8. Follows(BinFrame(BinFrame(l, h), c), (SumOf(a) + h + c) % 4096, Mem(a), Fld(a), v)
  <2> HIDE DEF l
  <2>1. Follows(l, SumOf(a), Mem(a), Fld(a), Org(a))
    BY <1>3 DEF Following, l
  <2> QED BY <1>1, <1>6, <2>1, FollowsOrigin
<1> HIDE DEF h, c, l
<1>9. Following(b, Mem(a), v)
  BY <1>6, <1>7, <1>8 DEF Following
<1>10. OnTape(b) /\ Mem(b) = Mem(a) /\ Org(b) = v
  BY <1>6, <1>7, <1>9, OnTapeIs
<1>11. OriginUnlessRim(a) = punchOrigin(a, a.clc)
  BY <1>3 DEF OriginUnlessRim, Bin
<1> QED BY <1>10, <1>11 DEF b, v

(* A word is stored.                                                       *)
LEMMA WordPunched ==
  ASSUME NEW a, OnTape(a), NEW loc, NEW val \in Int
  PROVE  /\ OnTape(punchLocObject(a, loc, val))
         /\ Mem(punchLocObject(a, loc, val)) = Stored(Mem(a), Fld(a) + Org(a), val % 4096)
         /\ Org(punchLocObject(a, loc, val)) = (Org(a) + 1) % 4096
<1> DEFINE b == punchLocObject(a, loc, val)
           v == val % 4096
           h == v \div 64
           c == v % 64
           l == sim_load_bin(TapeOf(a))
           w == Stored(Mem(a), Fld(a) + Org(a), v)
           p == (Org(a) + 1) % 4096
<1>1. v \in Word
  BY LowBits
<1>2. h \in Frames /\ c \in Frames
  <2> HIDE DEF v
  <2> QED BY <1>1, Halves
<1>3. DOMAIN a = PoolFields /\ Puncher(a) /\ Bin(a) /\ On(a) /\ Following(a, Mem(a), Org(a))
  BY DEF OnTape
<1>4. Pair(a, b, h, c)
  BY <1>3, WordPair
<1>5. Same(a, b, Taped)
  BY LocSame
<1> HIDE DEF b, v
<1>6. /\ sim_load_bin(TapeOf(b)) = BinFrame(BinFrame(l, h), c)
      /\ SumOf(b) = (SumOf(a) + h + c) % 4096 /\ SumOf(a) \in Word
      /\ Puncher(b) /\ On(b) /\ Data(b) /\ Bin(b)
  <2> HIDE DEF h, c
  <2> QED BY <1>2, <1>3, <1>4, PairRead
<1>7. DOMAIN b = PoolFields /\ Fld(b) = Fld(a)
  BY <1>3, <1>5, Kept DEF Taped
<1>8. Follows(BinFrame(BinFrame(l, h), c), (SumOf(a) + h + c) % 4096, w, Fld(a), p)
  <2> HIDE DEF l
  <2>1. Follows(l, SumOf(a), Mem(a), Fld(a), Org(a))
    BY <1>3 DEF Following, l
  <2> QED BY <1>1, <1>6, <2>1, FollowsWord
<1> HIDE DEF h, c, l, w, p
<1>9. Following(b, w, p)
  BY <1>6, <1>7, <1>8 DEF Following
<1>10. OnTape(b) /\ Mem(b) = w /\ Org(b) = p
  BY <1>6, <1>7, <1>9, OnTapeIs
<1> QED BY <1>10 DEF b, v, w, p

(* A change of field leaves both.                                          *)
LEMMA FieldPunched ==
  ASSUME NEW a, OnTape(a), NEW g \in 0..7
  PROVE  /\ OnTape(FieldFrame(a, g)) /\ Mem(FieldFrame(a, g)) = Mem(a)
         /\ Org(FieldFrame(a, g)) = Org(a) /\ Fld(FieldFrame(a, g)) = FieldBase(g)
         /\ Same(a, FieldFrame(a, g), Taped \cup {"field"})
<1> DEFINE b == FieldFrame(a, g)
           l == sim_load_bin(TapeOf(a))
           fr == 192 + 8 * g
           q == punchObject(a, 8 * g + 192)
<1>1. /\ DOMAIN a = PoolFields /\ Puncher(a) /\ Bin(a) /\ On(a)
      /\ Follows(l, SumOf(a), Mem(a), Fld(a), Org(a))
  BY DEF OnTape, Following
<1>2. fr \in Frames /\ TapeOf(a) \in Seq(Frames)
  BY <1>1 DEF Frames, Puncher
<1>3. Alike(a, b) /\ SumOf(b) = SumOf(a) /\ TapeOf(b) = Append(TapeOf(a), fr)
  BY <1>1, PunchField
<1>4. Same(a, q, Taped)
  BY PunchSame
<1>5. Same(a, b, Taped \cup {"field"}) /\ b.field = FieldBase(g)
  <2>1. DOMAIN q = PoolFields
    BY <1>1, <1>4 DEF Same
  <2> DEFINE s == IF a.objectfile THEN (q.checksum - (8 * g + 192)) % 4096 ELSE q.checksum
             n == 4096 * g
  <2>2. b = [q EXCEPT !.checksum = s, !.field = n]
    BY DEF FieldFrame
  <2> HIDE DEF q, b, s, n
  <2>3. Same(q, b, Taped \cup {"field"}) /\ b.field = n
    BY <2>1, <2>2 DEF Same, Taped, PoolFields
  <2>4. Taped \cup (Taped \cup {"field"}) = Taped \cup {"field"}
    OBVIOUS
  <2> QED BY <1>4, <2>3, <2>4, SameTrans DEF n, FieldBase
<1> HIDE DEF b, q
<1>6. DOMAIN b = PoolFields /\ Fld(b) = FieldBase(g)
  BY <1>1, <1>5 DEF Same, Fld
<1>7. sim_load_bin(TapeOf(b)) = BinFrame(l, FieldChar(g))
  <2>1. fr = FieldChar(g)
    BY DEF FieldChar
  <2> HIDE DEF fr
  <2> QED BY <1>2, <1>3, <2>1, OneFrameMore
<1>8. Following(b, Mem(a), Org(a))
  <2>1. Follows(BinFrame(l, FieldChar(g)), SumOf(a), Mem(a), FieldBase(g), Org(a))
    <3> HIDE DEF l
    <3> QED BY <1>1, FollowsField
  <2> HIDE DEF l
  <2> QED BY <1>3, <1>6, <1>7, <2>1 DEF Following
<1>9. Puncher(b) /\ Bin(b) /\ On(b) /\ Data(b)
  BY <1>1, <1>3 DEF Alike
<1>10. OnTape(b) /\ Mem(b) = Mem(a) /\ Org(b) = Org(a)
  BY <1>6, <1>8, <1>9, OnTapeIs
<1> QED BY <1>5, <1>6, <1>10 DEF b

(* So does all that is not about the tape.                                 *)
Punching == {"tape", "checksum", "objectfile", "rim_mode", "field", "binary_data_output"}

LEMMA TapeKept ==
  ASSUME NEW a, OnTape(a), NEW b, NEW F, Same(a, b, F), F \cap Punching = {}
  PROVE  OnTape(b) /\ Mem(b) = Mem(a) /\ Org(b) = Org(a) /\ Fld(b) = Fld(a)
<1>1. DOMAIN a = PoolFields
  BY DEF OnTape
<1>2. /\ DOMAIN b = PoolFields /\ TapeOf(b) = TapeOf(a) /\ SumOf(b) = SumOf(a)
      /\ (On(b) <=> On(a)) /\ (Off(b) <=> Off(a)) /\ (Bin(b) <=> Bin(a))
      /\ (Data(b) <=> Data(a)) /\ Fld(b) = Fld(a)
  <2>1. /\ "tape" \notin F /\ "checksum" \notin F /\ "objectfile" \notin F
        /\ "rim_mode" \notin F /\ "field" \notin F /\ "binary_data_output" \notin F
    BY DEF Punching
  <2> QED BY <1>1, <2>1, Kept
<1>3. Mem(b) = Mem(a) /\ Org(b) = Org(a)
  BY <1>2 DEF Mem, Org
<1>4. Puncher(b) /\ Following(b, Mem(b), Org(b))
  BY <1>1, <1>2, <1>3 DEF OnTape, Puncher, Following
<1> QED BY <1>2, <1>3, <1>4 DEF OnTape

-----------------------------------------------------------------------------
(* Memory m holds the code C and, but for what waits to be punched, W, the *)
(* literals L, and nothing else; and no location has both.                 *)
Holds(m, C, L, W) ==
  /\ \A k \in DOMAIN C : k \notin DOMAIN L /\ k \in DOMAIN m /\ m[k] = C[k]
  /\ \A k \in DOMAIN L : k \in W \/ (k \in DOMAIN m /\ m[k] = L[k])
  /\ DOMAIN m \subseteq DOMAIN C \cup DOMAIN L

(* A literal is punched.                                                   *)
LEMMA LiteralHeld ==
  ASSUME NEW m, NEW C, NEW L, NEW W, Holds(m, C, L, W), NEW k \in DOMAIN L
  PROVE  Holds(Stored(m, k, L[k]), C, L, W \ {k})
<1> DEFINE n == Stored(m, k, L[k])
<1>1. /\ DOMAIN n = DOMAIN m \cup {k} /\ n[k] = L[k]
      /\ \A j \in DOMAIN m : j # k => n[j] = m[j]
  BY DEF Stored
<1> HIDE DEF n
<1>2. k \notin DOMAIN C
  BY DEF Holds
<1>3. Holds(n, C, L, W \ {k})
  BY <1>1, <1>2 DEF Holds
<1> QED BY <1>3 DEF n

(* A word of code is punched, where no literal is.                         *)
LEMMA CodeHeld ==
  ASSUME NEW m, NEW C, NEW L, NEW W, Holds(m, C, L, W), NEW k, k \notin DOMAIN L, NEW v
  PROVE  Holds(Stored(m, k, v), Stored(C, k, v), L, W)
<1> DEFINE n == Stored(m, k, v)
           D == Stored(C, k, v)
<1>1. /\ DOMAIN n = DOMAIN m \cup {k} /\ n[k] = v
      /\ \A j \in DOMAIN m : j # k => n[j] = m[j]
  BY DEF Stored
<1>2. /\ DOMAIN D = DOMAIN C \cup {k} /\ D[k] = v
      /\ \A j \in DOMAIN C : j # k => D[j] = C[j]
  BY DEF Stored
<1> HIDE DEF n, D
<1>3. Holds(n, D, L, W)
  <2>1. \A j \in DOMAIN D : j \notin DOMAIN L /\ j \in DOMAIN n /\ n[j] = D[j]
    <3>1. TAKE j \in DOMAIN D
    <3>2. CASE j = k
      BY <1>1, <1>2, <3>2
    <3>3. CASE j # k
      <4>1. j \in DOMAIN C
        BY <1>2, <3>3
      <4>2. j \notin DOMAIN L /\ j \in DOMAIN m /\ m[j] = C[j]
        BY <4>1 DEF Holds
      <4> QED BY <1>1, <1>2, <3>3, <4>1, <4>2
    <3> QED BY <3>2, <3>3
  <2>2. \A j \in DOMAIN L : j \in W \/ (j \in DOMAIN n /\ n[j] = L[j])
    BY <1>1 DEF Holds
  <2>3. DOMAIN n \subseteq DOMAIN D \cup DOMAIN L
    BY <1>1, <1>2 DEF Holds
  <2> QED BY <2>1, <2>2, <2>3 DEF Holds
<1> QED BY <1>3 DEF n, D

(* A literal is added, where no code is, and waits.                        *)
LEMMA LiteralWaits ==
  ASSUME NEW m, NEW C, NEW L, NEW W, Holds(m, C, L, W), NEW k \in W, k \notin DOMAIN C, NEW v
  PROVE  Holds(m, C, Stored(L, k, v), W)
<1> DEFINE n == Stored(L, k, v)
<1>1. /\ DOMAIN n = DOMAIN L \cup {k} /\ n[k] = v
      /\ \A j \in DOMAIN L : j # k => n[j] = L[j]
  BY DEF Stored
<1> HIDE DEF n
<1>2. Holds(m, C, n, W)
  BY <1>1 DEF Holds
<1> QED BY <1>2 DEF n

LEMMA HoldsMore ==
  ASSUME NEW m, NEW C, NEW L, NEW W, NEW V, Holds(m, C, L, W), W \subseteq V
  PROVE  Holds(m, C, L, V)
  BY DEF Holds

-----------------------------------------------------------------------------
(* What ties the pools to the literals and the code of the field: each     *)
(* literal is where its place in the pool says, and its pool is above the  *)
(* code of the page.                                                       *)
Loc(f, page, o) == f + page * 128 + o

Pend(a) == {k \in Int : \E page \in Pages : \E i \in 1..Size(Cp(a)[page]) :
                          i > Done(Cp(a)[page]) /\ k = Loc(Fld(a), page, 128 - i)}

Indexed(a, L) ==
  \A page \in Pages : \A i \in 1..Size(Cp(a)[page]) :
    /\ Loc(Fld(a), page, 128 - i) \in DOMAIN L
    /\ L[Loc(Fld(a), page, 128 - i)] = Lit(Cp(a)[page], i)

Above(a, L) == \A page \in Pages : \A o \in Offset :
                 Loc(Fld(a), page, o) \in DOMAIN L => o >= Room(Cp(a)[page])

Below(a, C) == \A page \in Pages : \A o \in Offset :
                 Loc(Fld(a), page, o) \in DOMAIN C => o <= Used(a)[page]

Tied(a, C, L) == Pooled(a) /\ Apart(a) /\ Indexed(a, L) /\ Above(a, L) /\ Below(a, C)

Full(a, C, L) == Tied(a, C, L) /\ OnTape(a) /\ Holds(Mem(a), C, L, Pend(a))

(* A location belongs to one field, page and offset.                       *)
LEMMA LocOnce ==
  ASSUME NEW f \in Fields, NEW page \in Pages, NEW o \in Offset,
         NEW q \in Pages, NEW u \in Offset, Loc(f, page, o) = Loc(f, q, u)
  PROVE  page = q /\ o = u
<1>1. /\ f \in Int /\ page \in 0..31 /\ q \in 0..31 /\ o \in 0..127 /\ u \in 0..127
  BY DEF Fields, Pages, Offset
<1>2. f + page * 128 + o = f + q * 128 + u
  BY DEF Loc
<1>3. page * 128 + o = q * 128 + u
  BY <1>1, <1>2
<1> QED BY <1>1, <1>3

LEMMA LocField ==
  ASSUME NEW f \in Fields, NEW page \in Pages, NEW o \in Offset
  PROVE  Loc(f, page, o) \in Int /\ f \div 4096 \in 0..7 /\ f = 4096 * (f \div 4096)
         /\ Loc(f, page, o) \div 4096 = f \div 4096 /\ (page * 128 + o) % 4096 = page * 128 + o
<1>1. PICK g \in 0..7 : f = 4096 * g
  BY DEF Fields
<1>2. page \in 0..31 /\ o \in 0..127
  BY DEF Pages, Offset
<1> DEFINE n == page * 128 + o
<1>3. n \in 0..4095 /\ Loc(f, page, o) = 4096 * g + n
  BY <1>1, <1>2 DEF Loc
<1> HIDE DEF n
<1>4. (4096 * g + n) \div 4096 = g /\ n % 4096 = n /\ (4096 * g) \div 4096 = g
  BY <1>3
<1>5. f \div 4096 = g /\ f = 4096 * (f \div 4096)
  BY <1>1, <1>4
<1>6. Loc(f, page, o) \in Int /\ Loc(f, page, o) \div 4096 = g
  BY <1>3, <1>4
<1> QED BY <1>4, <1>5, <1>6 DEF n

-----------------------------------------------------------------------------
(* The loop over the literals of a page.                                   *)
LitBody(page, b, i) == punchLiteral(b, page, i)
NoClaim(_g, _i, _b) == TRUE

Lits == INSTANCE Folding WITH Body <- LitBody, Good <- NoClaim

LiteralLoop(a, page, words) == FoldLeft(LAMBDA b, i : punchLiteral(b, page, i), a, words)

LEMMA LiteralFold ==
  ASSUME NEW a, NEW page, NEW words
  PROVE  LiteralLoop(a, page, words) = Lits!Fold(page, a, words)
  BY DEF LiteralLoop, LitBody, Lits!Fold, FoldLeft, MapThenFoldSet, Lits!FoldLeft,
         Lits!MapThenFoldSet, Max, Lits!Max

Waiting(p) == [i \in 1..(Size(p) - Done(p)) |-> i - 1]

LEMMA WaitingIs ==
  ASSUME NEW p \in Pool
  PROVE  /\ Waiting(p) \in Seq(Nat) /\ Len(Waiting(p)) = Size(p) - Done(p)
         /\ Size(p) - Done(p) \in Nat
         /\ \A i \in 1..(Size(p) - Done(p)) : Waiting(p)[i] = i - 1
<1> DEFINE n == Size(p) - Done(p)
<1>1. n \in Nat
  BY Rooms
<1> HIDE DEF n
<1>2. \A i \in 1..n : i - 1 \in Nat
  BY <1>1
<1> DEFINE s == [i \in 1..n |-> i - 1]
<1>3. s \in Seq(Nat) /\ Len(s) = n /\ \A i \in 1..n : s[i] = i - 1
  BY <1>1, <1>2
<1> QED BY <1>1, <1>3 DEF Waiting, n

(* The states of the loop.                                                 *)
Goes(f, a, page, n) == /\ f[0] = a
                       /\ \A i \in 0..n - 1 : f[i + 1] = punchLiteral(f[i], page, i)

LEMMA LiteralSteps ==
  ASSUME NEW a, NEW page, NEW p \in Pool
  PROVE  \E f : /\ Goes(f, a, page, Size(p) - Done(p))
                /\ f[Size(p) - Done(p)] = LiteralLoop(a, page, Waiting(p))
<1> DEFINE s == Waiting(p)
           n == Size(p) - Done(p)
<1>1. s \in Seq(Nat) /\ Len(s) = n /\ n \in Nat /\ \A i \in 1..n : s[i] = i - 1
  BY WaitingIs
<1> HIDE DEF s, n
<1>2. PICK f : Lits!Steps(f, page, a, s) /\ Lits!Fold(page, a, s) = f[Len(s)]
  BY <1>1, Lits!FoldSteps
<1>3. f[0] = a /\ \A i \in 1..Len(s) : f[i] = LitBody(page, f[i - 1], s[i])
  BY <1>2 DEF Lits!Steps
<1>4. f[n] = LiteralLoop(a, page, s)
  BY <1>1, <1>2, LiteralFold
<1>5. ASSUME NEW i \in 0..n - 1 PROVE f[i + 1] = punchLiteral(f[i], page, i)
  <2>1. i + 1 \in 1..Len(s) /\ (i + 1) - 1 = i /\ s[i + 1] = i
    BY <1>1
  <2> QED BY <1>3, <2>1 DEF LitBody
<1>6. Goes(f, a, page, n)
  BY <1>3, <1>5 DEF Goes
<1> QED BY <1>4, <1>6 DEF s, n

LEMMA LiteralSame ==
  ASSUME NEW b, NEW page, NEW i
  PROVE  Same(b, punchLiteral(b, page, i), Taped \cup Listed)
<1> DEFINE p == b.cp[page]
           loc == PoolStart(b, page) + i
           val == p.pool[Len(p.pool) - i]
           m == printLine(b, "LOC_VAL", OrBits(b.field, loc), val, NoOperand)
<1>1. punchLiteral(b, page, i) = punchLocObject(m, loc, val)
  BY DEF punchLiteral
<1> HIDE DEF p, loc, val
<1>2. Same(b, m, Listed)
  BY LineSame
<1> HIDE DEF m
<1>3. Same(m, punchLocObject(m, loc, val), Taped)
  BY LocSame
<1>4. Listed \cup Taped = Taped \cup Listed
  OBVIOUS
<1> QED BY <1>1, <1>2, <1>3, <1>4, SameTrans

(* A literal of the pool is punched, and listed.                           *)
LEMMA LiteralPunched ==
  ASSUME NEW b, NEW page \in Pages, NEW p \in Pool, Cp(b)[page] = p, NEW i \in Nat, i < Size(p)
  PROVE  /\ Same(b, punchLiteral(b, page, i), Taped \cup Listed)
         /\ OnTape(b) =>
              /\ OnTape(punchLiteral(b, page, i))
              /\ Org(punchLiteral(b, page, i)) = (Org(b) + 1) % 4096
              /\ Mem(punchLiteral(b, page, i)) =
                   Stored(Mem(b), Fld(b) + Org(b), Lit(p, Size(p) - i))
<1> DEFINE val == p.pool[Len(p.pool) - i]
           loc == PoolStart(b, page) + i
           m == printLine(b, "LOC_VAL", OrBits(b.field, loc), val, NoOperand)
           c == punchLiteral(b, page, i)
<1>1. c = punchLocObject(m, loc, val)
  BY DEF punchLiteral, Cp
<1>2. val = Lit(p, Size(p) - i)
  BY DEF Lit, Size
<1>3. val \in Word /\ val \in Int /\ val % 4096 = val
  <2> HIDE DEF val
  <2>1. Size(p) \in Nat /\ \A t \in 1..Size(p) : Lit(p, t) \in Word
    BY Rooms
  <2>2. Size(p) - i \in 1..Size(p)
    BY <2>1
  <2>3. val \in Word
    BY <1>2, <2>1, <2>2
  <2>4. val \in Int
    BY <2>3 DEF Word
  <2> QED BY <2>3, <2>4, TwoHalves
<1> HIDE DEF val, loc
<1>4. Same(b, m, Listed)
  BY LineSame
<1> HIDE DEF m, c
<1>5. Same(m, c, Taped)
  BY <1>1, LocSame
<1>6. Same(b, c, Taped \cup Listed)
  <2>1. Listed \cup Taped = Taped \cup Listed
    OBVIOUS
  <2> QED BY <1>4, <1>5, <2>1, SameTrans
<1>7. ASSUME OnTape(b)
      PROVE  /\ OnTape(c) /\ Org(c) = (Org(b) + 1) % 4096
             /\ Mem(c) = Stored(Mem(b), Fld(b) + Org(b), val)
  <2>1. Listed \cap Punching = {}
    BY DEF Listed, Punching
  <2>2. OnTape(m) /\ Mem(m) = Mem(b) /\ Org(m) = Org(b) /\ Fld(m) = Fld(b)
    BY <1>4, <1>7, <2>1, TapeKept
  <2> QED BY <1>1, <1>3, <2>2, WordPunched
<1> QED BY <1>2, <1>6, <1>7 DEF c

(* All that the loop changes is the tape and the listing.                  *)
PoolIs(a, page, p) == DOMAIN a = PoolFields /\ Cp(a)[page] = p

LEMMA PoolStill ==
  ASSUME NEW a, NEW page, NEW p, PoolIs(a, page, p), NEW b, Same(a, b, Taped \cup Listed)
  PROVE  PoolIs(b, page, p) /\ Fld(b) = Fld(a)
  BY Kept DEF PoolIs, Taped, Listed

LEMMA OneSame ==
  ASSUME NEW a, NEW b, Same(a, b, Taped \cup Listed), NEW page, NEW i
  PROVE  Same(a, punchLiteral(b, page, i), Taped \cup Listed)
<1>1. Same(b, punchLiteral(b, page, i), Taped \cup Listed)
  BY LiteralSame
<1> QED BY <1>1, SameTrans

LEMMA StepsSame ==
  ASSUME NEW a, NEW page, NEW n \in Nat, NEW f, Goes(f, a, page, n), NEW k \in 0..n
  PROVE  Same(a, f[k], Taped \cup Listed)
<1> DEFINE S == {i \in Nat : i <= n => Same(a, f[i], Taped \cup Listed)}
<1>1. S \in SUBSET Nat /\ 0 \in S
  BY SameSelf DEF Goes
<1>2. ASSUME NEW i \in S PROVE i + 1 \in S
  <2> SUFFICES ASSUME i + 1 <= n PROVE Same(a, f[i + 1], Taped \cup Listed)
    BY <1>2
  <2>1. i \in Nat /\ i \in 0..n - 1 /\ Same(a, f[i], Taped \cup Listed)
    BY <1>2
  <2>3. f[i + 1] = punchLiteral(f[i], page, i)
    BY <2>1 DEF Goes
  <2> DEFINE b == f[i]
  <2>4. Same(a, b, Taped \cup Listed) /\ f[i + 1] = punchLiteral(b, page, i)
    BY <2>1, <2>3
  <2> HIDE DEF b, S
  <2>6. Same(a, punchLiteral(b, page, i), Taped \cup Listed)
    BY <2>4, OneSame
  <2> QED BY <2>4, <2>6
<1> HIDE DEF S
<1>3. Nat \subseteq S
  BY <1>1, <1>2, Lits!AllNaturals
<1>4. k \in S /\ k <= n
  BY <1>3
<1> QED BY <1>4 DEF S

(* The literals of a page are where their pool says.                       *)
Named(f, page, p, L) ==
  \A i \in 1..Size(p) : /\ Loc(f, page, 128 - i) \in DOMAIN L
                        /\ L[Loc(f, page, 128 - i)] = Lit(p, i)

(* The locations of the literals of a pool from the t-th down.             *)
Gone(f, page, p, t) == {Loc(f, page, 128 - i) : i \in t..Size(p)}

(* i literals of the page have been punched.                               *)
Ahead(b, page, p, i, C, L, W) == /\ OnTape(b) /\ Holds(Mem(b), C, L, W)
                                 /\ Org(b) = (page * 128 + Room(p) + i) % 4096

LEMMA StepHolds ==
  ASSUME NEW b, NEW page \in Pages, NEW p \in Pool, PoolIs(b, page, p), Room(p) >= 0,
         Fld(b) \in Fields, NEW C, NEW L, NEW W, Named(Fld(b), page, p, L),
         NEW i \in Nat, i < Size(p), Ahead(b, page, p, i, C, L, W)
  PROVE  Ahead(punchLiteral(b, page, i), page, p, i + 1, C, L,
               W \ {Loc(Fld(b), page, 128 - (Size(p) - i))})
<1> DEFINE t == Size(p) - i
           o == 128 - t
           c == punchLiteral(b, page, i)
           k == Loc(Fld(b), page, o)
<1>1. Room(p) = 128 - Size(p) /\ Size(p) \in Nat /\ Room(p) \in Int
  BY Rooms
<1>2. o \in 0..127 /\ o = Room(p) + i /\ t \in 1..Size(p)
  BY <1>1
<1>3. o \in Offset
  BY <1>2 DEF Offset
<1>4. OnTape(b) /\ Org(b) = (page * 128 + Room(p) + i) % 4096 /\ Holds(Mem(b), C, L, W)
  BY DEF Ahead
<1>5. /\ OnTape(c) /\ Org(c) = (Org(b) + 1) % 4096
      /\ Mem(c) = Stored(Mem(b), Fld(b) + Org(b), Lit(p, t))
  <2>1. Cp(b)[page] = p
    BY DEF PoolIs
  <2> QED BY <1>4, <2>1, LiteralPunched
<1>6. k \in DOMAIN L /\ L[k] = Lit(p, t)
  <2> HIDE DEF t
  <2> QED BY <1>2 DEF Named
<1> HIDE DEF c, o, t
<1>7. (page * 128 + o) % 4096 = page * 128 + o
  BY <1>3, LocField
<1>8. page \in Int /\ Fld(b) \in Int
  BY DEF Pages, Fields
<1>9. Org(b) = page * 128 + o
  BY <1>1, <1>2, <1>4, <1>7, <1>8
<1>10. Fld(b) + Org(b) = k
  BY <1>2, <1>8, <1>9 DEF Loc
<1>11. Org(c) = (page * 128 + Room(p) + (i + 1)) % 4096
  <2>1. Org(b) + 1 = page * 128 + Room(p) + (i + 1)
    BY <1>1, <1>2, <1>8, <1>9
  <2> QED BY <1>5, <2>1
<1> HIDE DEF k
<1>12. Holds(Stored(Mem(b), k, L[k]), C, L, W \ {k})
  BY <1>4, <1>6, LiteralHeld
<1>13. Holds(Mem(c), C, L, W \ {k})
  BY <1>5, <1>6, <1>10, <1>12
<1>14. Ahead(c, page, p, i + 1, C, L, W \ {k})
  BY <1>5, <1>11, <1>13 DEF Ahead
<1> QED BY <1>14 DEF c, k, o, t

LEMMA StepsHold ==
  ASSUME NEW a, NEW page \in Pages, NEW p \in Pool, PoolIs(a, page, p), Room(p) >= 0,
         Fld(a) \in Fields, NEW n \in Nat, n <= Size(p), NEW f, Goes(f, a, page, n),
         NEW C, NEW L, NEW W, Named(Fld(a), page, p, L), Ahead(a, page, p, 0, C, L, W)
  PROVE  Ahead(f[n], page, p, n, C, L, W \ Gone(Fld(a), page, p, Size(p) - n + 1))
<1> DEFINE G(i) == W \ Gone(Fld(a), page, p, Size(p) - i + 1)
           S == {i \in Nat : i <= n => Ahead(f[i], page, p, i, C, L, G(i))}
<1>1. Size(p) \in Nat
  BY Rooms
<1>2. ASSUME NEW i \in 0..n PROVE PoolIs(f[i], page, p) /\ Fld(f[i]) = Fld(a)
  <2>1. Same(a, f[i], Taped \cup Listed)
    BY StepsSame
  <2> QED BY <2>1, PoolStill
<1>3. 0 \in S
  <2>1. Gone(Fld(a), page, p, Size(p) - 0 + 1) = {}
    BY <1>1 DEF Gone
  <2>2. G(0) = W
    BY <2>1
  <2> HIDE DEF G
  <2>3. f[0] = a
    BY DEF Goes
  <2> QED BY <2>2, <2>3
<1>4. ASSUME NEW i \in S PROVE i + 1 \in S
  <2> SUFFICES ASSUME i + 1 <= n PROVE Ahead(f[i + 1], page, p, i + 1, C, L, G(i + 1))
    BY <1>4
  <2> DEFINE t == Size(p) - i
             k == Loc(Fld(a), page, 128 - t)
             b == f[i]
  <2>1. i \in Nat /\ i < Size(p) /\ i \in 0..n /\ i \in 0..n - 1
    BY <1>1, <1>4
  <2>2. Ahead(b, page, p, i, C, L, G(i))
    BY <1>4, <2>1
  <2>3. f[i + 1] = punchLiteral(b, page, i)
    BY <2>1 DEF Goes
  <2>4. PoolIs(b, page, p) /\ Fld(b) = Fld(a)
    BY <1>2, <2>1
  <2> HIDE DEF G, b
  <2>5. Ahead(f[i + 1], page, p, i + 1, C, L, G(i) \ {k})
    BY <2>1, <2>2, <2>3, <2>4, StepHolds
  <2>6. G(i) \ {k} \subseteq G(i + 1)
    <3>1. Gone(Fld(a), page, p, Size(p) - (i + 1) + 1)
            \subseteq Gone(Fld(a), page, p, Size(p) - i + 1) \cup {k}
      <4>1. \A j \in (Size(p) - (i + 1) + 1)..Size(p) :
              j \in (Size(p) - i + 1)..Size(p) \/ j = t
        BY <1>1, <2>1
      <4> HIDE DEF t
      <4> QED BY <4>1 DEF Gone
    <3> QED BY <3>1 DEF G
  <2> QED BY <2>5, <2>6, HoldsMore DEF Ahead
<1>5. S \in SUBSET Nat
  OBVIOUS
<1> HIDE DEF S
<1>6. n \in S
  BY <1>3, <1>4, <1>5, Lits!AllNaturals
<1> QED BY <1>6 DEF S

-----------------------------------------------------------------------------
(* The literals of a page are punched: its origin, the loop, and a note of *)
(* how many have been.                                                     *)
Punched(p) == [p EXCEPT !.punched = Len(p.pool)]

LEMMA PunchedFits ==
  ASSUME NEW p \in Pool
  PROVE  /\ Punched(p) \in Pool /\ Size(Punched(p)) = Size(p) /\ Done(Punched(p)) = Size(p)
         /\ Room(Punched(p)) = Room(p) /\ \A i : Lit(Punched(p), i) = Lit(p, i)
<1> DEFINE q == Punched(p)
<1>1. p \in [pool : Seq(Word), punched : Nat] /\ Size(p) \in Nat
  BY Rooms DEF Pool
<1>2. q.pool = p.pool /\ q.punched = Len(p.pool) /\ q \in [pool : Seq(Word), punched : Nat]
  BY <1>1 DEF Punched, Size
<1> HIDE DEF q
<1>3. /\ Size(q) = Size(p) /\ Done(q) = Size(p) /\ Room(q) = Room(p)
      /\ \A i : Lit(q, i) = Lit(p, i)
  BY <1>2 DEF Size, Done, Room, PoolLoc, Lit
<1>4. Done(q) <= Size(q)
  BY <1>1, <1>3
<1>5. q \in Pool
  BY <1>2, <1>4 DEF Pool
<1> QED BY <1>3, <1>5 DEF q

PoolOrigin(a, page) == IF a.rim_mode THEN a ELSE punchOrigin(a, PoolStart(a, page))

LEMMA PageIs ==
  ASSUME NEW a, NEW page, NEW p, p = Cp(a)[page],
         NEW c, c = LiteralLoop(PoolOrigin(a, page), page, Waiting(p)), Cp(c)[page] = p
  PROVE  punchPage(a, page) = PoolAt(c, page, Punched(p))
<1>1. punchPage(a, page) = [c EXCEPT !.cp[page].punched = Len(p.pool)]
  BY DEF punchPage, PoolOrigin, LiteralLoop, Waiting, Size, Done, Cp
<1>2. c.cp[page] = p
  BY DEF Cp
<1>3. [c EXCEPT !.cp[page].punched = Len(p.pool)]
        = [c EXCEPT !.cp[page] = [c.cp[page] EXCEPT !.punched = Len(p.pool)]]
  OBVIOUS
<1> QED BY <1>1, <1>2, <1>3 DEF PoolAt, Punched

LEMMA PageLoop ==
  ASSUME NEW a, Pooled(a), NEW page \in Pages
  PROVE  \E f : LET p == Cp(a)[page]
                    o == PoolOrigin(a, page)
                    n == Size(p) - Done(p)
                    c == f[n]
                IN  /\ Goes(f, o, page, n) /\ Same(a, o, Taped) /\ Same(a, c, Taped \cup Listed)
                    /\ Pooled(c) /\ Cp(c) = Cp(a)
                    /\ punchPage(a, page) = PoolAt(c, page, Punched(p))
<1> DEFINE p == Cp(a)[page]
           o == PoolOrigin(a, page)
           n == Size(p) - Done(p)
<1>1. p \in Pool
  BY DEF Pooled
<1>2. Same(a, o, Taped)
  BY OriginSame, SameSelf DEF PoolOrigin
<1>3. n \in Nat
  <2> HIDE DEF p
  <2> QED BY <1>1, WaitingIs
<1> HIDE DEF p, o
<1>4. PICK f : Goes(f, o, page, n) /\ f[n] = LiteralLoop(o, page, Waiting(p))
  BY <1>1, LiteralSteps
<1> DEFINE c == f[n]
<1>5. Same(o, c, Taped \cup Listed)
  <2>1. n \in 0..n
    BY <1>3
  <2> HIDE DEF n
  <2> QED BY <1>3, <1>4, <2>1, StepsSame
<1> HIDE DEF n, c
<1>6. Same(a, c, Taped \cup Listed)
  <2>1. Taped \cup (Taped \cup Listed) = Taped \cup Listed
    OBVIOUS
  <2> QED BY <1>2, <1>5, <2>1, SameTrans
<1>7. Pooled(c) /\ Cp(c) = Cp(a)
  <2>1. Same(a, c, Aside)
    BY <1>6, SameMore DEF Aside
  <2>2. Errs(c) = Errs(a) /\ Errs(a) \in Nat
    BY <1>6, Kept DEF Pooled, Taped, Listed
  <2> QED BY <2>1, <2>2, AsidePooled
<1>8. punchPage(a, page) = PoolAt(c, page, Punched(p))
  <2>1. c = LiteralLoop(PoolOrigin(a, page), page, Waiting(p))
    BY <1>4 DEF c, o
  <2>2. Cp(c)[page] = p /\ p = Cp(a)[page]
    BY <1>7 DEF p
  <2> QED BY <2>1, <2>2, PageIs
<1> QED BY <1>2, <1>4, <1>6, <1>7, <1>8 DEF c, n, o, p

LEMMA PagePunched ==
  ASSUME NEW a, Pooled(a), NEW page \in Pages
  PROVE  /\ Same(a, punchPage(a, page), Taped \cup Listed \cup {"cp"})
         /\ Pooled(punchPage(a, page))
         /\ Cp(punchPage(a, page)) = [Cp(a) EXCEPT ![page] = Punched(Cp(a)[page])]
<1> DEFINE p == Cp(a)[page]
           b == punchPage(a, page)
<1>1. PICK c : /\ Same(a, c, Taped \cup Listed) /\ Pooled(c) /\ Cp(c) = Cp(a)
               /\ b = PoolAt(c, page, Punched(p))
  BY PageLoop
<1>2. p \in Pool
  BY DEF Pooled
<1> HIDE DEF p, b
<1>3. Punched(p) \in Pool
  BY <1>2, PunchedFits
<1>4. /\ Same(c, b, {"cp"}) /\ Pooled(b) /\ Cp(b) = [Cp(c) EXCEPT ![page] = Punched(p)]
  BY <1>1, <1>3, PoolFieldsAt
<1>5. Same(a, b, (Taped \cup Listed) \cup {"cp"})
  BY <1>1, <1>4, SameTrans
<1> QED BY <1>1, <1>4, <1>5 DEF p, b

(* The literals are tied to the pools as before.                           *)
LEMMA PageTied ==
  ASSUME NEW a, NEW C, NEW L, Tied(a, C, L), NEW page \in Pages
  PROVE  Tied(punchPage(a, page), C, L) /\ Pend(punchPage(a, page)) \subseteq Pend(a)
<1> DEFINE b == punchPage(a, page)
<1>1. Pooled(a) /\ Apart(a) /\ Indexed(a, L) /\ Above(a, L) /\ Below(a, C)
  BY DEF Tied
<1>2. /\ Same(a, b, Taped \cup Listed \cup {"cp"}) /\ Pooled(b)
      /\ Cp(b) = [Cp(a) EXCEPT ![page] = Punched(Cp(a)[page])]
  BY <1>1, PagePunched
<1> HIDE DEF b
<1>3. Fld(b) = Fld(a) /\ Used(b) = Used(a)
  BY <1>1, <1>2, Kept DEF Pooled, Taped, Listed
<1>4. \A q \in Pages : /\ Size(Cp(b)[q]) = Size(Cp(a)[q]) /\ Room(Cp(b)[q]) = Room(Cp(a)[q])
                       /\ \A i : Lit(Cp(b)[q], i) = Lit(Cp(a)[q], i)
                       /\ Done(Cp(b)[q]) >= Done(Cp(a)[q])
  <2>1. TAKE q \in Pages
  <2>2. Cp(a)[q] \in Pool /\ Cp(a)[page] \in Pool
    BY <1>1 DEF Pooled
  <2>3. Cp(b)[q] = IF q = page THEN Punched(Cp(a)[page]) ELSE Cp(a)[q]
    BY <1>1, <1>2 DEF Pooled
  <2>4. /\ Done(Cp(a)[q]) <= Size(Cp(a)[q]) /\ Done(Cp(a)[q]) \in Nat
    BY <2>2, Rooms
  <2> QED BY <2>2, <2>3, <2>4, PunchedFits
<1>5. Apart(b)
  BY <1>1, <1>3, <1>4 DEF Apart
<1>6. Indexed(b, L)
  BY <1>1, <1>3, <1>4 DEF Indexed
<1>7. Above(b, L)
  BY <1>1, <1>3, <1>4 DEF Above
<1>8. Below(b, C)
  BY <1>1, <1>3 DEF Below
<1>9. Pend(b) \subseteq Pend(a)
  <2>1. ASSUME NEW q \in Pages, NEW i \in 1..Size(Cp(b)[q]), i > Done(Cp(b)[q])
        PROVE  i \in 1..Size(Cp(a)[q]) /\ i > Done(Cp(a)[q])
    <3>1. Done(Cp(a)[q]) \in Nat /\ Done(Cp(b)[q]) \in Nat
      BY <1>1, <1>2, Rooms DEF Pooled
    <3> QED BY <1>4, <2>1, <3>1
  <2> QED BY <1>3, <2>1 DEF Pend
<1> QED BY <1>2, <1>5, <1>6, <1>7, <1>8, <1>9 DEF Tied, b

(* The tape now has what waited in the page.                               *)
LEMMA PageFull ==
  ASSUME NEW a, NEW C, NEW L, Full(a, C, L), NEW page \in Pages
  PROVE  Full(punchPage(a, page), C, L)
<1> DEFINE p == Cp(a)[page]
           o == PoolOrigin(a, page)
           n == Size(p) - Done(p)
           b == punchPage(a, page)
<1>1. /\ Pooled(a) /\ Tied(a, C, L) /\ OnTape(a) /\ Holds(Mem(a), C, L, Pend(a))
      /\ Apart(a) /\ Indexed(a, L)
  BY DEF Full, Tied
<1>2. PICK f : /\ Goes(f, o, page, n) /\ Same(a, o, Taped) /\ Pooled(f[n]) /\ Cp(f[n]) = Cp(a)
               /\ Same(a, f[n], Taped \cup Listed)
               /\ b = PoolAt(f[n], page, Punched(p))
  BY <1>1, PageLoop
<1>3. p \in Pool /\ Fld(a) \in Fields /\ Used(a)[page] \in Offset /\ Used(a)[page] < Room(p)
      /\ DOMAIN a = PoolFields
  BY <1>1 DEF Pooled, Apart
<1> HIDE DEF b
<1>4. o = punchOrigin(a, PoolStart(a, page)) /\ PoolStart(a, page) = page * 128 + Room(p)
  <2>1. ~a.rim_mode
    BY <1>1 DEF OnTape, Bin
  <2> QED BY <2>1 DEF PoolOrigin, PoolStart, Room, Cp, PAGE_SIZE
<1> HIDE DEF o, p
<1>5. /\ Size(p) \in Nat /\ Done(p) \in Nat /\ Done(p) <= Size(p)
      /\ Room(p) = 128 - Size(p) /\ Room(p) \in Int
  BY <1>3, Rooms
<1>6. Room(p) >= 0 /\ page \in Int /\ n \in Nat /\ n <= Size(p) /\ Size(p) - n + 1 = Done(p) + 1
  BY <1>3, <1>5 DEF Offset, Pages
<1> HIDE DEF n
<1>7. /\ OnTape(o) /\ Mem(o) = Mem(a) /\ Org(o) = (page * 128 + Room(p)) % 4096
  <2>1. PoolStart(a, page) \in Int
    BY <1>4, <1>5, <1>6
  <2> QED BY <1>1, <1>4, <2>1, OriginPunched
<1>8. Ahead(o, page, p, 0, C, L, Pend(a))
  <2>1. page * 128 + Room(p) + 0 = page * 128 + Room(p)
    BY <1>5, <1>6
  <2> QED BY <1>1, <1>7, <2>1 DEF Ahead
<1>9. PoolIs(o, page, p) /\ Fld(o) = Fld(a)
  <2>1. Cp(o) = Cp(a) /\ Fld(o) = Fld(a) /\ DOMAIN o = PoolFields
    BY <1>2, <1>3, Kept DEF Taped
  <2> QED BY <2>1 DEF PoolIs, p
<1>10. Named(Fld(a), page, p, L)
  BY <1>1 DEF Named, Indexed, p
<1> DEFINE c == f[n]
<1>11. Ahead(c, page, p, n, C, L, Pend(a) \ Gone(Fld(a), page, p, Done(p) + 1))
  <2> HIDE DEF c
  <2>1. Ahead(f[n], page, p, n, C, L, Pend(a) \ Gone(Fld(o), page, p, Size(p) - n + 1))
    BY <1>2, <1>3, <1>6, <1>8, <1>9, <1>10, StepsHold
  <2> QED BY <1>6, <1>9, <2>1 DEF c
<1>12. Pooled(c) /\ Cp(c) = Cp(a) /\ b = PoolAt(c, page, Punched(p))
  BY <1>2
<1> HIDE DEF c
<1>13. Same(c, b, {"cp"})
  BY <1>3, <1>12, PunchedFits, PoolFieldsAt
<1>14. OnTape(b) /\ Mem(b) = Mem(c)
  <2>1. {"cp"} \cap Punching = {}
    BY DEF Punching
  <2> QED BY <1>11, <1>13, <2>1, TapeKept DEF Ahead
<1>15. Pend(a) \ Gone(Fld(a), page, p, Done(p) + 1) \subseteq Pend(b)
  <2>1. /\ Fld(b) = Fld(a) /\ Cp(b) = [Cp(a) EXCEPT ![page] = Punched(p)]
    <3>1. /\ Same(a, b, Taped \cup Listed \cup {"cp"})
          /\ Cp(b) = [Cp(a) EXCEPT ![page] = Punched(p)]
      BY <1>1, PagePunched DEF b, p
    <3> QED BY <1>3, <3>1, Kept DEF Taped, Listed
  <2>2. ASSUME NEW q \in Pages, NEW i \in 1..Size(Cp(a)[q]), i > Done(Cp(a)[q])
        PROVE  \/ Loc(Fld(a), q, 128 - i) \in Gone(Fld(a), page, p, Done(p) + 1)
               \/ i \in 1..Size(Cp(b)[q]) /\ i > Done(Cp(b)[q])
    <3>1. CASE q = page
      <4>1. i \in (Done(p) + 1)..Size(p)
        BY <1>5, <2>2, <3>1 DEF p
      <4> QED BY <3>1, <4>1 DEF Gone
    <3>2. CASE q # page
      <4>1. Cp(b)[q] = Cp(a)[q]
        BY <1>1, <2>1, <3>2 DEF Pooled
      <4> QED BY <2>2, <4>1
    <3> QED BY <3>1, <3>2
  <2> QED BY <2>1, <2>2 DEF Pend
<1>16. Holds(Mem(b), C, L, Pend(b))
  BY <1>11, <1>14, <1>15, HoldsMore DEF Ahead
<1>17. Tied(b, C, L)
  BY <1>1, PageTied DEF b
<1>18. Full(b, C, L)
  BY <1>14, <1>16, <1>17 DEF Full
<1> QED BY <1>18 DEF b

-----------------------------------------------------------------------------
(* The pools of the pages, from the highest page down.                     *)
PageBody(p0, b, page) == punchPending(b, page, p0)

PageLoops == INSTANCE Folding WITH Body <- PageBody, Good <- NoClaim

LEMMA PoolsFold ==
  ASSUME NEW a, NEW p0
  PROVE  punchLiteralPool(a, p0) = PageLoops!Fold(p0, a, PagesDown)
  BY DEF punchLiteralPool, PageBody, PageLoops!Fold, FoldLeft, MapThenFoldSet,
         PageLoops!FoldLeft, PageLoops!MapThenFoldSet, Max, PageLoops!Max

Comes(f, a, p0) == /\ f[0] = a
                   /\ \A i \in 0..31 : f[i + 1] = punchPending(f[i], 31 - i, p0)

LEMMA PoolSteps ==
  ASSUME NEW a, NEW p0
  PROVE  \E f : Comes(f, a, p0) /\ f[32] = punchLiteralPool(a, p0)
<1> DEFINE s == PagesDown
<1>1. s \in Seq(Nat) /\ Len(s) = 32 /\ \A i \in 1..32 : s[i] = 32 - i
  BY DEF PagesDown, MAX_PAGES
<1>2. punchLiteralPool(a, p0) = PageLoops!Fold(p0, a, s)
  BY PoolsFold
<1> HIDE DEF s
<1>3. s \in Seq(Nat)
  BY <1>1
<1>4. PICK f : PageLoops!Steps(f, p0, a, s) /\ PageLoops!Fold(p0, a, s) = f[Len(s)]
  BY <1>3, PageLoops!FoldSteps
<1>5. f[0] = a /\ \A i \in 1..Len(s) : f[i] = PageBody(p0, f[i - 1], s[i])
  BY <1>4 DEF PageLoops!Steps
<1>6. f[32] = punchLiteralPool(a, p0)
  BY <1>1, <1>2, <1>4
<1>7. ASSUME NEW i \in 0..31 PROVE f[i + 1] = punchPending(f[i], 31 - i, p0)
  <2>1. i + 1 \in 1..32 /\ (i + 1) - 1 = i /\ 32 - (i + 1) = 31 - i
    OBVIOUS
  <2>2. i + 1 \in 1..Len(s) /\ (i + 1) - 1 = i /\ s[i + 1] = 31 - i
    BY <1>1, <2>1
  <2> QED BY <1>5, <2>2 DEF PageBody
<1> QED BY <1>5, <1>6, <1>7 DEF Comes

(* What the loop has done when it comes to page n - 1.                     *)
Written == Taped \cup Listed \cup {"cp"}

Clean(b, page) == Done(Cp(b)[page]) = Size(Cp(b)[page])

PunchedTo(a, b, p0, n) ==
  /\ Pooled(b) /\ Same(a, b, Written) /\ (Apart(a) => Apart(b))
  /\ \A C, L : Full(a, C, L) => Full(b, C, L)
  /\ \A page \in Pages : page >= n /\ (p0 \/ page # 0) => Clean(b, page)
  /\ (\A page \in Pages : p0 \/ page # 0 => Clean(a, page)) => b = a

LEMMA PageStep ==
  ASSUME NEW a, Pooled(a), NEW b, NEW p0, NEW page \in Pages, PunchedTo(a, b, p0, page + 1)
  PROVE  PunchedTo(a, punchPending(b, page, p0), p0, page)
<1> DEFINE c == punchPending(b, page, p0)
           w == ~Clean(b, page) /\ (p0 \/ page # 0)
<1>1. c = IF w THEN punchPage(b, page) ELSE b
  BY DEF punchPending, Clean, Done, Size, Cp
<1>2. \A q \in Pages : q >= page => q = page \/ q >= page + 1
  BY DEF Pages
<1>3. CASE ~w
  <2>1. \A q \in Pages : q >= page /\ (p0 \/ q # 0) => Clean(b, q)
    BY <1>2, <1>3 DEF PunchedTo
  <2>2. PunchedTo(a, b, p0, page)
    BY <2>1 DEF PunchedTo
  <2> QED BY <1>1, <1>3, <2>2
<1>4. CASE w
  <2> HIDE DEF c
  <2>1. c = punchPage(b, page) /\ Pooled(b) /\ Same(a, b, Written)
    BY <1>1, <1>4 DEF PunchedTo
  <2>2. /\ Same(b, c, Written) /\ Pooled(c)
        /\ Cp(c) = [Cp(b) EXCEPT ![page] = Punched(Cp(b)[page])]
    BY <2>1, PagePunched DEF Written
  <2>3. Same(a, c, Written)
    <3>1. Written \cup Written = Written
      OBVIOUS
    <3> QED BY <2>1, <2>2, <3>1, SameTrans
  <2>4. Cp(b) \in [Pages -> Pool]
    BY <2>1 DEF Pooled
  <2>5. Apart(b) => Apart(c)
    <3>1. Used(c) = Used(b)
      BY <2>1, <2>2, Kept DEF Pooled, Written, Taped, Listed
    <3>2. \A q \in Pages : Room(Cp(c)[q]) = Room(Cp(b)[q])
      BY <2>2, <2>4, PunchedFits
    <3> QED BY <3>1, <3>2 DEF Apart
  <2>6. \A q \in Pages : q >= page /\ (p0 \/ q # 0) => Clean(c, q)
    <3>1. TAKE q \in Pages
    <3>2. CASE q = page
      <4>1. Cp(c)[q] = Punched(Cp(b)[page]) /\ Cp(b)[page] \in Pool
        BY <2>2, <2>4, <3>2
      <4> QED BY <4>1, PunchedFits DEF Clean
    <3>3. CASE q # page
      <4>1. Cp(c)[q] = Cp(b)[q]
        BY <2>2, <2>4, <3>3
      <4>2. q >= page /\ (p0 \/ q # 0) => Clean(b, q)
        BY <1>2, <3>3 DEF PunchedTo
      <4> QED BY <4>1, <4>2 DEF Clean
    <3> QED BY <3>2, <3>3
  <2>7. ~(\A q \in Pages : p0 \/ q # 0 => Clean(a, q))
    BY <1>4 DEF PunchedTo
  <2>8. \A C, L : Full(a, C, L) => Full(c, C, L)
    BY <2>1, PageFull DEF PunchedTo
  <2>9. PunchedTo(a, c, p0, page)
    BY <2>2, <2>3, <2>5, <2>6, <2>7, <2>8 DEF PunchedTo
  <2> QED BY <2>9 DEF c
<1> QED BY <1>3, <1>4

LEMMA PoolsPunched ==
  ASSUME NEW a, Pooled(a), NEW p0
  PROVE  PunchedTo(a, punchLiteralPool(a, p0), p0, 0)
<1>1. PICK f : Comes(f, a, p0) /\ f[32] = punchLiteralPool(a, p0)
  BY PoolSteps
<1> DEFINE S == {i \in Nat : i <= 32 => PunchedTo(a, f[i], p0, 32 - i)}
<1>2. 0 \in S
  <2>1. f[0] = a /\ Same(a, a, Written) /\ \A page \in Pages : ~(page >= 32)
    BY <1>1, SameSelf DEF Comes, Pages
  <2>2. PunchedTo(a, a, p0, 32)
    BY <2>1 DEF PunchedTo
  <2> QED BY <2>1, <2>2
<1>3. ASSUME NEW i \in S PROVE i + 1 \in S
  <2> SUFFICES ASSUME i + 1 <= 32 PROVE PunchedTo(a, f[i + 1], p0, 32 - (i + 1))
    BY <1>3
  <2> DEFINE b == f[i]
             page == 31 - i
  <2>1. /\ i \in Nat /\ i \in 0..31 /\ page \in 0..31 /\ page + 1 = 32 - i
        /\ 32 - (i + 1) = page
    BY <1>3
  <2>2. PunchedTo(a, b, p0, 32 - i)
    BY <1>3, <2>1
  <2>3. f[i + 1] = punchPending(b, page, p0)
    BY <1>1, <2>1 DEF Comes
  <2>4. page \in Pages /\ PunchedTo(a, b, p0, page + 1)
    BY <2>1, <2>2 DEF Pages
  <2> HIDE DEF b, page, S
  <2>5. PunchedTo(a, f[i + 1], p0, page)
    BY <2>3, <2>4, PageStep
  <2> QED BY <2>1, <2>5
<1>4. S \in SUBSET Nat
  OBVIOUS
<1> HIDE DEF S
<1>5. 32 \in S
  BY <1>2, <1>3, <1>4, PageLoops!AllNaturals
<1>6. PunchedTo(a, f[32], p0, 0)
  <2>1. PunchedTo(a, f[32], p0, 32 - 32)
    BY <1>5 DEF S
  <2> QED BY <2>1
<1> QED BY <1>1, <1>6

-----------------------------------------------------------------------------
(* Code and literals are apart until an error has been reported: each of   *)
(* the operators the assembler goes on by keeps them so.                   *)
Safe(a) == Pooled(a) /\ (Errs(a) = 0 => Apart(a))

Quiet == Taped \cup Listed \cup {"at", "radix", "rim_mode", "objectfile", "listfile"}

LEMMA MovedSafe ==
  ASSUME NEW a, Safe(a), NEW b, Same(a, b, Moved), Errs(b) \in Nat, Errs(b) = 0 => Errs(a) = 0,
         Clc(b) \in Int, Rel(b) \in Int, Fld(b) \in Fields
  PROVE  Safe(b)
<1>1. Pooled(a)
  BY DEF Safe
<1>2. Pooled(b) /\ (Apart(a) <=> Apart(b))
  BY <1>1, MovedPooled
<1> QED BY <1>2 DEF Safe

LEMMA QuietSafe ==
  ASSUME NEW a, Safe(a), NEW b, Same(a, b, Quiet)
  PROVE  Safe(b) /\ Errs(b) = Errs(a)
<1>1. DOMAIN a = PoolFields /\ Pooled(a) /\ Clc(a) \in Int /\ Rel(a) \in Int /\ Fld(a) \in Fields
      /\ Errs(a) \in Nat
  BY DEF Safe, Pooled
<1>2. Errs(b) = Errs(a) /\ Clc(b) = Clc(a) /\ Rel(b) = Rel(a) /\ Fld(b) = Fld(a)
  BY <1>1, Kept DEF Quiet, Taped, Listed
<1>3. Same(a, b, Moved)
  BY SameMore DEF Quiet, Moved, Aside
<1> QED BY <1>1, <1>2, <1>3, MovedSafe

LEMMA MessageSafe ==
  ASSUME NEW a, Safe(a), NEW m
  PROVE  Safe(errorMessage(a, m)) /\ Errs(errorMessage(a, m)) # 0
<1> DEFINE b == errorMessage(a, m)
<1>1. DOMAIN a = PoolFields /\ Two(a) /\ Clc(a) \in Int /\ Rel(a) \in Int /\ Fld(a) \in Fields
      /\ Errs(a) \in Nat
  BY DEF Safe, Pooled
<1>2. Errs(b) \in Nat /\ Errs(b) # 0 /\ Same(a, b, Faulted)
  BY <1>1, MessageCounts, MessageSame DEF PoolFields
<1> HIDE DEF b
<1>3. Same(a, b, Moved)
  BY <1>2, SameMore DEF Moved, Aside
<1>4. Clc(b) = Clc(a) /\ Rel(b) = Rel(a) /\ Fld(b) = Fld(a)
  BY <1>1, <1>2, Kept DEF Faulted
<1>5. Safe(b)
  BY <1>1, <1>2, <1>3, <1>4, MovedSafe
<1> QED BY <1>2, <1>5 DEF b

LEMMA ClcSafe ==
  ASSUME NEW a, Safe(a), NEW c \in Int
  PROVE  Safe(ClcAt(a, c)) /\ Errs(ClcAt(a, c)) = Errs(a)
  BY ClcSet DEF Safe

LEMMA TestedSafe ==
  ASSUME NEW a, Safe(a), NEW b, NEW loc, Tested(a, b, loc)
  PROVE  Safe(b)
  BY DEF Safe, Tested

LEMMA ClearedSafe ==
  ASSUME NEW a, Safe(a)
  PROVE  Safe(clearLiteralTable(a))
  BY TableCleared DEF Safe

LEMMA OriginSafe ==
  ASSUME NEW a, Safe(a)
  PROVE  Safe(OriginUnlessRim(a)) /\ Errs(OriginUnlessRim(a)) = Errs(a)
<1> DEFINE b == OriginUnlessRim(a)
<1>1. Same(a, b, Taped)
  BY OriginUnlessSame
<1> HIDE DEF b
<1>2. Same(a, b, Quiet)
  BY <1>1, SameMore DEF Quiet
<1>3. Safe(b) /\ Errs(b) = Errs(a)
  BY <1>2, QuietSafe
<1> QED BY <1>3 DEF b

LEMMA PoolSafe ==
  ASSUME NEW a, Safe(a), NEW p0
  PROVE  /\ Safe(punchLiteralPool(a, p0)) /\ Errs(punchLiteralPool(a, p0)) = Errs(a)
         /\ Clc(punchLiteralPool(a, p0)) = Clc(a) /\ Rel(punchLiteralPool(a, p0)) = Rel(a)
         /\ Fld(punchLiteralPool(a, p0)) = Fld(a)
<1> DEFINE b == punchLiteralPool(a, p0)
<1>1. Pooled(a) /\ DOMAIN a = PoolFields
  BY DEF Safe, Pooled
<1>2. PunchedTo(a, b, p0, 0)
  BY <1>1, PoolsPunched
<1> HIDE DEF b
<1>3. Same(a, b, Written) /\ Pooled(b) /\ (Apart(a) => Apart(b))
  BY <1>2 DEF PunchedTo
<1>4. Errs(b) = Errs(a) /\ Clc(b) = Clc(a) /\ Rel(b) = Rel(a) /\ Fld(b) = Fld(a)
  BY <1>1, <1>3, Kept DEF Written, Taped, Listed
<1>5. Safe(b)
  BY <1>3, <1>4 DEF Safe
<1> QED BY <1>4, <1>5 DEF b

LEMMA FieldSame ==
  ASSUME NEW a, "field" \in DOMAIN a, NEW g
  PROVE  Same(a, FieldFrame(a, g), Taped \cup {"field"}) /\ Fld(FieldFrame(a, g)) = 4096 * g
<1> DEFINE fr == 8 * g + 192
           q == punchObject(a, fr)
           w == IF a.objectfile THEN (q.checksum - fr) % 4096 ELSE q.checksum
           v == 4096 * g
           b == [q EXCEPT !.checksum = w, !.field = v]
<1>1. FieldFrame(a, g) = b
  BY DEF FieldFrame
<1> HIDE DEF fr
<1>2. Same(a, q, Taped)
  BY PunchSame
<1> HIDE DEF q, w, v
<1>3. Same(q, b, Taped \cup {"field"}) /\ "field" \in DOMAIN q
  <2>1. "field" \in DOMAIN q
    BY <1>2 DEF Same
  <2>2. Same(q, b, Taped \cup {"field"})
    BY DEF Same, Taped
  <2> QED BY <2>1, <2>2
<1>4. Fld(b) = v
  BY <1>3 DEF Fld
<1>5. Same(a, b, Taped \cup {"field"})
  <2>1. Taped \cup (Taped \cup {"field"}) = Taped \cup {"field"}
    OBVIOUS
  <2> HIDE DEF b
  <2> QED BY <1>2, <1>3, <2>1, SameTrans
<1> QED BY <1>1, <1>4, <1>5 DEF v

LEMMA WordSafe ==
  ASSUME NEW a, Safe(a), NEW val, NEW operand
  PROVE  Safe(PunchNext(a, val, operand))
<1> DEFINE b == punchOutObject(a, a.clc, val, operand)
<1>1. Same(a, b, Listed \cup Taped)
  BY OutSame
<1>2. PunchNext(a, val, operand) = incrementClc(b)
  BY DEF PunchNext
<1> HIDE DEF b
<1>3. Same(a, b, Quiet)
  BY <1>1, SameMore DEF Quiet
<1>4. Safe(b) /\ Pooled(b) /\ Clc(b) \in Int
  BY <1>3, QuietSafe DEF Safe, Pooled
<1>5. PICK t : Tested(b, t, Clc(b)) /\ incrementClc(b) = ClcAt(t, Stepped(Clc(b)))
  BY <1>4, ClcStepped
<1>6. Stepped(Clc(b)) \in Int /\ Safe(t)
  BY <1>4, <1>5, SteppedLow, TestedSafe
<1> QED BY <1>2, <1>5, <1>6, ClcSafe

LEMMA LiteralSafe ==
  ASSUME NEW a, Safe(a), NEW value \in Word, NEW page \in Pages
  PROVE  Safe(insertLiteral(a, value, page).a)
<1>1. Inserted(a, insertLiteral(a, value, page).a, page, value, insertLiteral(a, value, page).ix)
  BY LiteralInserted DEF Safe
<1> QED BY <1>1 DEF Safe, Inserted

LEMMA GoToSafe ==
  ASSUME NEW a, Safe(a), NEW newclc \in Int
  PROVE  Safe(GoTo(a, newclc))
<1> DEFINE b == LeavePage(a, newclc)
           c == ClcAt(b, newclc - Rel(a))
<1>1. Safe(b)
  BY PoolSafe DEF LeavePage
<1>2. Rel(a) \in Int
  BY DEF Safe, Pooled
<1>3. GoTo(a, newclc) = OriginUnlessRim(c)
  BY DEF GoTo, ClcAt, Rel
<1> HIDE DEF b
<1>4. Safe(c)
  BY <1>1, <1>2, ClcSafe
<1> HIDE DEF c
<1> QED BY <1>3, <1>4, OriginSafe

LEMMA TestSafe ==
  ASSUME NEW a, Safe(a), NEW loc \in Int
  PROVE  Safe(testForLiteralCollision(a, loc))
  BY CollisionTested, TestedSafe DEF Safe

LEMMA StartPageSafe ==
  ASSUME NEW a, Safe(a), NEW oldclc
  PROVE  Safe(StartPage(a, oldclc))
<1> DEFINE b == testForLiteralCollision(a, a.clc + a.reloc)
<1>1. a.clc \in Int /\ a.reloc \in Int
  BY DEF Safe, Pooled, Clc, Rel
<1>2. Safe(b)
  BY <1>1, TestSafe
<1>3. StartPage(a, oldclc) = OriginIfMoved(b, oldclc)
  BY DEF StartPage
<1> HIDE DEF b
<1> QED BY <1>2, <1>3, OriginSafe DEF OriginIfMoved

LEMMA PagesSafe ==
  ASSUME NEW a, Safe(a)
  PROVE  Safe(NextPage(a)) /\ \A val \in Int : Safe(PageOfField(a, val))
<1>1. Clc(a) \in Int /\ Rel(a) \in Int /\ Fld(a) \in Int
  BY DEF Safe, Pooled, Fields
<1> DEFINE n == ((((Clc(a) + Rel(a) + 127) \div 128) * 128) % 32768) - Rel(a)
<1>2. n \in Int
  BY <1>1
<1>3. NextPage(a) = ClcAt(a, n)
  BY DEF NextPage, ClcAt, Clc, Rel, PAGE_SIZE
<1> HIDE DEF n
<1>4. Safe(NextPage(a))
  BY <1>2, <1>3, ClcSafe
<1>5. ASSUME NEW val \in Int PROVE Safe(PageOfField(a, val))
  <2> DEFINE m == Fld(a) + 128 * (val % 32) - Rel(a)
  <2>1. m \in Int
    BY <1>1
  <2>2. PageOfField(a, val) = ClcAt(a, m)
    BY DEF PageOfField, ClcAt, Fld, Rel, PAGE_SIZE
  <2> HIDE DEF m
  <2> QED BY <2>1, <2>2, ClcSafe
<1> QED BY <1>4, <1>5

LEMMA SegmentsSafe ==
  ASSUME NEW a, Safe(a)
  PROVE  Safe(StartSegment(SegmentAfter(a))) /\ Safe(StartSegment(SegmentOfOp(a)))
<1>1. Clc(a) \in Int
  BY DEF Safe, Pooled
<1>2. ASSUME NEW b, Safe(b) PROVE Safe(StartSegment(b))
  <2>1. b.clc \in Int
    BY <1>2 DEF Safe, Pooled, Clc
  <2>2. Safe(OriginUnlessRim(b))
    BY <1>2, OriginSafe
  <2> QED BY <2>1, <2>2, TestSafe DEF StartSegment
<1> DEFINE n == ((Clc(a) % 4096) \div 1024) * 1024 + 1024
           m == 1024 * (SEGMNT % 4)
<1>3. n \in Int /\ m \in Int
  BY <1>1 DEF SEGMNT
<1>4. SegmentAfter(a) = ClcAt(a, n) /\ SegmentOfOp(a) = ClcAt(a, m)
  BY DEF SegmentAfter, SegmentOfOp, ClcAt, Clc
<1> HIDE DEF n, m
<1> QED BY <1>2, <1>3, <1>4, ClcSafe

LEMMA FieldsSafe ==
  ASSUME NEW a, Safe(a), NEW newfield \in Int
  PROVE  Safe(StartField(ChangeField(a, newfield)))
<1> DEFINE b == ChangeField(a, newfield)
<1>1. Safe(b)
  <2>1. CASE ~a.rim_mode /\ newfield \in 0..7
    <3>1. DOMAIN a = PoolFields /\ "field" \in PoolFields
      BY DEF Safe, Pooled, PoolFields
    <3>2. b = FieldFrame(a, newfield)
      BY <2>1 DEF ChangeField
    <3>3. Same(a, b, Taped \cup {"field"}) /\ Fld(b) = 4096 * newfield
      BY <3>1, <3>2, FieldSame
    <3> HIDE DEF b
    <3>4. Fld(b) \in Fields
      BY <2>1, <3>3 DEF Fields
    <3>5. Errs(b) = Errs(a) /\ Clc(b) = Clc(a) /\ Rel(b) = Rel(a)
      BY <3>1, <3>3, Kept DEF Taped
    <3>6. Errs(a) \in Nat /\ Clc(a) \in Int /\ Rel(a) \in Int
      BY DEF Safe, Pooled
    <3>7. Same(a, b, Moved)
      BY <3>3, SameMore DEF Moved, Aside
    <3> QED BY <3>4, <3>5, <3>6, <3>7, MovedSafe
  <2>2. CASE ~(~a.rim_mode /\ newfield \in 0..7)
    <3>1. \E m : b = errorMessage(a, m)
      BY <2>2 DEF ChangeField
    <3> HIDE DEF b
    <3> QED BY <3>1, MessageSafe
  <2> QED BY <2>1, <2>2
<1> HIDE DEF b
<1> DEFINE n == 128 + Fld(b)
<1>2. n \in Int
  BY <1>1 DEF Safe, Pooled, Fields
<1>3. StartField(b) = clearLiteralTable(OriginUnlessRim(ClcAt(b, n)))
  BY DEF StartField, ClcAt, Fld
<1> HIDE DEF n
<1>4. Safe(OriginUnlessRim(ClcAt(b, n)))
  BY <1>1, <1>2, ClcSafe, OriginSafe
<1>5. Safe(StartField(b))
  BY <1>3, <1>4, ClearedSafe
<1> QED BY <1>5 DEF b

LEMMA EndSafe ==
  ASSUME NEW a, Safe(a)
  PROVE  Safe(endOfBinary(a))
  BY PoolSafe, MessageSafe DEF endOfBinary

LEMMA LeaderSafe ==
  ASSUME NEW a, Safe(a), NEW n
  PROVE  Safe(punchLeader(a, n))
<1>1. Same(a, punchLeader(a, n), Quiet)
  BY LeaderSame, SameMore DEF Quiet, Taped
<1> QED BY <1>1, QuietSafe

LEMMA ChecksumSafe ==
  ASSUME NEW a, Safe(a)
  PROVE  Safe(punchChecksum(a))
<1>1. Same(a, punchChecksum(a), Quiet)
  BY ChecksumSame, SameMore DEF Quiet
<1> QED BY <1>1, QuietSafe

LEMMA CloseSafe ==
  ASSUME NEW a, Safe(a)
  PROVE  Safe(CloseTape(a))
<1> DEFINE b == [a EXCEPT !.objectfile = TRUE]
<1>1. Same(a, b, Quiet)
  BY DEF Same, Quiet
<1> HIDE DEF b
<1>2. Safe(b)
  BY <1>1, QuietSafe
<1>3. CloseTape(a) = punchLeader(punchChecksum(b), TrailerFrames)
  BY DEF CloseTape, b
<1> QED BY <1>2, <1>3, ChecksumSafe, LeaderSafe

LEMMA ModesSafe ==
  ASSUME NEW a, Safe(a)
  PROVE  Safe(Binpunch(a)) /\ Safe(Rimpunch(a))
<1>1. ASSUME NEW b, Safe(b)
      PROVE  /\ Safe([b EXCEPT !.rim_mode = FALSE]) /\ Safe([b EXCEPT !.rim_mode = TRUE])
             /\ Safe([b EXCEPT !.checksum = 0, !.binary_data_output = FALSE])
  <2>1. /\ Same(b, [b EXCEPT !.rim_mode = FALSE], Quiet)
        /\ Same(b, [b EXCEPT !.rim_mode = TRUE], Quiet)
        /\ Same(b, [b EXCEPT !.checksum = 0, !.binary_data_output = FALSE], Quiet)
    BY DEF Same, Quiet, Taped
  <2> QED BY <1>1, <2>1, QuietSafe
<1>2. Safe(Binpunch(a))
  <2> DEFINE c == punchLeader(clearLiteralTable(a), TrailerFrames)
             e == [c EXCEPT !.checksum = 0, !.binary_data_output = FALSE]
             b == IF a.binary_data_output /\ a.rim_mode THEN e ELSE a
  <2>1. Safe(c)
    BY ClearedSafe, LeaderSafe
  <2>2. Binpunch(a) = [b EXCEPT !.rim_mode = FALSE]
    BY DEF Binpunch
  <2> HIDE DEF c
  <2>3. Safe(e)
    BY <1>1, <2>1
  <2> HIDE DEF e
  <2>4. Safe(b)
    BY <2>3
  <2> HIDE DEF b
  <2> QED BY <1>1, <2>2, <2>4
<1>3. Safe(Rimpunch(a))
  <2> DEFINE e == punchLeader(punchChecksum(clearLiteralTable(endOfBinary(a))), TrailerFrames)
             b == IF a.binary_data_output /\ ~a.rim_mode THEN e ELSE a
  <2>1. Safe(e)
    BY EndSafe, ClearedSafe, ChecksumSafe, LeaderSafe
  <2>2. Rimpunch(a) = [b EXCEPT !.rim_mode = TRUE]
    BY DEF Rimpunch
  <2> HIDE DEF e
  <2>3. Safe(b)
    BY <2>1
  <2> HIDE DEF b
  <2> QED BY <1>1, <2>2, <2>3
<1> QED BY <1>2, <1>3

LEMMA LineSafe ==
  ASSUME NEW a, Safe(a)
  PROVE  /\ Safe(Unmarked(a))
         /\ \A r : Safe(WithRadix(a, r))
         /\ \A on : Safe(WithListing(a, on))
         /\ \A on : Safe(WithTape(a, on))
         /\ Safe(NotRelocated(a)) /\ \A val \in Int : Safe(RelocatedTo(a, val))
<1>1. DOMAIN a = PoolFields /\ Clc(a) \in Int /\ Rel(a) \in Int /\ Fld(a) \in Fields
      /\ Errs(a) \in Nat
  BY DEF Safe, Pooled
<1>2. Safe(Unmarked(a))
  <2> DEFINE b == Unmarked(a)
  <2>1. Same(a, b, {"error_in_line"})
    BY DEF Same, Unmarked
  <2> HIDE DEF b
  <2>2. Errs(b) = Errs(a) /\ Clc(b) = Clc(a) /\ Rel(b) = Rel(a) /\ Fld(b) = Fld(a)
    BY <1>1, <2>1, Kept
  <2>3. Same(a, b, Moved)
    BY <2>1, SameMore DEF Moved, Aside, Faulted
  <2>4. Safe(b)
    BY <1>1, <2>2, <2>3, MovedSafe
  <2> QED BY <2>4 DEF b
<1>3. \A r : Safe(WithRadix(a, r))
  <2>1. \A r : Same(a, WithRadix(a, r), Quiet)
    BY DEF Same, Quiet, WithRadix
  <2> QED BY <2>1, QuietSafe
<1>4. \A on : Safe(WithListing(a, on))
  <2>1. \A on : Same(a, WithListing(a, on), Quiet)
    BY DEF Same, Quiet, WithListing
  <2> QED BY <2>1, QuietSafe
<1>5. \A on : Safe(WithTape(a, on))
  <2>1. \A on : Same(a, WithTape(a, on), Quiet)
    BY DEF Same, Quiet, WithTape
  <2> QED BY <2>1, QuietSafe
<1>6. ASSUME NEW r \in Int PROVE Safe([a EXCEPT !.reloc = r])
  <2> DEFINE b == [a EXCEPT !.reloc = r]
  <2>1. Same(a, b, {"reloc"}) /\ b.reloc = r
    BY <1>1 DEF Same, PoolFields
  <2> HIDE DEF b
  <2>2. Errs(b) = Errs(a) /\ Clc(b) = Clc(a) /\ Rel(b) = r /\ Fld(b) = Fld(a)
    BY <1>1, <2>1, Kept DEF Rel
  <2>3. Same(a, b, Moved)
    BY <2>1, SameMore DEF Moved
  <2>4. Safe(b)
    BY <1>1, <1>6, <2>2, <2>3, MovedSafe
  <2> QED BY <2>4 DEF b
<1>7. Safe(NotRelocated(a))
  BY <1>6 DEF NotRelocated
<1>8. ASSUME NEW val \in Int PROVE Safe(RelocatedTo(a, val))
  <2> DEFINE r == (val % 4096) - (Clc(a) % 4096)
  <2>1. r \in Int
    BY <1>1
  <2>2. RelocatedTo(a, val) = [a EXCEPT !.reloc = r]
    BY DEF RelocatedTo, FieldLc, Clc
  <2> HIDE DEF r
  <2> QED BY <1>6, <2>1, <2>2
<1> QED BY <1>2, <1>3, <1>4, <1>5, <1>7, <1>8

(* The record pass 2 starts from.                                          *)
LEMMA OpenedSafe ==
  ASSUME NEW rim \in BOOLEAN, NEW data \in BOOLEAN
  PROVE  Pooled(Opened(rim, data)) /\ Errs(Opened(rim, data)) = 0
<1> DEFINE a == Opened(rim, data)
<1>1. DOMAIN a = PoolFields
  BY DEF Opened, PoolFields
<1>2. Cp(a) = Emptied /\ Used(a) = [i \in Pages |-> 0]
  BY DEF Opened, Cp, Used, Emptied, Pages, MAX_PAGES
<1>3. Clc(a) = 0 /\ Rel(a) = 0 /\ Fld(a) = 0 /\ Errs(a) = 0 /\ Two(a)
  BY DEF Opened, Clc, Rel, Fld, Errs, Two
<1> HIDE DEF a
<1>4. Cp(a) \in [Pages -> Pool]
  BY <1>2, EmptyFits DEF Emptied
<1>5. Used(a) \in [Pages -> Offset]
  BY <1>2 DEF Offset
<1>6. Fld(a) \in Fields
  <2>1. 0 = 4096 * 0 /\ 0 \in 0..7
    OBVIOUS
  <2> QED BY <1>3, <2>1 DEF Fields
<1>7. Pooled(a)
  BY <1>1, <1>3, <1>4, <1>5, <1>6 DEF Pooled
<1> QED BY <1>3, <1>7 DEF a

LEMMA BegunSafe ==
  ASSUME NEW a, Safe(a)
  PROVE  Safe(BeginPass(a))
<1> DEFINE b == [a EXCEPT !.clc = 128, !.field = 0, !.reloc = 0, !.radix = 8, !.at = "line"]
<1>1. DOMAIN a = PoolFields /\ Errs(a) \in Nat
  BY DEF Safe, Pooled
<1>2. /\ Same(a, b, {"clc", "field", "reloc", "radix", "at"})
      /\ b.clc = 128 /\ b.field = 0 /\ b.reloc = 0
  BY <1>1 DEF Same, PoolFields
<1>3. BeginPass(a) = OriginUnlessRim(clearLiteralTable(b))
  BY DEF BeginPass
<1> HIDE DEF b
<1>4. Clc(b) \in Int /\ Rel(b) \in Int /\ Fld(b) \in Fields /\ Errs(b) = Errs(a)
  <2>1. Errs(b) = Errs(a) /\ Clc(b) = 128 /\ Rel(b) = 0 /\ Fld(b) = 0
    BY <1>1, <1>2, Kept DEF Clc, Rel, Fld
  <2>2. 0 = 4096 * 0 /\ 0 \in 0..7
    OBVIOUS
  <2> QED BY <2>1, <2>2 DEF Fields
<1>5. Same(a, b, Moved)
  BY <1>2, SameMore DEF Moved, Aside
<1>6. Safe(b)
  BY <1>1, <1>4, <1>5, MovedSafe
<1> QED BY <1>3, <1>6, ClearedSafe, OriginSafe

LEMMA PoolPage ==
  ASSUME NEW a, Clc(a) \in Int, Fld(a) \in Int
  PROVE  PoolPages(a) \subseteq Pages
<1>1. GET_PAGE_INDEX(Clc(a)) \in Pages /\ GET_PAGE_INDEX(Fld(a)) \in Pages
  BY Numbers
<1> QED BY <1>1 DEF PoolPages, Clc, Fld

LEMMA SafeApart == ASSUME Safe(asm) PROVE PoolsApart
<1>1. asm.pass = 2 /\ asm.errors = 0 =>
        \A page \in Pages : asm.max_page_used[page] < PoolLoc(asm.cp[page])
  BY DEF Safe, Apart, Errs, Used, Cp, Room
<1> QED BY <1>1 DEF PoolsApart, Pages, MAX_PAGES

LEMMA PoolsOpen == ASSUME PoolsInit PROVE Safe(asm)
<1>1. PICK rim \in BOOLEAN, data \in BOOLEAN :
        asm = BeginPass(punchLeader(Opened(rim, data), LeaderFrames))
  BY DEF PoolsInit
<1> DEFINE a == Opened(rim, data)
           b == punchLeader(a, LeaderFrames)
<1>2. Pooled(a) /\ Errs(a) = 0
  BY OpenedSafe
<1> HIDE DEF a
<1>3. Safe(a)
  <2>1. \A page \in Pages : Used(a)[page] \in Offset /\ Cp(a)[page] \in Pool
    BY <1>2 DEF Pooled
  <2>2. Used(a) = [i \in Pages |-> 0] /\ \A page \in Pages : Cp(a)[page] = EmptyPool
    BY DEF a, Opened, Cp, Used, Pages, MAX_PAGES
  <2>3. \A page \in Pages : Used(a)[page] < Room(Cp(a)[page])
    BY <2>2, EmptyFits
  <2> QED BY <1>2, <2>3 DEF Safe, Apart
<1>4. Safe(b)
  BY <1>3, LeaderSafe
<1> HIDE DEF b
<1> QED BY <1>1, <1>4, BegunSafe DEF a, b

(* In every state of pass 2, whatever was assembled and in whatever order, *)
(* code and literals have not met while no error has been reported: the    *)
(* test of the words (palbart.c:3065-3097) and the test of the literals    *)
(* (2605-2634) leave no gap between them.                                  *)
THEOREM PoolsNeverMeet == PoolsSpec => []PoolsApart
<1>1. PoolsInit => Safe(asm)
  BY PoolsOpen
<1>2. Safe(asm) /\ [PoolsNext]_poolVars => Safe(asm)'
  <2> SUFFICES ASSUME Safe(asm), [PoolsNext]_poolVars PROVE Safe(asm')
    OBVIOUS
  <2>1. Clc(asm) \in Int /\ Fld(asm) \in Int
    BY DEF Safe, Pooled, Fields
  <2>2. CASE AddLiteral
    <3>1. PICK value \in Literals, page \in PoolPages(asm) :
            /\ asm' = insertLiteral(asm, value, page).a
            /\ lits' = Stored(lits, LiteralAt(asm, value, page), value)
      BY <2>2 DEF AddLiteral
    <3>2. value \in Word /\ page \in Pages
      BY <2>1, PoolPage DEF Word, Literals
    <3> QED BY <3>1, <3>2, LiteralSafe
  <2>3. CASE Mistake
    BY <2>3, MessageSafe DEF Mistake
  <2>4. CASE AssembleWord
    BY <2>4, WordSafe DEF AssembleWord
  <2>5. CASE NextLine
    BY <2>5, LineSafe DEF NextLine
  <2>6. CASE SetOrigin
    <3>1. PICK val \in Int : asm' = GoTo(asm, asm.field + (val % 4096))
      BY <2>6 DEF SetOrigin
    <3>2. Fld(asm) + (val % 4096) \in Int
      BY <2>1
    <3> QED BY <3>1, <3>2, GoToSafe DEF Fld
  <2>7. CASE LeavePools
    BY <2>7, PoolSafe DEF LeavePools
  <2>8. CASE TakePage
    BY <2>8, PagesSafe, StartPageSafe DEF TakePage
  <2>9. CASE TakeSegment
    BY <2>9, SegmentsSafe DEF TakeSegment
  <2>10. CASE TakeField
    BY <2>10, FieldsSafe DEF TakeField
  <2>11. CASE ChangeMode
    BY <2>11, ModesSafe, LineSafe DEF ChangeMode
  <2>12. CASE EndSource
    BY <2>12, EndSafe DEF EndSource
  <2>13. CASE EndTape
    BY <2>13, CloseSafe DEF EndTape
  <2>14. CASE UNCHANGED poolVars
    BY <2>14 DEF poolVars
  <2> QED BY <2>2, <2>3, <2>4, <2>5, <2>6, <2>7, <2>8, <2>9, <2>10, <2>11, <2>12, <2>13, <2>14
          DEF PoolsNext
<1>3. Safe(asm) => PoolsApart
  BY SafeApart
<1> QED BY <1>1, <1>2, <1>3, PTL DEF PoolsSpec

-----------------------------------------------------------------------------
(* What the operators do to the memory that is on the tape.  All that is   *)
(* neither punching nor pools leaves it.                                   *)
Pooling == Punching \cup {"cp", "max_page_used"}

LEMMA FullKept ==
  ASSUME NEW a, NEW C, NEW L, Full(a, C, L), NEW b, NEW F, Same(a, b, F), F \cap Pooling = {},
         Pooled(b)
  PROVE  Full(b, C, L) /\ Org(b) = Org(a)
<1>1. DOMAIN a = PoolFields /\ Tied(a, C, L) /\ OnTape(a) /\ Holds(Mem(a), C, L, Pend(a))
  BY DEF Full, Tied, Pooled
<1>2. Cp(b) = Cp(a) /\ Used(b) = Used(a) /\ Fld(b) = Fld(a)
  <2>1. "cp" \notin F /\ "max_page_used" \notin F /\ "field" \notin F
    BY DEF Pooling, Punching
  <2> QED BY <1>1, <2>1, Kept
<1>3. OnTape(b) /\ Mem(b) = Mem(a) /\ Org(b) = Org(a)
  <2>1. F \cap Punching = {}
    BY DEF Pooling
  <2> QED BY <1>1, <2>1, TapeKept
<1>4. Tied(b, C, L)
  BY <1>1, <1>2 DEF Tied, Apart, Indexed, Above, Below
<1>5. Pend(b) = Pend(a)
  BY <1>2 DEF Pend
<1> QED BY <1>1, <1>3, <1>4, <1>5 DEF Full

(* The literals are what they are at their locations.                      *)
LEMMA FullAlike ==
  ASSUME NEW a, NEW C, NEW L, Full(a, C, L), NEW M, DOMAIN M = DOMAIN L,
         \A k \in DOMAIN L : M[k] = L[k]
  PROVE  Full(a, C, M)
<1>1. Tied(a, C, L) /\ OnTape(a) /\ Holds(Mem(a), C, L, Pend(a))
  BY DEF Full
<1>2. Holds(Mem(a), C, M, Pend(a))
  BY <1>1 DEF Holds
<1>3. Tied(a, C, M)
  BY <1>1 DEF Tied, Indexed, Above
<1> QED BY <1>1, <1>2, <1>3 DEF Full

LEMMA TiedTested ==
  ASSUME NEW a, NEW C, NEW L, Tied(a, C, L), NEW b, NEW loc, Tested(a, b, loc), Errs(b) = 0
  PROVE  Tied(b, C, L) /\ Pend(b) = Pend(a) /\ Clc(b) = Clc(a) /\ Fld(b) = Fld(a)
<1>1. DOMAIN a = PoolFields /\ Used(a) \in [Pages -> Offset]
  BY DEF Tied, Pooled
<1>2. /\ Pooled(b) /\ Same(a, b, {"max_page_used"} \cup Faulted)
      /\ \A page \in Pages : Used(a)[page] <= Used(b)[page]
      /\ Apart(b) /\ Used(b) \in [Pages -> Offset]
  BY DEF Tested, Tied, Pooled
<1>3. Cp(b) = Cp(a) /\ Fld(b) = Fld(a) /\ Clc(b) = Clc(a)
  BY <1>1, <1>2, Kept DEF Faulted
<1>4. Below(b, C)
  <2>1. Below(a, C)
    BY DEF Tied
  <2>2. ASSUME NEW page \in Pages, NEW o \in Offset, o <= Used(a)[page]
        PROVE  o <= Used(b)[page]
    <3>1. o \in Int /\ Used(a)[page] \in Int /\ Used(b)[page] \in Int
      BY <1>1, <1>2 DEF Offset
    <3> QED BY <1>2, <2>2, <3>1
  <2> QED BY <1>3, <2>1, <2>2 DEF Below
<1>5. Tied(b, C, L)
  BY <1>2, <1>3, <1>4 DEF Tied, Indexed, Above
<1>6. Pend(b) = Pend(a)
  BY <1>3 DEF Pend
<1> QED BY <1>3, <1>5, <1>6

LEMMA FullTested ==
  ASSUME NEW a, NEW C, NEW L, Full(a, C, L), NEW b, NEW loc, Tested(a, b, loc), Errs(b) = 0
  PROVE  Full(b, C, L) /\ Org(b) = Org(a) /\ Clc(b) = Clc(a) /\ Fld(b) = Fld(a)
<1>1. Tied(a, C, L) /\ OnTape(a) /\ Holds(Mem(a), C, L, Pend(a))
  BY DEF Full
<1>2. Tied(b, C, L) /\ Pend(b) = Pend(a) /\ Clc(b) = Clc(a) /\ Fld(b) = Fld(a)
  BY <1>1, TiedTested
<1>3. OnTape(b) /\ Mem(b) = Mem(a) /\ Org(b) = Org(a)
  <2>1. ({"max_page_used"} \cup Faulted) \cap Punching = {}
    BY DEF Punching, Faulted
  <2>2. Same(a, b, {"max_page_used"} \cup Faulted)
    BY DEF Tested
  <2> QED BY <1>1, <2>1, <2>2, TapeKept
<1> QED BY <1>1, <1>2, <1>3 DEF Full

(* The tape goes on where the location counter is.                         *)
Aligned(a, C, L) == Full(a, C, L) /\ Org(a) = Clc(a) % 4096

LEMMA FullOrigin ==
  ASSUME NEW a, NEW C, NEW L, Full(a, C, L)
  PROVE  Aligned(OriginUnlessRim(a), C, L)
<1> DEFINE b == OriginUnlessRim(a)
<1>1. /\ DOMAIN a = PoolFields /\ Tied(a, C, L) /\ OnTape(a) /\ Holds(Mem(a), C, L, Pend(a))
      /\ Clc(a) \in Int /\ Pooled(a) /\ Errs(a) \in Nat
  BY DEF Full, Tied, Pooled
<1>2. OnTape(b) /\ Mem(b) = Mem(a) /\ Org(b) = Clc(a) % 4096
  <2>1. OriginUnlessRim(a) = punchOrigin(a, Clc(a))
    BY <1>1, OriginPunched DEF Clc
  <2> QED BY <1>1, <2>1, OriginPunched
<1>3. Same(a, b, Taped)
  BY OriginUnlessSame
<1> HIDE DEF b
<1>4. Cp(b) = Cp(a) /\ Used(b) = Used(a) /\ Fld(b) = Fld(a) /\ Clc(b) = Clc(a)
      /\ Errs(b) = Errs(a)
  BY <1>1, <1>3, Kept DEF Taped
<1>5. Pooled(b)
  <2>1. Same(a, b, Aside)
    BY <1>3, SameMore DEF Aside
  <2> QED BY <1>1, <1>4, <2>1, AsidePooled
<1>6. Tied(b, C, L)
  BY <1>1, <1>4, <1>5 DEF Tied, Apart, Indexed, Above, Below
<1>7. Pend(b) = Pend(a)
  BY <1>4 DEF Pend
<1>8. Aligned(b, C, L)
  BY <1>1, <1>2, <1>4, <1>6, <1>7 DEF Full, Aligned
<1> QED BY <1>8 DEF b

LEMMA FullMoved ==
  ASSUME NEW a, NEW C, NEW L, Full(a, C, L), NEW c \in Int
  PROVE  Full(ClcAt(a, c), C, L) /\ Org(ClcAt(a, c)) = Org(a)
<1>1. Pooled(a)
  BY DEF Full, Tied
<1>2. Same(a, ClcAt(a, c), {"clc"}) /\ Pooled(ClcAt(a, c))
  BY <1>1, ClcSet
<1>3. {"clc"} \cap Pooling = {}
  BY DEF Pooling, Punching
<1> QED BY <1>2, <1>3, FullKept

(* A word of code is punched at the location counter, which steps.         *)
LEMMA WordFull ==
  ASSUME NEW a, NEW C, NEW L, Aligned(a, C, L), NEW val \in Int, NEW operand,
         Errs(PunchNext(a, val, operand)) = 0
  PROVE  /\ Errs(a) = 0
         /\ Aligned(PunchNext(a, val, operand), Stored(C, Fld(a) + (Clc(a) % 4096), val % 4096), L)
<1> DEFINE loc == Clc(a)
           m == printLine(a, "LINE_LOC_VAL", OrBits(a.field, a.clc) + a.reloc, val, operand)
           p == punchLocObject(m, loc, val)
           b == PunchNext(a, val, operand)
           k == Fld(a) + (loc % 4096)
           v == val % 4096
           D == Stored(C, k, v)
           page == GET_PAGE_INDEX(loc)
           o == InPage(loc)
<1>1. b = incrementClc(p)
  BY DEF PunchNext, punchOutObject, Clc
<1>2. Full(a, C, L) /\ Org(a) = loc % 4096 /\ loc \in Int /\ DOMAIN a = PoolFields
      /\ Fld(a) \in Fields /\ Pooled(a) /\ Errs(a) \in Nat
  BY DEF Aligned, Full, Tied, Pooled
<1>3. Same(a, m, Listed)
  BY LineSame
<1> HIDE DEF m, b
<1>4. Clc(m) = loc /\ Fld(m) = Fld(a) /\ Errs(m) = Errs(a)
  BY <1>2, <1>3, Kept DEF Listed
<1>5. Pooled(m)
  <2>1. Same(a, m, Aside)
    BY <1>3, SameMore DEF Aside
  <2> QED BY <1>2, <1>4, <2>1, AsidePooled
<1>6. Full(m, C, L) /\ Org(m) = loc % 4096
  <2>1. Listed \cap Pooling = {}
    BY DEF Listed, Pooling, Punching
  <2> QED BY <1>2, <1>3, <1>5, <2>1, FullKept
<1>7. Tied(m, C, L) /\ OnTape(m) /\ Holds(Mem(m), C, L, Pend(m))
  BY <1>6 DEF Full
<1> HIDE DEF loc
<1>8. OnTape(p) /\ Mem(p) = Stored(Mem(m), k, v) /\ Org(p) = ((loc % 4096) + 1) % 4096
  BY <1>4, <1>6, <1>7, WordPunched
<1>9. Same(m, p, Taped)
  BY LocSame
<1> HIDE DEF p
<1>10. /\ Cp(p) = Cp(m) /\ Used(p) = Used(m) /\ Fld(p) = Fld(m) /\ Clc(p) = loc
       /\ Errs(p) = Errs(m) /\ Errs(m) \in Nat /\ Pooled(p)
  <2>1. DOMAIN m = PoolFields
    BY <1>5 DEF Pooled
  <2>2. Same(m, p, Aside)
    BY <1>9, SameMore DEF Aside
  <2>3. Errs(p) = Errs(m) /\ Errs(m) \in Nat
    BY <1>2, <1>4, <1>9, <2>1, Kept DEF Taped
  <2> QED BY <1>4, <1>5, <2>2, <2>3, AsidePooled
<1>11. Tied(p, C, L) /\ Pend(p) = Pend(m)
  <2>1. Tied(p, C, L)
    BY <1>7, <1>10 DEF Tied, Apart, Indexed, Above, Below
  <2> QED BY <1>10, <2>1 DEF Pend
<1>12. PICK t : Tested(p, t, loc) /\ b = ClcAt(t, Stepped(loc))
  BY <1>1, <1>10, ClcStepped
<1>13. Errs(t) = 0 /\ Pooled(t) /\ Stepped(loc) \in Int
       /\ Stepped(loc) % 4096 = ((loc % 4096) + 1) % 4096
  <2>1. Pooled(t)
    BY <1>12 DEF Tested
  <2>2. Stepped(loc) \in Int /\ Stepped(loc) % 4096 = ((loc % 4096) + 1) % 4096
    BY <1>2, SteppedLow DEF loc
  <2>3. Errs(ClcAt(t, Stepped(loc))) = Errs(t)
    BY <2>1, <2>2, ClcSet
  <2> QED BY <1>12, <2>1, <2>2, <2>3 DEF b
<1>14. /\ Tied(t, C, L) /\ Pend(t) = Pend(m) /\ Fld(t) = Fld(a)
       /\ Same(p, t, {"max_page_used"} \cup Faulted)
       /\ Errs(p) = 0 /\ o < Room(Cp(p)[page]) /\ o <= Used(t)[page]
  <2>1. Tied(t, C, L) /\ Pend(t) = Pend(p) /\ Fld(t) = Fld(p)
    BY <1>11, <1>12, <1>13, TiedTested
  <2> QED BY <1>4, <1>10, <1>11, <1>12, <1>13, <2>1 DEF Tested
<1>15. page \in Pages /\ o \in Offset /\ k = Loc(Fld(a), page, o)
  <2>1. page \in Pages /\ o \in Offset /\ loc % 4096 = page * 128 + o
    BY <1>2, Numbers DEF loc
  <2> HIDE DEF page, o
  <2>2. page \in Int /\ o \in Int
    BY <2>1 DEF Pages, Offset
  <2>3. Fld(a) \in Int
    BY <1>2 DEF Fields
  <2> QED BY <2>1, <2>2, <2>3 DEF Loc
<1> HIDE DEF page, o, k, v
<1>16. k \notin DOMAIN L
  <2>1. SUFFICES ASSUME k \in DOMAIN L PROVE FALSE
    OBVIOUS
  <2>2. o >= Room(Cp(p)[page])
    BY <1>4, <1>10, <1>11, <1>15, <2>1 DEF Tied, Above
  <2>3. Room(Cp(p)[page]) \in Int /\ o \in Int
    BY <1>10, <1>15, Rooms DEF Pooled, Offset
  <2> QED BY <1>14, <2>2, <2>3
<1>17. OnTape(t) /\ Mem(t) = Stored(Mem(m), k, v) /\ Org(t) = ((loc % 4096) + 1) % 4096
  <2>1. ({"max_page_used"} \cup Faulted) \cap Punching = {}
    BY DEF Punching, Faulted
  <2> QED BY <1>8, <1>14, <2>1, TapeKept
<1>18. Holds(Mem(t), D, L, Pend(t))
  BY <1>7, <1>14, <1>16, <1>17, CodeHeld
<1>19. Tied(t, D, L)
  <2>1. DOMAIN D = DOMAIN C \cup {k}
    BY DEF Stored
  <2> HIDE DEF D
  <2>2. Below(t, D)
    <3>1. ASSUME NEW q \in Pages, NEW u \in Offset, Loc(Fld(t), q, u) \in DOMAIN D
          PROVE  u <= Used(t)[q]
      <4>1. CASE Loc(Fld(t), q, u) \in DOMAIN C
        BY <1>14, <4>1 DEF Tied, Below
      <4>2. CASE Loc(Fld(t), q, u) = k
        <5>1. q = page /\ u = o
          BY <1>2, <1>14, <1>15, <4>2, LocOnce
        <5> QED BY <1>14, <5>1
      <4> QED BY <2>1, <3>1, <4>1, <4>2
    <3> QED BY <3>1 DEF Below
  <2> QED BY <1>14, <2>2 DEF Tied
<1> HIDE DEF D
<1>20. Full(t, D, L)
  BY <1>17, <1>18, <1>19 DEF Full
<1>21. Full(b, D, L) /\ Org(b) = Org(t)
  BY <1>12, <1>13, <1>20, FullMoved
<1>22. Clc(b) = Stepped(loc)
  BY <1>12, <1>13, ClcSet
<1>23. Aligned(b, D, L) /\ Errs(a) = 0
  BY <1>4, <1>10, <1>13, <1>14, <1>17, <1>21, <1>22 DEF Aligned
<1> QED BY <1>23 DEF b, D, k, v, loc

(* A literal is added where it can still be punched, or is there already.  *)
LEMMA LiteralFull ==
  ASSUME NEW a, NEW C, NEW L, Full(a, C, L), NEW value \in Word, NEW page \in Pages,
         Errs(insertLiteral(a, value, page).a) = 0
  PROVE  /\ Errs(a) = 0
         /\ Full(insertLiteral(a, value, page).a, C, Stored(L, LiteralAt(a, value, page), value))
         /\ Org(insertLiteral(a, value, page).a) = Org(a)
         /\ Clc(insertLiteral(a, value, page).a) = Clc(a)
<1> DEFINE b == insertLiteral(a, value, page).a
           ix == insertLiteral(a, value, page).ix
           k == LiteralAt(a, value, page)
           M == Stored(L, k, value)
           p == Cp(a)[page]
<1>1. /\ Tied(a, C, L) /\ OnTape(a) /\ Holds(Mem(a), C, L, Pend(a)) /\ Pooled(a)
      /\ DOMAIN a = PoolFields /\ Fld(a) \in Fields /\ Apart(a) /\ Indexed(a, L)
      /\ Above(a, L) /\ Below(a, C)
  BY DEF Full, Tied, Pooled
<1>2. Inserted(a, b, page, value, ix)
  BY <1>1, LiteralInserted
<1>3. k = Loc(Fld(a), page, ix)
  BY DEF LiteralAt, Loc, Fld, PAGE_SIZE
<1>4. p \in Pool /\ Used(a)[page] \in Offset /\ Used(a)[page] < Room(p)
  BY <1>1 DEF Pooled, Apart
<1> HIDE DEF b, ix, k, p
<1>5. /\ Size(p) \in Nat /\ Done(p) \in Nat /\ Done(p) <= Size(p)
      /\ Room(p) = 128 - Size(p) /\ Size(p) <= 127
  <2>1. /\ Size(p) \in Nat /\ Done(p) \in Nat /\ Done(p) <= Size(p)
        /\ Room(p) = 128 - Size(p) /\ Room(p) \in Int
    BY <1>4, Rooms
  <2> QED BY <1>4, <2>1 DEF Offset
<1>6. /\ Errs(a) = 0 /\ Pooled(b) /\ Same(a, b, {"cp"} \cup Faulted) /\ Apart(b)
      /\ Found(a, b, page, value, ix) \/ Added(a, b, page, value, ix)
  BY <1>1, <1>2 DEF Inserted, b
<1>7. Used(b) = Used(a) /\ Fld(b) = Fld(a) /\ Clc(b) = Clc(a)
  BY <1>1, <1>6, Kept DEF Faulted
<1>8. OnTape(b) /\ Mem(b) = Mem(a) /\ Org(b) = Org(a)
  <2>1. ({"cp"} \cup Faulted) \cap Punching = {}
    BY DEF Punching, Faulted
  <2> QED BY <1>1, <1>6, <2>1, TapeKept
<1>9. DOMAIN M = DOMAIN L \cup {k} /\ M[k] = value /\ \A j \in DOMAIN L : j # k => M[j] = L[j]
  BY DEF Stored
<1> HIDE DEF M
<1>10. CASE Found(a, b, page, value, ix)
  <2>1. PICK i \in 1..Size(p) : Lit(p, i) = value /\ ix = 128 - i
    BY <1>10 DEF Found, p
  <2>2. k \in DOMAIN L /\ L[k] = value
    BY <1>1, <1>3, <2>1 DEF Indexed, p
  <2>3. DOMAIN M = DOMAIN L /\ \A j \in DOMAIN L : M[j] = L[j]
    BY <1>9, <2>2
  <2>4. Full(a, C, M)
    BY <2>3, FullAlike
  <2>5. Full(b, C, M)
    BY <1>10, <2>4 DEF Found
  <2> QED BY <1>6, <1>7, <1>8, <2>5 DEF b, M, k
<1>11. CASE Added(a, b, page, value, ix)
  <2> DEFINE q == More(p, value)
             n == Size(p) + 1
  <2>1. /\ Cp(b) = [Cp(a) EXCEPT ![page] = q] /\ ix = Room(p) - 1 /\ Used(a)[page] < ix
        /\ Cp(a) \in [Pages -> Pool]
    BY <1>1, <1>11 DEF Added, Pooled, p, b
  <2>2. /\ q \in Pool /\ Room(q) = Room(p) - 1 /\ Done(q) = Done(p) /\ Size(q) = n
        /\ Lit(q, n) = value /\ \A i \in 1..Size(p) : Lit(q, i) = Lit(p, i)
    BY <1>4, MoreFits
  <2> HIDE DEF q
  <2>3. ix = 128 - n /\ n \in Nat /\ n > Done(p) /\ n \in 1..n
    BY <1>5, <2>1
  <2>4. ix \in Offset
    BY <1>4, <1>5, <2>1 DEF Offset
  <2> HIDE DEF n
  <2>5. Cp(b)[page] = q /\ \A r \in Pages : r # page => Cp(b)[r] = Cp(a)[r]
    BY <2>1
  <2>6. k \in Pend(b)
    <3>1. n \in 1..Size(Cp(b)[page]) /\ n > Done(Cp(b)[page]) /\ k = Loc(Fld(b), page, 128 - n)
      BY <1>3, <1>7, <2>2, <2>3, <2>5
    <3>2. k \in Int
      BY <1>1, <1>3, <2>4, LocField
    <3> QED BY <3>1, <3>2 DEF Pend
  <2>7. k \notin DOMAIN C
    <3>1. Used(a)[page] \in Int /\ ix \in Int
      BY <1>4, <2>4 DEF Offset
    <3>2. k \in DOMAIN C => ix <= Used(a)[page]
      BY <1>1, <1>3, <2>4 DEF Below
    <3> QED BY <2>1, <3>1, <3>2
  <2>8. Pend(a) \subseteq Pend(b)
    <3>1. ASSUME NEW r \in Pages, NEW i \in 1..Size(Cp(a)[r]), i > Done(Cp(a)[r])
          PROVE  i \in 1..Size(Cp(b)[r]) /\ i > Done(Cp(b)[r])
      <4>1. CASE r = page
        <5>1. i \in 1..Size(p) /\ i > Done(p)
          BY <3>1, <4>1 DEF p
        <5>2. i \in 1..n
          BY <1>5, <5>1 DEF n
        <5> QED BY <2>2, <2>5, <4>1, <5>1, <5>2
      <4>2. CASE r # page
        BY <2>5, <3>1, <4>2
      <4> QED BY <4>1, <4>2
    <3> QED BY <1>7, <3>1 DEF Pend
  <2>9. Holds(Mem(b), C, M, Pend(b))
    <3>1. Holds(Mem(a), C, L, Pend(b))
      BY <1>1, <2>8, HoldsMore
    <3>2. Holds(Mem(a), C, Stored(L, k, value), Pend(b))
      BY <2>6, <2>7, <3>1, LiteralWaits
    <3> QED BY <1>8, <3>2 DEF M
  <2>10. \A r \in Pages : Size(Cp(b)[r]) <= 127 /\ Size(Cp(b)[r]) \in Nat
    <3>1. TAKE r \in Pages
    <3>2. Cp(b)[r] \in Pool /\ Used(b)[r] \in Offset /\ Used(b)[r] < Room(Cp(b)[r])
      BY <1>6 DEF Pooled, Apart
    <3>3. Size(Cp(b)[r]) \in Nat /\ Room(Cp(b)[r]) = 128 - Size(Cp(b)[r])
      BY <3>2, Rooms
    <3> QED BY <3>2, <3>3 DEF Offset
  <2>11. Indexed(b, M)
    <3>1. ASSUME NEW r \in Pages, NEW i \in 1..Size(Cp(b)[r])
          PROVE  /\ Loc(Fld(b), r, 128 - i) \in DOMAIN M
                 /\ M[Loc(Fld(b), r, 128 - i)] = Lit(Cp(b)[r], i)
      <4>1. 128 - i \in Offset
        BY <2>10 DEF Offset
      <4>2. CASE r = page /\ i = n
        BY <1>3, <1>7, <1>9, <2>2, <2>3, <2>5, <4>2
      <4>3. CASE ~(r = page /\ i = n)
        <5>1. i \in 1..Size(Cp(a)[r]) /\ Lit(Cp(b)[r], i) = Lit(Cp(a)[r], i)
          <6>1. CASE r = page
            <7>1. i \in 1..n /\ i # n /\ n = Size(p) + 1
              BY <2>2, <2>5, <4>3, <6>1 DEF n
            <7>2. i \in 1..Size(p)
              BY <1>5, <7>1
            <7> QED BY <2>2, <2>5, <6>1, <7>2 DEF p
          <6>2. CASE r # page
            BY <2>5, <6>2
          <6> QED BY <6>1, <6>2
        <5> DEFINE j == Loc(Fld(a), r, 128 - i)
        <5>2. j \in DOMAIN L /\ L[j] = Lit(Cp(a)[r], i)
          BY <1>1, <5>1 DEF Indexed
        <5>3. j # k
          <6>1. SUFFICES ASSUME j = k PROVE FALSE
            OBVIOUS
          <6>2. r = page /\ 128 - i = ix
            BY <1>1, <1>3, <2>4, <4>1, <6>1, LocOnce
          <6>3. i = n
            <7>1. i \in Int /\ n \in Int /\ 128 - i = 128 - n
              BY <2>3, <6>2
            <7> QED BY <7>1
          <6> QED BY <4>3, <6>2, <6>3
        <5> HIDE DEF j
        <5>4. j \in DOMAIN M /\ M[j] = Lit(Cp(b)[r], i)
          BY <1>9, <5>1, <5>2, <5>3
        <5> QED BY <1>7, <5>4 DEF j
      <4> QED BY <4>2, <4>3
    <3> QED BY <3>1 DEF Indexed
  <2>12. Above(b, M)
    <3>1. ASSUME NEW r \in Pages, NEW o \in Offset, Loc(Fld(b), r, o) \in DOMAIN M
          PROVE  o >= Room(Cp(b)[r])
      <4>1. CASE Loc(Fld(b), r, o) = k
        <5>1. r = page /\ o = ix
          BY <1>1, <1>3, <1>7, <2>4, <4>1, LocOnce
        <5> QED BY <1>5, <2>1, <2>2, <2>5, <5>1
      <4>2. CASE Loc(Fld(b), r, o) \in DOMAIN L
        <5>1. o >= Room(Cp(a)[r])
          BY <1>1, <1>7, <4>2 DEF Above
        <5>2. CASE r = page
          <6>1. o \in Int /\ Room(p) \in Int /\ Room(q) = Room(p) - 1 /\ o >= Room(p)
            BY <1>5, <2>2, <5>1, <5>2 DEF Offset, p
          <6>2. o >= Room(q)
            BY <6>1
          <6> QED BY <2>5, <5>2, <6>2
        <5>3. CASE r # page
          BY <2>5, <5>1, <5>3
        <5> QED BY <5>2, <5>3
      <4> QED BY <1>9, <3>1, <4>1, <4>2
    <3> QED BY <3>1 DEF Above
  <2>13. Below(b, C)
    BY <1>1, <1>7 DEF Below
  <2>14. Tied(b, C, M)
    BY <1>6, <2>11, <2>12, <2>13 DEF Tied
  <2>15. Full(b, C, M)
    BY <1>8, <2>9, <2>14 DEF Full
  <2> QED BY <1>6, <1>7, <1>8, <2>15 DEF b, M, k
<1> QED BY <1>6, <1>10, <1>11

LEMMA OriginErrs ==
  ASSUME NEW a, DOMAIN a = PoolFields
  PROVE  Errs(OriginUnlessRim(a)) = Errs(a) /\ Clc(OriginUnlessRim(a)) = Clc(a)
         /\ DOMAIN OriginUnlessRim(a) = PoolFields
<1>1. Same(a, OriginUnlessRim(a), Taped)
  BY OriginUnlessSame
<1> QED BY <1>1, Kept DEF Taped

LEMMA ClearedSame ==
  ASSUME NEW a
  PROVE  Same(a, clearLiteralTable(a), {"cp", "max_page_used"})
  BY DEF Same, clearLiteralTable

(* The pools are punched.                                                  *)
LEMMA PoolFull ==
  ASSUME NEW a, NEW C, NEW L, Full(a, C, L), NEW p0
  PROVE  /\ Full(punchLiteralPool(a, p0), C, L)
         /\ Errs(punchLiteralPool(a, p0)) = Errs(a) /\ Clc(punchLiteralPool(a, p0)) = Clc(a)
         /\ ~Pending(a, p0) => punchLiteralPool(a, p0) = a
         /\ p0 => Pend(punchLiteralPool(a, p0)) = {}
<1> DEFINE b == punchLiteralPool(a, p0)
<1>1. Pooled(a) /\ DOMAIN a = PoolFields
  BY DEF Full, Tied, Pooled
<1>2. PunchedTo(a, b, p0, 0)
  BY <1>1, PoolsPunched
<1> HIDE DEF b
<1>3. /\ Full(b, C, L) /\ Pooled(b) /\ Same(a, b, Written)
      /\ (\A page \in Pages : p0 \/ page # 0 => Clean(a, page)) => b = a
  BY <1>2 DEF PunchedTo
<1>4. \A page \in Pages : p0 => Clean(b, page)
  <2>1. \A page \in Pages : page >= 0
    BY DEF Pages
  <2> QED BY <1>2, <2>1 DEF PunchedTo
<1>5. Errs(b) = Errs(a) /\ Clc(b) = Clc(a)
  BY <1>1, <1>3, Kept DEF Written, Taped, Listed
<1>6. ~Pending(a, p0) => b = a
  <2>1. ASSUME NEW page \in Pages, p0 \/ page # 0, ~Clean(a, page) PROVE Pending(a, p0)
    <3>1. page \in 0..(MAX_PAGES - 1)
      BY DEF Pages, MAX_PAGES
    <3>2. Len(a.cp[page].pool) # a.cp[page].punched
      BY <2>1 DEF Clean, Done, Size, Cp
    <3> QED BY <2>1, <3>1, <3>2 DEF Pending
  <2> QED BY <1>3, <2>1
<1>7. p0 => Pend(b) = {}
  <2> SUFFICES ASSUME p0 PROVE Pend(b) = {}
    OBVIOUS
  <2>1. \A page \in Pages : Done(Cp(b)[page]) = Size(Cp(b)[page]) /\ Size(Cp(b)[page]) \in Nat
    BY <1>3, <1>4, Rooms DEF Clean, Pooled
  <2>2. \A page \in Pages : \A i \in 1..Size(Cp(b)[page]) : ~(i > Done(Cp(b)[page]))
    BY <2>1
  <2> QED BY <2>2 DEF Pend
<1> QED BY <1>3, <1>5, <1>6, <1>7 DEF b

LEMMA GoToFull ==
  ASSUME NEW a, NEW C, NEW L, Full(a, C, L), NEW newclc \in Int
  PROVE  Aligned(GoTo(a, newclc), C, L) /\ Errs(GoTo(a, newclc)) = Errs(a)
<1> DEFINE b == LeavePage(a, newclc)
           n == newclc - Rel(a)
<1>1. Full(b, C, L) /\ Errs(b) = Errs(a)
  BY PoolFull DEF LeavePage
<1>2. n \in Int
  BY DEF Full, Tied, Pooled
<1>3. GoTo(a, newclc) = OriginUnlessRim(ClcAt(b, n))
  BY DEF GoTo, ClcAt, Rel
<1> HIDE DEF b, n
<1>4. Full(ClcAt(b, n), C, L) /\ Errs(ClcAt(b, n)) = Errs(b)
  BY <1>1, <1>2, FullMoved, ClcSet DEF Full, Tied
<1>5. Errs(OriginUnlessRim(ClcAt(b, n))) = Errs(ClcAt(b, n))
  BY <1>4, OriginErrs DEF Full, Tied, Pooled
<1> QED BY <1>1, <1>3, <1>4, <1>5, FullOrigin

LEMMA TestFull ==
  ASSUME NEW a, NEW C, NEW L, Full(a, C, L), NEW loc \in Int,
         Errs(testForLiteralCollision(a, loc)) = 0
  PROVE  /\ Errs(a) = 0 /\ Full(testForLiteralCollision(a, loc), C, L)
         /\ Org(testForLiteralCollision(a, loc)) = Org(a)
         /\ Clc(testForLiteralCollision(a, loc)) = Clc(a)
<1> DEFINE b == testForLiteralCollision(a, loc)
<1>1. Tested(a, b, loc)
  BY CollisionTested DEF Full, Tied
<1>2. Errs(b) = 0
  OBVIOUS
<1> HIDE DEF b
<1>3. Full(b, C, L) /\ Org(b) = Org(a) /\ Clc(b) = Clc(a)
  BY <1>1, <1>2, FullTested
<1>4. Errs(a) = 0
  BY <1>1, <1>2 DEF Tested
<1> QED BY <1>3, <1>4 DEF b

LEMMA StartPageFull ==
  ASSUME NEW a, NEW C, NEW L, Full(a, C, L), NEW oldclc, Errs(StartPage(a, oldclc)) = 0
  PROVE  /\ Errs(a) = 0 /\ Full(StartPage(a, oldclc), C, L)
         /\ Clc(StartPage(a, oldclc)) = Clc(a)
         /\ Org(StartPage(a, oldclc)) = IF Clc(a) = oldclc THEN Org(a) ELSE Clc(a) % 4096
<1> DEFINE loc == Clc(a) + Rel(a)
           t == testForLiteralCollision(a, loc)
           b == StartPage(a, oldclc)
<1>1. b = IF Clc(t) = oldclc THEN t ELSE OriginUnlessRim(t)
  BY DEF StartPage, OriginIfMoved, Clc, Rel
<1>2. loc \in Int
  BY DEF Full, Tied, Pooled
<1>3. Errs(b) = 0
  OBVIOUS
<1> HIDE DEF loc, b
<1>4. Tested(a, t, loc)
  BY <1>2, CollisionTested DEF Full, Tied
<1>5. Errs(t) = 0
  <2>1. DOMAIN t = PoolFields
    BY <1>4 DEF Tested, Pooled
  <2> HIDE DEF t
  <2> QED BY <1>1, <1>3, <2>1, OriginErrs
<1>6. Errs(a) = 0 /\ Full(t, C, L) /\ Org(t) = Org(a) /\ Clc(t) = Clc(a)
  BY <1>2, <1>5, TestFull
<1> HIDE DEF t
<1>7. CASE Clc(t) = oldclc
  BY <1>1, <1>6, <1>7 DEF b
<1>8. CASE Clc(t) # oldclc
  <2>1. b = OriginUnlessRim(t)
    BY <1>1, <1>8
  <2>2. Aligned(b, C, L)
    BY <1>6, <2>1, FullOrigin
  <2>3. Clc(b) = Clc(t)
    BY <1>6, <2>1, OriginErrs DEF Full, Tied, Pooled
  <2> QED BY <1>6, <1>8, <2>2, <2>3 DEF Aligned, b
<1> QED BY <1>7, <1>8

LEMMA SegmentFull ==
  ASSUME NEW a, NEW C, NEW L, Full(a, C, L), Errs(StartSegment(a)) = 0
  PROVE  Errs(a) = 0 /\ Aligned(StartSegment(a), C, L)
<1> DEFINE o == OriginUnlessRim(a)
<1>1. Aligned(o, C, L)
  BY FullOrigin
<1>2. Errs(o) = Errs(a)
  BY OriginErrs DEF Full, Tied, Pooled
<1>3. StartSegment(a) = testForLiteralCollision(o, Clc(a)) /\ Clc(a) \in Int
  BY DEF StartSegment, Clc, Full, Tied, Pooled
<1> HIDE DEF o
<1> QED BY <1>1, <1>2, <1>3, TestFull DEF Aligned

(* The assembler goes on in a field it has not been in; all literals of    *)
(* the one it leaves have been punched.                                    *)
LEMMA FieldFull ==
  ASSUME NEW a, NEW C, NEW L, Full(a, C, L), Pend(a) = {}, NEW newfield \in Int,
         \A k \in DOMAIN C \cup DOMAIN L : k \div 4096 # newfield,
         Errs(StartField(ChangeField(a, newfield))) = 0
  PROVE  Errs(a) = 0 /\ Aligned(StartField(ChangeField(a, newfield)), C, L)
<1> DEFINE f == ChangeField(a, newfield)
           c == ClcAt(f, 128 + Fld(f))
           o == OriginUnlessRim(c)
           b == clearLiteralTable(o)
<1>1. /\ Pooled(a) /\ DOMAIN a = PoolFields /\ OnTape(a) /\ Holds(Mem(a), C, L, {})
      /\ Safe(a) /\ Errs(a) \in Nat
  BY DEF Full, Tied, Pooled, Safe
<1>2. StartField(f) = b
  BY DEF StartField, ClcAt, Fld
<1>3. Errs(b) = 0
  BY <1>2
<1> HIDE DEF b
<1>4. ~a.rim_mode /\ newfield \in 0..7
  <2>1. ~a.rim_mode
    BY <1>1 DEF OnTape, Bin
  <2>2. SUFFICES ASSUME newfield \notin 0..7 PROVE FALSE
    BY <2>1
  <2>3. f = errorMessage(a, "illegal_field_value")
    BY <2>1, <2>2 DEF ChangeField
  <2> HIDE DEF f
  <2>4. Pooled(f) /\ Errs(f) # 0
    BY <1>1, <2>3, MessageSafe DEF Safe
  <2>5. 128 + Fld(f) \in Int
    BY <2>4 DEF Pooled, Fields
  <2>6. Pooled(c) /\ Errs(c) = Errs(f)
    BY <2>4, <2>5, ClcSet
  <2> HIDE DEF c
  <2>7. Errs(o) = Errs(c) /\ DOMAIN o = PoolFields
    BY <2>6, OriginErrs DEF Pooled
  <2> HIDE DEF o
  <2>8. Same(o, b, {"cp", "max_page_used"})
    BY ClearedSame DEF b
  <2>9. Errs(b) = Errs(o)
    BY <2>7, <2>8, Kept
  <2> QED BY <1>3, <2>4, <2>6, <2>7, <2>9
<1>5. f = FieldFrame(a, newfield)
  BY <1>4 DEF ChangeField
<1> HIDE DEF f
<1>6. /\ OnTape(f) /\ Mem(f) = Mem(a) /\ Fld(f) = 4096 * newfield
      /\ Same(a, f, Taped \cup {"field"})
  <2>1. /\ OnTape(f) /\ Mem(f) = Mem(a) /\ Fld(f) = FieldBase(newfield)
        /\ Same(a, f, Taped \cup {"field"})
    <3>1. newfield \in 0..7 /\ OnTape(a)
      BY <1>1, <1>4
    <3> QED BY <1>5, <3>1, FieldPunched
  <2> QED BY <2>1 DEF FieldBase
<1>7. /\ Fld(f) \in Fields /\ Fld(f) \in Int /\ Pooled(f) /\ Errs(f) = Errs(a)
  <2>1. Fld(f) \in Fields /\ Fld(f) \in Int
    BY <1>4, <1>6 DEF Fields
  <2>2. Errs(f) = Errs(a) /\ Clc(f) = Clc(a) /\ Rel(f) = Rel(a)
    BY <1>1, <1>6, Kept DEF Taped
  <2>3. Same(a, f, Moved)
    BY <1>6, SameMore DEF Moved, Aside
  <2> QED BY <1>1, <2>1, <2>2, <2>3, MovedPooled DEF Pooled
<1> DEFINE n == 128 + Fld(f)
<1>8. n \in Int
  BY <1>7
<1> HIDE DEF n
<1>9. Same(f, c, {"clc"}) /\ Pooled(c) /\ Clc(c) = n /\ Fld(c) = Fld(f) /\ Errs(c) = Errs(f)
  BY <1>7, <1>8, ClcSet DEF n
<1>10. OnTape(c) /\ Mem(c) = Mem(a)
  <2>1. {"clc"} \cap Punching = {}
    BY DEF Punching
  <2> HIDE DEF c
  <2> QED BY <1>6, <1>9, <2>1, TapeKept
<1> HIDE DEF c
<1>11. OnTape(o) /\ Mem(o) = Mem(a) /\ Org(o) = n % 4096
  <2>1. o = punchOrigin(c, Clc(c))
    BY <1>8, <1>9, <1>10, OriginPunched DEF Clc
  <2> HIDE DEF o
  <2> QED BY <1>8, <1>9, <1>10, <2>1, OriginPunched
<1>12. /\ Errs(o) = Errs(c) /\ Clc(o) = n /\ Fld(o) = Fld(f) /\ Pooled(o)
  <2>1. Same(c, o, Taped)
    BY OriginUnlessSame
  <2> HIDE DEF o
  <2>2. Errs(o) = Errs(c) /\ Clc(o) = n /\ Fld(o) = Fld(f) /\ Errs(c) \in Nat
    BY <1>9, <2>1, Kept DEF Taped, Pooled
  <2>3. Same(c, o, Aside)
    BY <2>1, SameMore DEF Aside
  <2> QED BY <1>9, <2>2, <2>3, AsidePooled
<1> HIDE DEF o
<1>13. /\ Same(o, b, {"cp", "max_page_used"}) /\ Pooled(b) /\ Apart(b) /\ Cp(b) = Emptied
  BY <1>12, TableCleared DEF b
<1>14. Clc(b) = n /\ Fld(b) = Fld(f) /\ Errs(b) = Errs(a)
  BY <1>7, <1>9, <1>12, <1>13, Kept DEF Pooled
<1>15. OnTape(b) /\ Mem(b) = Mem(a) /\ Org(b) = n % 4096
  <2>1. {"cp", "max_page_used"} \cap Punching = {}
    BY DEF Punching
  <2> QED BY <1>11, <1>13, <2>1, TapeKept
<1>16. \A page \in Pages : Size(Cp(b)[page]) = 0
  BY <1>13, EmptyFits DEF Emptied
<1>17. Pend(b) = {} /\ Indexed(b, L)
  <2>1. \A page \in Pages : \A i \in 1..Size(Cp(b)[page]) : FALSE
    BY <1>16
  <2>2. Pend(b) = {}
    BY <2>1 DEF Pend
  <2> QED BY <2>1, <2>2 DEF Indexed
<1>18. \A page \in Pages : \A u \in Offset : Loc(Fld(b), page, u) \notin DOMAIN C \cup DOMAIN L
  <2> TAKE page \in Pages
  <2> TAKE u \in Offset
  <2> DEFINE j == Loc(Fld(b), page, u)
  <2>1. j \div 4096 = Fld(b) \div 4096 /\ Fld(b) = 4096 * (Fld(b) \div 4096)
        /\ Fld(b) \div 4096 \in 0..7
    BY <1>7, <1>14, LocField
  <2>2. Fld(b) \div 4096 = newfield
    BY <1>6, <1>14, <2>1
  <2> HIDE DEF j
  <2>3. j \div 4096 = newfield
    BY <2>1, <2>2
  <2>4. j \notin DOMAIN C \cup DOMAIN L
    BY <2>3
  <2> QED BY <2>4 DEF j
<1>19. Above(b, L) /\ Below(b, C)
  BY <1>18 DEF Above, Below
<1>20. Aligned(b, C, L)
  <2>1. Tied(b, C, L)
    BY <1>13, <1>17, <1>19 DEF Tied
  <2>2. Full(b, C, L)
    BY <1>1, <1>15, <1>17, <2>1 DEF Full
  <2> QED BY <1>14, <1>15, <2>2 DEF Aligned
<1> QED BY <1>2, <1>3, <1>14, <1>20 DEF f

LEMMA EndFull ==
  ASSUME NEW a, NEW C, NEW L, Full(a, C, L), Errs(endOfBinary(a)) = 0
  PROVE  Errs(a) = 0 /\ Full(endOfBinary(a), C, L) /\ Pend(endOfBinary(a)) = {}
<1> DEFINE p == punchLiteralPool(a, TRUE)
<1>1. Full(p, C, L) /\ Errs(p) = Errs(a) /\ Pend(p) = {}
  BY PoolFull
<1>2. endOfBinary(a) = IF p.error_in_line THEN errorMessage(p, "end_of_file") ELSE p
  BY DEF endOfBinary
<1> HIDE DEF p
<1>3. Safe(p)
  BY <1>1 DEF Full, Tied, Safe
<1>4. endOfBinary(a) = p
  BY <1>2, <1>3, MessageSafe
<1> QED BY <1>1, <1>4

(* The first origin, after the leader.                                     *)
LEMMA FirstPunched ==
  ASSUME NEW a, DOMAIN a = PoolFields, Puncher(a), Bin(a), On(a), SumOf(a) = 0, Fld(a) = 0,
         sim_load_bin(TapeOf(a)) = Loader, Clc(a) \in Int
  PROVE  /\ OnTape(OriginUnlessRim(a)) /\ Mem(OriginUnlessRim(a)) = Loader.core
         /\ Org(OriginUnlessRim(a)) = Clc(a) % 4096
<1> DEFINE b == punchOrigin(a, Clc(a))
           v == Clc(a) % 4096
           h == (v \div 64) + 64
           c == v % 64
           l == BinFrame(BinFrame(Loader, h), c)
<1>1. v \in Word
  BY LowBits
<1>2. h \in Frames /\ c \in Frames
  <2> HIDE DEF v
  <2> QED BY <1>1, Halves
<1>3. OriginUnlessRim(a) = b
  BY DEF OriginUnlessRim, Bin, Clc
<1>4. Pair(a, b, h, c)
  <2>1. OriginOn(a, b, Clc(a))
    BY OriginPair
  <2> QED BY <2>1 DEF OriginOn
<1>5. Same(a, b, Taped)
  BY OriginSame
<1> HIDE DEF b, v
<1>6. Follows(l, (h + c) % 4096, Loader.core, 0, v)
  BY <1>1, FollowsFirst
<1>7. /\ sim_load_bin(TapeOf(b)) = BinFrame(BinFrame(sim_load_bin(TapeOf(a)), h), c)
      /\ SumOf(b) = (SumOf(a) + h + c) % 4096
      /\ Puncher(b) /\ On(b) /\ Data(b) /\ Bin(b)
  <2> HIDE DEF h, c
  <2> QED BY <1>2, <1>4, PairRead
<1>8. h \in Int /\ c \in Int
  BY <1>2 DEF Frames
<1>9. SumOf(b) = (h + c) % 4096
  <2> HIDE DEF h, c
  <2>1. 0 + h + c = h + c
    BY <1>8
  <2> QED BY <1>7, <2>1
<1> HIDE DEF h, c
<1>10. sim_load_bin(TapeOf(b)) = l
  BY <1>7
<1> HIDE DEF l
<1>11. DOMAIN b = PoolFields /\ Fld(b) = 0
  BY <1>5, Kept DEF Taped
<1>12. Following(b, Loader.core, v)
  BY <1>6, <1>9, <1>10, <1>11 DEF Following
<1>13. OnTape(b) /\ Mem(b) = Loader.core /\ Org(b) = v
  BY <1>7, <1>11, <1>12, OnTapeIs
<1> QED BY <1>3, <1>13 DEF v

(* The whole tape, read from its leader to its trailer.                    *)
LEMMA CloseRead ==
  ASSUME NEW a, OnTape(a)
  PROVE  /\ sim_load_bin(TapeOf(CloseTape(a))).status = "OK"
         /\ sim_load_bin(TapeOf(CloseTape(a))).core = Mem(a)
<1> DEFINE e == Enabled(a, TRUE)
           s == SumOf(a)
           h == s \div 64
           c == s % 64
           p == punchLocObject(e, 0, s)
           closed == Closed(p)
           tape == Trailed(TapeOf(closed))
           l == sim_load_bin(TapeOf(a))
           r == BinFrame(BinFrame(BinFrame(l, h), c), 128)
<1>1. Puncher(a) /\ Bin(a) /\ Data(a) /\ s \in Word /\ Following(a, Mem(a), Org(a))
  BY DEF OnTape, Puncher
<1>2. Puncher(e) /\ On(e) /\ Bin(e) /\ Data(e) /\ TapeOf(e) = TapeOf(a) /\ SumOf(e) = s
  BY <1>1, EnabledFields
<1>3. CloseTape(a) = punchLeader(punchChecksum(e), TrailerFrames)
  BY DEF CloseTape, Enabled
<1>4. punchChecksum(e) = closed
  <2> HIDE DEF e
  <2> QED BY <1>2 DEF punchChecksum, Data, Bin, SumOf, Closed
<1>5. s \in Int /\ s % 4096 = s /\ h \in Frames /\ c \in Frames
  <2> HIDE DEF s
  <2>1. s % 4096 = s /\ h \in 0..63 /\ c \in 0..63
    BY <1>1, TwoHalves
  <2> QED BY <1>1, <2>1 DEF Word, Frames
<1>6. Pair(e, p, h, c)
  <2> HIDE DEF e, s
  <2>1. Pair(e, p, (s % 4096) \div 64, (s % 4096) % 64)
    BY <1>2, <1>5, WordPair
  <2> QED BY <1>5, <2>1
<1>7. r.st = "end" /\ r.status = "OK" /\ r.core = Mem(a)
  <2>1. Follows(l, s, Mem(a), Fld(a), Org(a))
    BY <1>1 DEF Following
  <2> HIDE DEF l, s
  <2> QED BY <1>1, <2>1, FollowsEnd
<1> HIDE DEF e, p, s, h, c
<1>8. Puncher(p) /\ On(p) /\ Bin(p) /\ sim_load_bin(TapeOf(p)) = BinFrame(BinFrame(l, h), c)
  <2>1. Puncher(p) /\ On(p) /\ Bin(p)
        /\ sim_load_bin(TapeOf(p)) = BinFrame(BinFrame(sim_load_bin(TapeOf(e)), h), c)
    BY <1>2, <1>5, <1>6, PairRead
  <2> QED BY <1>2, <2>1
<1>9. Puncher(closed) /\ TapeOf(closed) = TapeOf(p) /\ On(closed)
  BY <1>8, ClosedFields
<1> HIDE DEF closed, l
<1>10. punchLeader(closed, TrailerFrames) = Ended(closed, tape)
  BY <1>9 DEF punchLeader, On, Ended, TapeOf, Trailed
<1>11. TapeOf(closed) \in Seq(Frames) /\ tape \in Seq(Frames)
  <2>1. TapeOf(closed) \in Seq(Frames)
    BY <1>9 DEF Puncher
  <2> QED BY <2>1, Trailer
<1>12. sim_load_bin(tape) = r
  <2>1. BinFrame(sim_load_bin(TapeOf(closed)), 128) = r
    BY <1>8, <1>9
  <2> HIDE DEF r
  <2> QED BY <1>7, <1>11, <2>1, TrailerRead
<1> HIDE DEF tape, r
<1>13. TapeOf(Ended(closed, tape)) = tape
  BY <1>9, <1>11, EndedFields
<1> QED BY <1>3, <1>4, <1>7, <1>10, <1>12, <1>13

(* The record with which the pass begins.                                  *)
LEMMA BegunReady ==
  ASSUME NEW data \in BOOLEAN, NEW C, NEW L, DOMAIN C = {}, DOMAIN L = {}
  PROVE  Aligned(BeginPass(punchLeader(Opened(FALSE, data), LeaderFrames)), C, L)
<1> DEFINE z == Opened(FALSE, data)
           a == punchLeader(z, LeaderFrames)
           b == [a EXCEPT !.clc = 128, !.field = 0, !.reloc = 0, !.radix = 8, !.at = "line"]
           c == clearLiteralTable(b)
           d == OriginUnlessRim(c)
           leader == [i \in 1..LeaderFrames |-> 128]
<1>1. BeginPass(a) = d
  BY DEF BeginPass
<1>2. Pooled(z) /\ Errs(z) = 0
  BY OpenedSafe
<1>3. DOMAIN z = PoolFields /\ z.objectfile = TRUE /\ z.tape = <<>> /\ z.checksum = 0
      /\ z.rim_mode = FALSE
  BY DEF Opened, PoolFields
<1> HIDE DEF z
<1>4. /\ a = [z EXCEPT !.tape = leader]
  <2>1. leader \in Seq(Frames) /\ <<>> \o leader = leader
    <3>1. leader \in Seq(Frames)
      BY FrameCounts DEF Frames
    <3> HIDE DEF leader
    <3> QED BY <3>1
  <2>2. a = [z EXCEPT !.tape = z.tape \o leader]
    BY <1>3 DEF punchLeader
  <2> HIDE DEF a, leader
  <2> QED BY <1>3, <2>1, <2>2
<1> HIDE DEF a
<1>5. /\ Same(z, a, {"tape"}) /\ a.tape = leader /\ DOMAIN a = PoolFields
      /\ a.objectfile = TRUE /\ a.checksum = 0 /\ a.rim_mode = FALSE
  BY <1>3, <1>4 DEF Same, PoolFields
<1>6. /\ Same(a, b, {"clc", "field", "reloc", "radix", "at"}) /\ DOMAIN b = PoolFields
      /\ b.clc = 128 /\ b.field = 0 /\ b.reloc = 0
  BY <1>5 DEF Same, PoolFields
<1> HIDE DEF b, leader
<1>7. Pooled(b)
  <2>1. Errs(a) = 0 /\ Two(a) /\ Same(z, a, Moved)
    BY <1>2, <1>3, <1>5, Kept, SameMore DEF Pooled, Moved, Aside, Taped
  <2>2. Errs(b) = 0 /\ Clc(b) = 128 /\ Rel(b) = 0 /\ Fld(b) = 0
    BY <1>5, <1>6, <2>1, Kept DEF Clc, Rel, Fld
  <2>3. Same(z, b, Moved)
    <3>1. Same(a, b, Moved) /\ Moved \cup Moved = Moved
      BY <1>6, SameMore DEF Moved, Aside
    <3> QED BY <2>1, <3>1, SameTrans
  <2>4. Fld(b) \in Fields
    <3>1. 0 = 4096 * 0 /\ 0 \in 0..7
      OBVIOUS
    <3> QED BY <2>2, <3>1 DEF Fields
  <2> QED BY <1>2, <2>2, <2>3, <2>4, MovedPooled
<1>8. Same(b, c, {"cp", "max_page_used"}) /\ Pooled(c) /\ Apart(c) /\ Cp(c) = Emptied
  BY <1>7, TableCleared
<1> HIDE DEF c
<1>9. /\ DOMAIN c = PoolFields /\ TapeOf(c) = leader /\ SumOf(c) = 0 /\ On(c) /\ Bin(c)
      /\ Clc(c) = 128 /\ Fld(c) = 0 /\ Errs(c) \in Nat
  <2>1. TapeOf(b) = leader /\ SumOf(b) = 0 /\ On(b) /\ Bin(b)
    <3>1. TapeOf(a) = leader /\ SumOf(a) = 0 /\ On(a) /\ Bin(a)
      BY <1>5 DEF TapeOf, SumOf, On, Bin
    <3>2. TapeOf(b) = TapeOf(a) /\ SumOf(b) = SumOf(a) /\ (On(b) <=> On(a)) /\ (Bin(b) <=> Bin(a))
      BY <1>5, <1>6, Kept
    <3> QED BY <3>1, <3>2
  <2>2. Clc(b) = 128 /\ Fld(b) = 0
    BY <1>6 DEF Clc, Fld
  <2> QED BY <1>6, <1>8, <2>1, <2>2, Kept DEF Pooled
<1>10. Puncher(c)
  <2>1. leader \in Seq(Frames)
    BY FrameCounts DEF Frames, leader
  <2>2. PunchFields \subseteq PoolFields /\ 0 \in Word
    BY DEF PunchFields, PoolFields, Word
  <2> QED BY <1>9, <2>1, <2>2 DEF Puncher
<1>11. sim_load_bin(TapeOf(c)) = Loader
  BY <1>9, LeaderRead DEF leader
<1>12. OnTape(d) /\ Mem(d) = Loader.core /\ Org(d) = 128 % 4096
  <2> HIDE DEF d
  <2> QED BY <1>9, <1>10, <1>11, FirstPunched DEF d
<1>13. Same(c, d, Taped)
  BY OriginUnlessSame
<1> HIDE DEF d
<1>14. /\ Pooled(d) /\ Apart(d) /\ Cp(d) = Emptied /\ Clc(d) = 128
  <2>1. Same(c, d, Aside)
    BY <1>13, SameMore DEF Aside
  <2>2. Errs(d) = Errs(c)
    BY <1>9, <1>13, Kept DEF Taped
  <2> QED BY <1>8, <1>9, <2>1, <2>2, AsidePooled
<1>15. \A page \in Pages : \A i \in 1..Size(Cp(d)[page]) : FALSE
  BY <1>14, EmptyFits DEF Emptied
<1>16. Tied(d, C, L) /\ Pend(d) = {}
  <2>1. Pend(d) = {}
    BY <1>15 DEF Pend
  <2>2. Indexed(d, L) /\ Above(d, L) /\ Below(d, C)
    BY <1>15 DEF Indexed, Above, Below
  <2> QED BY <1>14, <2>1, <2>2 DEF Tied
<1>17. Holds(Mem(d), C, L, Pend(d))
  <2>1. DOMAIN Mem(d) = {}
    BY <1>12 DEF Loader
  <2> QED BY <2>1 DEF Holds
<1>18. Aligned(d, C, L)
  BY <1>12, <1>14, <1>16, <1>17 DEF Aligned, Full
<1> QED BY <1>1, <1>18 DEF a, z

-----------------------------------------------------------------------------
(* The invariant: until an error has been reported, the tape holds the     *)
(* code and the literals, but for those that wait in the pools; and it     *)
(* goes on at the location counter, unless a pseudo-op has just punched    *)
(* the pools and its argument is still to come.                            *)
Followed == plain /\ Errs(asm) = 0

TapeFull  == Followed /\ doing # "done" => Full(asm, code, lits)
TapeReady == Followed /\ doing \notin {"end", "done"} /\ ~strayed => Aligned(asm, code, lits)
Steady    == plain /\ doing = "statement" => ~strayed
NoneWait  == Followed /\ doing \in {"FIELD", "end"} => Pend(asm) = {}

LoadInv == Safe(asm) /\ TapeFull /\ TapeReady /\ Steady /\ NoneWait /\ LiteralsLoaded

LEMMA AddKeeps == ASSUME LoadInv, AddLiteral PROVE LoadInv'
<1>1. PICK value \in Literals, page \in PoolPages(asm) :
        /\ asm' = insertLiteral(asm, value, page).a
        /\ lits' = Stored(lits, LiteralAt(asm, value, page), value)
  BY DEF AddLiteral
<1>2. /\ doing' = doing /\ code' = code /\ strayed' = strayed
      /\ doing \in {"statement"} \cup Leaving /\ (plain' => plain)
      /\ (plain' => doing # "FIELD")
  BY DEF AddLiteral
<1>3. Safe(asm) /\ Clc(asm) \in Int /\ Fld(asm) \in Int
  BY DEF LoadInv, Safe, Pooled, Fields
<1>4. value \in Word /\ page \in Pages
  BY <1>1, <1>3, PoolPage DEF Word, Literals
<1>5. Safe(asm')
  BY <1>1, <1>3, <1>4, LiteralSafe
<1>6. doing' # "done" /\ doing' # "end"
  BY <1>2 DEF Leaving
<1>7. ASSUME Followed' PROVE Full(asm', code', lits') /\ (~strayed' => Aligned(asm', code', lits'))
  <2>1. Errs(insertLiteral(asm, value, page).a) = 0 /\ plain
    BY <1>1, <1>2, <1>7 DEF Followed
  <2>2. Errs(asm) = 0
    <3>1. Inserted(asm, insertLiteral(asm, value, page).a, page, value,
                   insertLiteral(asm, value, page).ix)
      BY <1>3, <1>4, LiteralInserted DEF Safe
    <3> QED BY <2>1, <3>1 DEF Inserted
  <2>3. Full(asm, code, lits) /\ (~strayed => Aligned(asm, code, lits))
    BY <1>2, <1>6, <2>1, <2>2 DEF LoadInv, TapeFull, TapeReady, Followed
  <2>4. /\ Full(asm', code, lits') /\ Org(asm') = Org(asm) /\ Clc(asm') = Clc(asm)
    BY <1>1, <1>4, <2>1, <2>3, LiteralFull
  <2> QED BY <1>2, <2>3, <2>4 DEF Aligned
<1>8. TapeFull' /\ TapeReady'
  BY <1>7 DEF TapeFull, TapeReady
<1>9. Steady'
  BY <1>2 DEF LoadInv, Steady
<1>10. NoneWait'
  BY <1>2, <1>6 DEF NoneWait, Followed
<1>11. LiteralsLoaded'
  BY <1>6 DEF LiteralsLoaded
<1> QED BY <1>5, <1>8, <1>9, <1>10, <1>11 DEF LoadInv

LEMMA MistakeKeeps == ASSUME LoadInv, Mistake PROVE LoadInv'
<1>1. Safe(asm') /\ Errs(asm') # 0
  BY MessageSafe DEF LoadInv, Mistake
<1>2. doing' = doing /\ plain' = plain /\ strayed' = strayed
  BY DEF Mistake
<1>3. ~(Errs(asm) = 0)' /\ doing' # "done"
  BY <1>1 DEF Mistake, Leaving
<1>4. TapeFull' /\ TapeReady' /\ NoneWait' /\ LiteralsLoaded'
  BY <1>3 DEF TapeFull, TapeReady, NoneWait, Followed, LiteralsLoaded
<1>5. Steady'
  BY <1>2 DEF LoadInv, Steady
<1> QED BY <1>1, <1>4, <1>5 DEF LoadInv

LEMMA WordErrs ==
  ASSUME NEW a, Safe(a), NEW val, NEW operand, Errs(PunchNext(a, val, operand)) = 0
  PROVE  Errs(a) = 0
<1> DEFINE b == punchOutObject(a, a.clc, val, operand)
<1>1. Same(a, b, Listed \cup Taped)
  BY OutSame
<1>2. PunchNext(a, val, operand) = incrementClc(b)
  BY DEF PunchNext
<1> HIDE DEF b
<1>3. Same(a, b, Quiet)
  BY <1>1, SameMore DEF Quiet
<1>4. Safe(b) /\ Pooled(b) /\ Clc(b) \in Int /\ Errs(b) = Errs(a)
  BY <1>3, QuietSafe DEF Safe, Pooled
<1>5. PICK t : Tested(b, t, Clc(b)) /\ incrementClc(b) = ClcAt(t, Stepped(Clc(b)))
  BY <1>4, ClcStepped
<1>6. Stepped(Clc(b)) \in Int /\ Pooled(t)
  BY <1>4, <1>5, SteppedLow DEF Tested
<1>7. Errs(t) = 0
  BY <1>2, <1>5, <1>6, ClcSet
<1> QED BY <1>4, <1>5, <1>7 DEF Tested

LEMMA GoToErrs ==
  ASSUME NEW a, Safe(a), NEW newclc \in Int
  PROVE  Errs(GoTo(a, newclc)) = Errs(a)
<1> DEFINE b == LeavePage(a, newclc)
           c == ClcAt(b, newclc - Rel(a))
<1>1. Safe(b) /\ Errs(b) = Errs(a)
  BY PoolSafe DEF LeavePage
<1>2. Rel(a) \in Int
  BY DEF Safe, Pooled
<1>3. GoTo(a, newclc) = OriginUnlessRim(c)
  BY DEF GoTo, ClcAt, Rel
<1> HIDE DEF b
<1>4. Safe(c) /\ Errs(c) = Errs(b)
  BY <1>1, <1>2, ClcSafe
<1> HIDE DEF c
<1> QED BY <1>1, <1>3, <1>4, OriginSafe

LEMMA WordKeeps == ASSUME LoadInv, AssembleWord PROVE LoadInv'
<1>1. PICK val \in Int, operand \in Int :
        /\ asm' = PunchNext(asm, val, operand) /\ code' = Stored(code, Here, val % 4096)
  BY DEF AssembleWord
<1>2. doing = "statement" /\ doing' = doing /\ lits' = lits /\ strayed' = strayed /\ plain' = plain
  BY DEF AssembleWord
<1>3. Safe(asm')
  BY <1>1, WordSafe DEF LoadInv
<1>4. ASSUME Followed' PROVE Aligned(asm', code', lits')
  <2>1. Errs(PunchNext(asm, val, operand)) = 0 /\ plain
    BY <1>1, <1>2, <1>4 DEF Followed
  <2>2. Errs(asm) = 0
    BY <2>1, WordErrs DEF LoadInv
  <2>3. Aligned(asm, code, lits)
    BY <1>2, <2>1, <2>2 DEF LoadInv, TapeReady, Steady, Followed
  <2>4. Here = Fld(asm) + (Clc(asm) % 4096)
    BY DEF Here, FieldLc, Fld, Clc
  <2> QED BY <1>1, <1>2, <2>1, <2>3, <2>4, WordFull
<1>5. TapeFull' /\ TapeReady'
  BY <1>4 DEF TapeFull, TapeReady, Aligned
<1>6. Steady' /\ NoneWait' /\ LiteralsLoaded'
  BY <1>2 DEF LoadInv, Steady, NoneWait, LiteralsLoaded
<1> QED BY <1>3, <1>5, <1>6 DEF LoadInv

LEMMA LineKeeps == ASSUME LoadInv, NextLine PROVE LoadInv'
<1>1. /\ doing = "statement" /\ doing' = doing /\ code' = code /\ lits' = lits
      /\ strayed' = strayed /\ plain' = plain
  BY DEF NextLine
<1>2. Safe(asm) /\ DOMAIN asm = PoolFields
  BY DEF LoadInv, Safe, Pooled
<1>3. Safe(asm')
  BY <1>2, LineSafe DEF NextLine
<1>4. Same(asm, asm', {"error_in_line", "radix", "listfile", "reloc"})
  <2> DEFINE F == {"error_in_line", "radix", "listfile", "reloc"}
  <2>1. CASE asm' = Unmarked(asm)
    BY <2>1 DEF Same, Unmarked
  <2>2. CASE \E r : asm' = WithRadix(asm, r)
    BY <2>2 DEF Same, WithRadix
  <2>3. CASE \E on : asm' = WithListing(asm, on)
    BY <2>3 DEF Same, WithListing
  <2>4. CASE asm' = NotRelocated(asm)
    BY <2>4 DEF Same, NotRelocated
  <2>5. CASE \E val : asm' = RelocatedTo(asm, val)
    <3>1. PICK val : asm' = RelocatedTo(asm, val)
      BY <2>5
    <3> DEFINE r == (val % 4096) - FieldLc(asm)
    <3>2. asm' = [asm EXCEPT !.reloc = r]
      BY <3>1 DEF RelocatedTo
    <3> HIDE DEF r
    <3> QED BY <3>2 DEF Same
  <2> HIDE DEF F
  <2> QED BY <2>1, <2>2, <2>3, <2>4, <2>5 DEF NextLine
<1>5. Errs(asm') = Errs(asm) /\ Clc(asm') = Clc(asm)
  BY <1>2, <1>4, Kept
<1>6. ASSUME Followed' PROVE Aligned(asm', code', lits')
  <2>1. Aligned(asm, code, lits)
    BY <1>1, <1>5, <1>6 DEF LoadInv, TapeReady, Steady, Followed
  <2>2. {"error_in_line", "radix", "listfile", "reloc"} \cap Pooling = {}
    BY DEF Pooling, Punching
  <2>3. Full(asm', code, lits) /\ Org(asm') = Org(asm)
    BY <1>3, <1>4, <2>1, <2>2, FullKept DEF Aligned, Safe
  <2> QED BY <1>1, <1>5, <2>1, <2>3 DEF Aligned
<1>7. TapeFull' /\ TapeReady'
  BY <1>6 DEF TapeFull, TapeReady, Aligned
<1>8. Steady' /\ NoneWait' /\ LiteralsLoaded'
  BY <1>1 DEF LoadInv, Steady, NoneWait, LiteralsLoaded
<1> QED BY <1>3, <1>7, <1>8 DEF LoadInv

LEMMA OriginKeeps == ASSUME LoadInv, SetOrigin PROVE LoadInv'
<1>1. PICK val \in Int : asm' = GoTo(asm, asm.field + (val % 4096))
  BY DEF SetOrigin
<1>2. /\ doing = "statement" /\ doing' = doing /\ strayed' = FALSE /\ code' = code
      /\ lits' = lits /\ plain' = plain
  BY DEF SetOrigin
<1> DEFINE n == Fld(asm) + (val % 4096)
<1>3. n \in Int /\ Safe(asm)
  BY DEF LoadInv, Safe, Pooled, Fields
<1>4. asm' = GoTo(asm, n)
  BY <1>1 DEF Fld
<1> HIDE DEF n
<1>5. Safe(asm')
  BY <1>3, <1>4, GoToSafe
<1>6. ASSUME Followed' PROVE Aligned(asm', code', lits')
  <2>1. Errs(asm) = 0
    BY <1>3, <1>4, <1>6, GoToErrs DEF Followed
  <2>2. Full(asm, code, lits)
    BY <1>2, <1>6, <2>1 DEF LoadInv, TapeFull, Followed
  <2> QED BY <1>2, <1>3, <1>4, <2>2, GoToFull
<1>7. TapeFull' /\ TapeReady'
  BY <1>6 DEF TapeFull, TapeReady, Aligned
<1>8. Steady' /\ NoneWait' /\ LiteralsLoaded'
  BY <1>2 DEF Steady, NoneWait, LiteralsLoaded
<1> QED BY <1>5, <1>7, <1>8 DEF LoadInv

LEMMA LeaveKeeps == ASSUME LoadInv, LeavePools PROVE LoadInv'
<1>1. PICK op \in Leaving : /\ doing' = op /\ asm' = punchLiteralPool(asm, op = "FIELD")
                            /\ strayed' = Pending(asm, op = "FIELD")
  BY DEF LeavePools
<1>2. doing = "statement" /\ code' = code /\ lits' = lits /\ plain' = plain
  BY DEF LeavePools
<1>3. op # "statement" /\ op # "done" /\ op # "end"
  BY DEF Leaving
<1>4. Safe(asm') /\ Errs(asm') = Errs(asm)
  BY <1>1, PoolSafe DEF LoadInv
<1>5. ASSUME Followed'
      PROVE  /\ Full(asm', code', lits') /\ (~strayed' => Aligned(asm', code', lits'))
             /\ (op = "FIELD" => Pend(asm') = {})
  <2>1. Aligned(asm, code, lits)
    BY <1>2, <1>4, <1>5 DEF LoadInv, TapeReady, Steady, Followed
  <2>2. Full(asm, code, lits)
    BY <2>1 DEF Aligned
  <2> DEFINE p0 == op = "FIELD"
  <2>3. asm' = punchLiteralPool(asm, p0) /\ (strayed' <=> Pending(asm, p0))
    BY <1>1
  <2> HIDE DEF p0
  <2>4. Full(asm', code, lits) /\ (~Pending(asm, p0) => asm' = asm) /\ (p0 => Pend(asm') = {})
    BY <2>2, <2>3, PoolFull
  <2> QED BY <1>2, <2>1, <2>3, <2>4 DEF p0
<1>6. TapeFull' /\ TapeReady'
  BY <1>5 DEF TapeFull, TapeReady
<1>7. NoneWait'
  BY <1>1, <1>3, <1>5 DEF NoneWait
<1>8. Steady' /\ LiteralsLoaded'
  BY <1>1, <1>3 DEF Steady, LiteralsLoaded
<1> QED BY <1>4, <1>6, <1>7, <1>8 DEF LoadInv

LEMMA PageErrs ==
  ASSUME NEW a, Safe(a), NEW c \in Int, NEW oldclc, Errs(StartPage(ClcAt(a, c), oldclc)) = 0
  PROVE  Errs(a) = 0 /\ Clc(StartPage(ClcAt(a, c), oldclc)) = c
<1> DEFINE m == ClcAt(a, c)
           loc == Clc(m) + Rel(m)
           t == testForLiteralCollision(m, loc)
           b == StartPage(m, oldclc)
<1>1. Safe(m) /\ Errs(m) = Errs(a) /\ Clc(m) = c
  BY ClcSafe, ClcSet DEF Safe
<1>2. b = OriginIfMoved(t, oldclc)
  BY DEF StartPage, Clc, Rel
<1>3. Errs(b) = 0
  OBVIOUS
<1> HIDE DEF m
<1>4. loc \in Int
  BY <1>1 DEF Safe, Pooled
<1> HIDE DEF loc, b
<1>5. Tested(m, t, loc) /\ Safe(t)
  BY <1>1, <1>4, CollisionTested, TestSafe DEF Safe
<1> HIDE DEF t
<1>6. Errs(b) = Errs(t) /\ Clc(b) = Clc(t)
  BY <1>2, <1>5, OriginErrs DEF OriginIfMoved, Safe, Pooled
<1>7. Clc(t) = Clc(m)
  <2>1. Same(m, t, {"max_page_used"} \cup Faulted) /\ DOMAIN m = PoolFields
    BY <1>1, <1>5 DEF Tested, Safe, Pooled
  <2> QED BY <2>1, Kept DEF Faulted
<1>8. Errs(a) = 0
  BY <1>1, <1>3, <1>5, <1>6 DEF Tested
<1> QED BY <1>1, <1>6, <1>7, <1>8 DEF b, m

LEMMA SegmentErrs ==
  ASSUME NEW a, Safe(a), NEW c \in Int, Errs(StartSegment(ClcAt(a, c))) = 0
  PROVE  Errs(a) = 0
<1> DEFINE m == ClcAt(a, c)
           o == OriginUnlessRim(m)
           b == testForLiteralCollision(o, Clc(m))
<1>1. Safe(m) /\ Errs(m) = Errs(a) /\ Clc(m) = c
  BY ClcSafe, ClcSet DEF Safe
<1>2. StartSegment(m) = b
  BY DEF StartSegment, Clc
<1>3. Errs(b) = 0
  BY <1>2
<1> HIDE DEF m, b
<1>4. Safe(o) /\ Errs(o) = Errs(m)
  BY <1>1, OriginSafe
<1> HIDE DEF o
<1>5. Tested(o, b, Clc(m))
  BY <1>1, <1>4, CollisionTested DEF Safe, b
<1> QED BY <1>1, <1>3, <1>4, <1>5 DEF Tested

(* Both forms of PAGE set the location counter, and no more.               *)
LEMMA PageMoves ==
  ASSUME NEW a, Safe(a)
  PROVE  /\ \E c \in Int : NextPage(a) = ClcAt(a, c)
         /\ \A val \in Int : \E c \in Int : PageOfField(a, val) = ClcAt(a, c)
<1>1. Clc(a) \in Int /\ Rel(a) \in Int /\ Fld(a) \in Int
  BY DEF Safe, Pooled, Fields
<1>2. \E c \in Int : NextPage(a) = ClcAt(a, c)
  <2> DEFINE n == ((((Clc(a) + Rel(a) + 127) \div 128) * 128) % 32768) - Rel(a)
  <2>1. n \in Int
    BY <1>1
  <2>2. NextPage(a) = ClcAt(a, n)
    BY DEF NextPage, ClcAt, Clc, Rel, PAGE_SIZE
  <2> HIDE DEF n
  <2> QED BY <2>1, <2>2
<1>3. ASSUME NEW val \in Int PROVE \E c \in Int : PageOfField(a, val) = ClcAt(a, c)
  <2> DEFINE m == Fld(a) + 128 * (val % 32) - Rel(a)
  <2>1. m \in Int
    BY <1>1
  <2>2. PageOfField(a, val) = ClcAt(a, m)
    BY DEF PageOfField, ClcAt, Fld, Rel, PAGE_SIZE
  <2> HIDE DEF m
  <2> QED BY <2>1, <2>2
<1> QED BY <1>2, <1>3

LEMMA PageKeeps == ASSUME LoadInv, TakePage PROVE LoadInv'
<1>1. Safe(asm) /\ DOMAIN asm = PoolFields
  BY DEF LoadInv, Safe, Pooled
<1>2. PICK c \in Int : asm' = StartPage(ClcAt(asm, c), asm.clc)
  BY <1>1, PageMoves DEF TakePage
<1>3. /\ doing = "PAGE" /\ doing' = "statement" /\ code' = code /\ lits' = lits
      /\ (strayed' <=> strayed /\ asm'.clc = asm.clc) /\ (plain' => plain)
      /\ (plain' => ~strayed')
  BY DEF TakePage
<1>4. asm' = StartPage(ClcAt(asm, c), Clc(asm)) /\ (asm'.clc = asm.clc <=> Clc(asm') = Clc(asm))
  BY <1>2 DEF Clc
<1>5. Safe(asm')
  BY <1>1, <1>4, ClcSafe, StartPageSafe
<1>6. ASSUME Followed' PROVE Aligned(asm', code', lits')
  <2>1. Errs(asm') = 0 /\ plain /\ plain'
    BY <1>3, <1>6 DEF Followed
  <2>2. Errs(asm) = 0 /\ Clc(asm') = c
    BY <1>1, <1>4, <2>1, PageErrs
  <2>3. Full(asm, code, lits) /\ (~strayed => Aligned(asm, code, lits))
    BY <1>3, <2>1, <2>2 DEF LoadInv, TapeFull, TapeReady, Followed
  <2> DEFINE m == ClcAt(asm, c)
  <2>4. Full(m, code, lits) /\ Org(m) = Org(asm) /\ Clc(m) = c
    BY <1>1, <2>3, FullMoved, ClcSet DEF Safe
  <2> HIDE DEF m
  <2>5. asm' = StartPage(m, Clc(asm))
    BY <1>4 DEF m
  <2>6. /\ Full(asm', code, lits)
        /\ Org(asm') = IF Clc(m) = Clc(asm) THEN Org(m) ELSE Clc(m) % 4096
    BY <2>1, <2>4, <2>5, StartPageFull
  <2>7. CASE c = Clc(asm)
    <3>1. ~strayed
      BY <1>3, <1>4, <2>1, <2>2, <2>7
    <3>2. Org(asm') = Org(asm)
      BY <2>4, <2>6, <2>7
    <3> QED BY <1>3, <2>2, <2>3, <2>6, <2>7, <3>1, <3>2 DEF Aligned
  <2>8. CASE c # Clc(asm)
    <3>1. Org(asm') = c % 4096
      BY <2>4, <2>6, <2>8
    <3> QED BY <1>3, <2>2, <2>6, <3>1 DEF Aligned
  <2> QED BY <2>7, <2>8
<1>7. TapeFull' /\ TapeReady'
  BY <1>6 DEF TapeFull, TapeReady, Aligned
<1>8. Steady' /\ NoneWait' /\ LiteralsLoaded'
  BY <1>3 DEF Steady, NoneWait, LiteralsLoaded
<1> QED BY <1>5, <1>7, <1>8 DEF LoadInv

LEMMA SegmentKeeps == ASSUME LoadInv, TakeSegment PROVE LoadInv'
<1>1. Safe(asm) /\ Clc(asm) \in Int
  BY DEF LoadInv, Safe, Pooled
<1>2. PICK c \in Int : asm' = StartSegment(ClcAt(asm, c))
  <2> DEFINE n == ((Clc(asm) % 4096) \div 1024) * 1024 + 1024
             m == 1024 * (SEGMNT % 4)
  <2>1. n \in Int /\ m \in Int
    BY <1>1 DEF SEGMNT
  <2>2. SegmentAfter(asm) = ClcAt(asm, n) /\ SegmentOfOp(asm) = ClcAt(asm, m)
    BY DEF SegmentAfter, SegmentOfOp, ClcAt, Clc
  <2> HIDE DEF n, m
  <2> QED BY <2>1, <2>2 DEF TakeSegment
<1>3. /\ doing = "SEGMNT" /\ doing' = "statement" /\ code' = code /\ lits' = lits
      /\ strayed' = FALSE /\ plain' = plain
  BY DEF TakeSegment
<1>4. Safe(asm')
  BY <1>1, SegmentsSafe DEF TakeSegment
<1>5. ASSUME Followed' PROVE Aligned(asm', code', lits')
  <2>1. Errs(asm') = 0 /\ plain
    BY <1>3, <1>5 DEF Followed
  <2>2. Errs(asm) = 0
    BY <1>1, <1>2, <2>1, SegmentErrs
  <2>3. Full(asm, code, lits)
    BY <1>3, <2>1, <2>2 DEF LoadInv, TapeFull, Followed
  <2>4. Full(ClcAt(asm, c), code, lits)
    BY <2>3, FullMoved
  <2> QED BY <1>2, <1>3, <2>1, <2>4, SegmentFull
<1>6. TapeFull' /\ TapeReady'
  BY <1>5 DEF TapeFull, TapeReady, Aligned
<1>7. Steady' /\ NoneWait' /\ LiteralsLoaded'
  BY <1>3 DEF Steady, NoneWait, LiteralsLoaded
<1> QED BY <1>4, <1>6, <1>7 DEF LoadInv

LEMMA FieldErrs ==
  ASSUME NEW a, Safe(a), NEW newfield \in Int, Errs(StartField(ChangeField(a, newfield))) = 0
  PROVE  Errs(a) = 0
<1> DEFINE f == ChangeField(a, newfield)
<1>1. DOMAIN a = PoolFields /\ "field" \in PoolFields /\ Errs(a) \in Nat
  BY DEF Safe, Pooled, PoolFields
<1>2. Errs(a) = Errs(f) \/ Errs(f) # 0
  <2>1. CASE ~a.rim_mode /\ newfield \in 0..7
    <3>1. f = FieldFrame(a, newfield)
      BY <2>1 DEF ChangeField
    <3>2. Same(a, f, Taped \cup {"field"})
      BY <1>1, <3>1, FieldSame
    <3> HIDE DEF f
    <3> QED BY <1>1, <3>2, Kept DEF Taped
  <2>2. CASE ~(~a.rim_mode /\ newfield \in 0..7)
    <3>1. \E m : f = errorMessage(a, m)
      BY <2>2 DEF ChangeField
    <3> HIDE DEF f
    <3> QED BY <3>1, MessageSafe
  <2> QED BY <2>1, <2>2
<1>3. DOMAIN f = PoolFields /\ Fld(f) \in Int
  <2>1. CASE ~a.rim_mode /\ newfield \in 0..7
    <3>1. f = FieldFrame(a, newfield)
      BY <2>1 DEF ChangeField
    <3>2. Same(a, f, Taped \cup {"field"}) /\ Fld(f) = 4096 * newfield
      BY <1>1, <3>1, FieldSame
    <3> HIDE DEF f
    <3> QED BY <1>1, <3>2 DEF Same
  <2>2. CASE ~(~a.rim_mode /\ newfield \in 0..7)
    <3>1. \E m : f = errorMessage(a, m)
      BY <2>2 DEF ChangeField
    <3> HIDE DEF f
    <3>2. Safe(f)
      BY <3>1, MessageSafe
    <3> QED BY <3>2 DEF Safe, Pooled, Fields
  <2> QED BY <2>1, <2>2
<1> DEFINE n == 128 + Fld(f)
           c == [f EXCEPT !.clc = n]
           o == OriginUnlessRim(c)
           b == clearLiteralTable(o)
<1>4. StartField(f) = b
  BY DEF StartField, Fld
<1>5. Errs(b) = 0
  BY <1>4
<1> HIDE DEF f, n
<1>6. Same(f, c, {"clc"}) /\ DOMAIN c = PoolFields
  BY <1>3 DEF Same, PoolFields
<1> HIDE DEF c
<1>7. Errs(c) = Errs(f)
  BY <1>3, <1>6, Kept
<1>8. Errs(o) = Errs(c) /\ DOMAIN o = PoolFields
  BY <1>6, OriginErrs
<1> HIDE DEF o
<1>9. Same(o, b, {"cp", "max_page_used"})
  BY ClearedSame
<1> HIDE DEF b
<1>10. Errs(b) = Errs(o)
  BY <1>8, <1>9, Kept
<1> QED BY <1>2, <1>5, <1>7, <1>8, <1>10

LEMMA FieldKeeps == ASSUME LoadInv, TakeField PROVE LoadInv'
<1>1. PICK newfield \in Int : /\ asm' = StartField(ChangeField(asm, newfield))
                              /\ plain' = (plain /\ ~Entered(newfield))
  BY DEF TakeField
<1>2. /\ doing = "FIELD" /\ doing' = "statement" /\ code' = code /\ lits' = lits
      /\ strayed' = FALSE
  BY DEF TakeField
<1>3. Safe(asm)
  BY DEF LoadInv
<1>4. Safe(asm')
  BY <1>1, <1>3, FieldsSafe
<1>5. ASSUME Followed' PROVE Aligned(asm', code', lits')
  <2>1. Errs(asm') = 0 /\ plain /\ ~Entered(newfield)
    BY <1>1, <1>5 DEF Followed
  <2>2. Errs(asm) = 0
    BY <1>1, <1>3, <2>1, FieldErrs
  <2>3. Full(asm, code, lits) /\ Pend(asm) = {}
    BY <1>2, <2>1, <2>2 DEF LoadInv, TapeFull, NoneWait, Followed
  <2>4. \A k \in DOMAIN code \cup DOMAIN lits : k \div 4096 # newfield
    BY <2>1 DEF Entered
  <2> QED BY <1>1, <1>2, <2>1, <2>3, <2>4, FieldFull
<1>6. TapeFull' /\ TapeReady'
  BY <1>5 DEF TapeFull, TapeReady, Aligned
<1>7. Steady' /\ NoneWait' /\ LiteralsLoaded'
  BY <1>2 DEF Steady, NoneWait, LiteralsLoaded
<1> QED BY <1>4, <1>6, <1>7 DEF LoadInv

LEMMA ModeKeeps == ASSUME LoadInv, ChangeMode PROVE LoadInv'
<1>1. plain' = FALSE
  BY DEF ChangeMode
<1>2. Safe(asm')
  BY ModesSafe, LineSafe DEF LoadInv, ChangeMode
<1>3. TapeFull' /\ TapeReady' /\ Steady' /\ NoneWait' /\ LiteralsLoaded'
  BY <1>1 DEF TapeFull, TapeReady, Steady, NoneWait, Followed, LiteralsLoaded
<1> QED BY <1>2, <1>3 DEF LoadInv

LEMMA EndKeeps == ASSUME LoadInv, EndSource PROVE LoadInv'
<1>1. /\ doing = "statement" /\ doing' = "end" /\ code' = code /\ lits' = lits
      /\ strayed' = strayed /\ plain' = plain /\ asm' = endOfBinary(asm)
  BY DEF EndSource
<1>2. Safe(asm')
  BY <1>1, EndSafe DEF LoadInv
<1>3. ASSUME Followed' PROVE Full(asm', code', lits') /\ Pend(asm') = {}
  <2>1. Errs(endOfBinary(asm)) = 0 /\ plain
    BY <1>1, <1>3 DEF Followed
  <2>2. Errs(asm) = 0
    <3> DEFINE p == punchLiteralPool(asm, TRUE)
    <3>9. Safe(asm)
      BY DEF LoadInv
    <3>1. Safe(p) /\ Errs(p) = Errs(asm)
      BY <3>9, PoolSafe
    <3>2. endOfBinary(asm) = IF p.error_in_line THEN errorMessage(p, "end_of_file") ELSE p
      BY DEF endOfBinary
    <3> HIDE DEF p
    <3> QED BY <2>1, <3>1, <3>2, MessageSafe
  <2>3. Full(asm, code, lits)
    BY <1>1, <2>1, <2>2 DEF LoadInv, TapeFull, Followed
  <2> QED BY <1>1, <2>1, <2>3, EndFull
<1>4. TapeFull' /\ TapeReady' /\ NoneWait'
  BY <1>1, <1>3 DEF TapeFull, TapeReady, NoneWait
<1>5. Steady' /\ LiteralsLoaded'
  BY <1>1 DEF Steady, LiteralsLoaded
<1> QED BY <1>2, <1>4, <1>5 DEF LoadInv

LEMMA CloseKeeps == ASSUME LoadInv, EndTape PROVE LoadInv'
<1>1. /\ doing = "end" /\ doing' = "done" /\ code' = code /\ lits' = lits
      /\ strayed' = strayed /\ plain' = plain /\ asm' = CloseTape(asm)
  BY DEF EndTape
<1>2. Safe(asm')
  BY <1>1, CloseSafe DEF LoadInv
<1>3. Errs(asm') = Errs(asm)
  <2> DEFINE b == [asm EXCEPT !.objectfile = TRUE]
  <2>1. Same(asm, b, Quiet)
    BY DEF Same, Quiet
  <2>2. CloseTape(asm) = punchLeader(punchChecksum(b), TrailerFrames)
    BY DEF CloseTape
  <2> HIDE DEF b
  <2>3. Same(b, punchChecksum(b), Quiet)
    BY ChecksumSame, SameMore DEF Quiet
  <2>4. Same(punchChecksum(b), punchLeader(punchChecksum(b), TrailerFrames), Quiet)
    BY LeaderSame, SameMore DEF Quiet, Taped
  <2>5. Same(asm, asm', Quiet)
    <3>1. Same(asm, punchChecksum(b), Quiet \cup Quiet)
      BY <2>1, <2>3, SameTrans
    <3>2. Quiet \cup Quiet = Quiet
      OBVIOUS
    <3>3. Same(asm, punchChecksum(b), Quiet)
      BY <3>1, <3>2
    <3> QED BY <1>1, <2>2, <2>4, <3>2, <3>3, SameTrans
  <2> QED BY <2>5, QuietSafe DEF LoadInv
<1>4. ASSUME Followed'
      PROVE  /\ sim_load_bin(TapeOf(asm')).status = "OK"
             /\ Holds(sim_load_bin(TapeOf(asm')).core, code', lits', {})
  <2>1. Errs(asm) = 0 /\ plain
    BY <1>1, <1>3, <1>4 DEF Followed
  <2>2. Full(asm, code, lits) /\ Pend(asm) = {}
    BY <1>1, <2>1 DEF LoadInv, TapeFull, NoneWait, Followed
  <2>3. OnTape(asm) /\ Holds(Mem(asm), code, lits, {})
    BY <2>2 DEF Full
  <2> QED BY <1>1, <2>3, CloseRead
<1>5. LiteralsLoaded'
  <2> SUFFICES ASSUME plain', asm'.errors = 0
               PROVE  LET l == sim_load_bin(asm'.tape) IN
                      /\ l.status = "OK"
                      /\ DOMAIN code' \cap DOMAIN lits' = {}
                      /\ DOMAIN l.core = DOMAIN code' \cup DOMAIN lits'
                      /\ \A k \in DOMAIN code' : l.core[k] = code'[k]
                      /\ \A k \in DOMAIN lits' : l.core[k] = lits'[k]
    BY DEF LiteralsLoaded
  <2>1. Followed'
    BY DEF Followed, Errs
  <2> DEFINE l == sim_load_bin(TapeOf(asm'))
  <2>2. l.status = "OK" /\ Holds(l.core, code', lits', {})
    BY <1>4, <2>1
  <2>3. sim_load_bin(asm'.tape) = l
    BY DEF TapeOf
  <2> HIDE DEF l
  <2> QED BY <2>2, <2>3 DEF Holds
<1>6. TapeFull' /\ TapeReady' /\ Steady' /\ NoneWait'
  BY <1>1 DEF TapeFull, TapeReady, Steady, NoneWait
<1> QED BY <1>2, <1>5, <1>6 DEF LoadInv

LEMMA PoolsBegin == ASSUME PoolsInit PROVE LoadInv
<1>1. PICK rim \in BOOLEAN, data \in BOOLEAN :
        /\ asm = BeginPass(punchLeader(Opened(rim, data), LeaderFrames))
        /\ plain = ~rim
  BY DEF PoolsInit
<1>2. Safe(asm)
  BY PoolsOpen
<1>3. doing = "statement" /\ strayed = FALSE /\ DOMAIN code = {} /\ DOMAIN lits = {}
  BY DEF PoolsInit
<1>4. ASSUME Followed PROVE Aligned(asm, code, lits)
  <2>1. rim = FALSE
    BY <1>1, <1>4 DEF Followed
  <2> QED BY <1>1, <1>3, <2>1, BegunReady
<1>5. TapeFull /\ TapeReady
  BY <1>4 DEF TapeFull, TapeReady, Aligned
<1>6. Steady /\ NoneWait /\ LiteralsLoaded
  BY <1>3 DEF Steady, NoneWait, LiteralsLoaded
<1> QED BY <1>2, <1>5, <1>6 DEF LoadInv

(* Whatever pass 2 assembles, in whatever order, wherever it goes and      *)
(* however often it comes back: the tape of an error-free assembly in BIN  *)
(* mode that enters no field twice loads (mem_gen/pdp8_sys.c:109-169) as   *)
(* its code and its literals, each at the location its statement was given *)
(* (sd_debug/palbart.c:2605-2634), and nothing else.                       *)
THEOREM LiteralsReachMemory == PoolsSpec => []LiteralsLoaded
<1>1. PoolsInit => LoadInv
  BY PoolsBegin
<1>2. LoadInv /\ [PoolsNext]_poolVars => LoadInv'
  <2> SUFFICES ASSUME LoadInv, [PoolsNext]_poolVars PROVE LoadInv'
    OBVIOUS
  <2>1. CASE UNCHANGED poolVars
    <3>1. /\ asm' = asm /\ doing' = doing /\ code' = code /\ lits' = lits
          /\ strayed' = strayed /\ plain' = plain
      BY <2>1 DEF poolVars
    <3> QED BY <3>1 DEF LoadInv, TapeFull, TapeReady, Steady, NoneWait, Followed, LiteralsLoaded
  <2>2. CASE PoolsNext
    BY <2>2, AddKeeps, MistakeKeeps, WordKeeps, LineKeeps, OriginKeeps, LeaveKeeps, PageKeeps,
       SegmentKeeps, FieldKeeps, ModeKeeps, EndKeeps, CloseKeeps DEF PoolsNext
  <2> QED BY <2>1, <2>2
<1>3. LoadInv => LiteralsLoaded
  BY DEF LoadInv
<1> QED BY <1>1, <1>2, <1>3, PTL DEF PoolsSpec
=============================================================================
