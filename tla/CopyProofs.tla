----------------------------- MODULE CopyProofs -----------------------------
(***************************************************************************)
(* A dump makes a copy of the disk, for every disk, card and speed.  A     *)
(* position says how far a dump has come: the sector, the word pair in it, *)
(* which character is next, and the sum of the words before.  The host is  *)
(* at one position, the program at another, and the characters on their    *)
(* way between them, one after the other, lead from the first to the       *)
(* second (CopyInv); each that arrives makes one step of DiskCopy.         *)
(***************************************************************************)
EXTENDS BlockProofs

Position == [sector : 0..(Sectors - 1), LOC : Nat, what : Whats \cup {"end"}, sum : Word]

(* The two words of the pair, 1 and 2.                                     *)
WordAt(x, i) == Content(TrackOf(x.sector))[x.LOC + i]

CharOf(x) ==
  CASE x.what = "flag"    -> 255
    [] x.what = "low"     -> Low(WordAt(x, 1))
    [] x.what = "mid"     -> Mid(WordAt(x, 1), WordAt(x, 2))
    [] x.what = "high"    -> High(WordAt(x, 2))
    [] x.what = "fe"      -> 254
    [] x.what = "sum"     -> Low(Negated(x.sum))
    [] x.what = "sumhigh" -> Negated(x.sum) \div 256

(* Sums of words, as wide as one.                                          *)
Added(m, n) == (m + n) % 4096
Plus(x, i) == Added(x.sum, WordAt(x, i))

Place(sector, LOC, what, sum) == [sector |-> sector, LOC |-> LOC, what |-> what, sum |-> sum]
Onto(x, what) == Place(x.sector, x.LOC, what, x.sum)

(* The position after the second word of a pair.                           *)
NextPair(x) ==
  IF x.LOC + 2 < Words THEN Place(x.sector, x.LOC + 2, "low", Plus(x, 2))
  ELSE IF x.sector + 1 < Sectors THEN Place(x.sector + 1, 0, "flag", Plus(x, 2))
  ELSE Place(x.sector, x.LOC, "fe", Plus(x, 2))

Successor(x) ==
  CASE x.what = "flag"    -> Onto(x, "low")
    [] x.what = "low"     -> Onto(x, "mid")
    [] x.what = "mid"     -> Place(x.sector, x.LOC, "high", Plus(x, 1))
    [] x.what = "high"    -> NextPair(x)
    [] x.what = "fe"      -> Onto(x, "sum")
    [] x.what = "sum"     -> Onto(x, "sumhigh")
    [] x.what = "sumhigh" -> Onto(x, "end")

Placed(x) == /\ x \in Position /\ x.LOC % 2 = 0 /\ x.LOC + 2 <= Words
             /\ x.what = "flag" => x.LOC = 0
             /\ x.what \in {"fe", "sum", "sumhigh", "end"} =>
                  x.sector + 1 = Sectors /\ x.LOC + 2 = Words

-----------------------------------------------------------------------------
(* The words the host has written when it is at x.                         *)
Earlier(x) == x.sector * Words + x.LOC
                + (CASE x.what \in {"flag", "low", "mid"} -> 0
                     [] x.what = "high" -> 1
                     [] OTHER -> 2)

CopiedTo(out, k) == /\ out \in Seq(Word) /\ Len(out) = k
                    /\ \A i \in 1..k : out[i] = WholeDisk[i]

(* dumprk05.c and hex2oct.c at x.                                          *)
Writes(r, x) ==
  /\ DOMAIN r = ReceiverFields
  /\ CopiedTo(r.out, Earlier(x))
  /\ r.chksum \in Nat /\ Added(r.chksum, 0) = x.sum
  /\ r.ended = IF x.what = "end" THEN "Done" ELSE "no"
  /\ r.count = CASE x.what \in {"flag", "fe"} -> -1
                 [] x.what \in {"low", "mid", "high"} -> x.LOC
                 [] OTHER -> -2
  /\ x.what # "end" => r.byte = CASE x.what \in {"mid", "sumhigh"} -> 1
                                  [] x.what = "high" -> 2
                                  [] OTHER -> 0
  /\ x.what = "mid" => r.temp = Low(WordAt(x, 1))
  /\ x.what = "high" => r.temp = Mid(WordAt(x, 1), WordAt(x, 2)) \div 16
  /\ x.what = "sumhigh" => r.temp = Low(Negated(x.sum))

Prints(h, x) ==
  /\ DOMAIN h = ConverterFields
  /\ CopiedTo(h.printed, Earlier(x))
  /\ h.ended = IF x.what \in {"sum", "sumhigh", "end"} THEN TRUE ELSE FALSE
  /\ x.what \in {"flag", "fe"} => h.state = 0
  /\ x.what = "low"  => h.state = 1
  /\ x.what = "mid"  => h.state = 2
  /\ x.what = "high" => h.state = 3
  /\ x.what = "mid" => h.temp1 = Low(WordAt(x, 1))
  /\ x.what = "high" => h.temp2 = Mid(WordAt(x, 1), WordAt(x, 2)) \div 16

-----------------------------------------------------------------------------
(* The sector that is being sent, or will be next: that before the one     *)
(* being read, unless it is the last.                                      *)
Index(p)   == p.EXBIT * TRACKSIZE + p.TRACK
Behind(p)  == \/ p.pc \in {"RD1", "RD2", "RD3", "RD4"} /\ p.then = "SEND"
              \/ p.pc \in Punching /\ p.then = "DMPLP"
Sending(p) == IF Behind(p) THEN Index(p) - 1 ELSE Index(p)

(* OUT has added both words before it sends the first.                     *)
Ahead(x) == CASE x.what \in {"low", "mid"} -> WordAt(x, 1) + WordAt(x, 2)
              [] x.what = "high" -> WordAt(x, 2)
              [] OTHER -> 0

(* The program is about to send the character at x.                        *)
Faces(p, x) ==
  /\ x.sector = Sending(p)
  /\ p.CHKSUM = Added(x.sum, Ahead(x))
  /\ IF p.pc \in Punching THEN x.what = p.what /\ x.LOC = p.LOC
     ELSE x.what = "flag" /\ x.LOC = 0

Given == prog.pc = "TSF" \/ (prog.pc = "TLS" /\ Obeyed)

AtTurn(x) == IF prog.pc = "FINISH" THEN x.what = "end"
             ELSE IF Given THEN \E y : Placed(y) /\ Faces(prog, y) /\ x = Successor(y)
             ELSE Faces(prog, x)

(* What the program sends next is in LSTBUF; what it sends last, the last. *)
Buffered == prog.pc \in Punching \/ Behind(prog)
Stored ==
  /\ Buffered => Holds(prog.LSTBUF, TrackOf(Sending(prog)), Words)
  /\ Behind(prog) => prog.LSTBUF # prog.CURBUF
  /\ prog.pc \in Punching /\ prog.then = "LAST" => LastTrack(prog)

(* The characters on their way, the transmitter's included.                *)
Held == tx.loaded = 1 \/ tx.state = "SENDING"
Line == IF Held THEN Append(tty, tx.tto) ELSE tty

Leads(f) ==
  /\ Placed(f[Len(Line)]) /\ AtTurn(f[Len(Line)])
  /\ \A i \in 0..(Len(Line) - 1) :
       /\ Placed(f[i]) /\ f[i].what # "end"
       /\ Line[i + 1] = CharOf(f[i]) /\ f[i + 1] = Successor(f[i])
  /\ Writes(rx, f[0]) /\ Prints(oct, f[0])

Led == \E f \in [0..Len(Line) -> Position] : Leads(f)

(* A read ends well or fails for good: nothing is tried again with success.*)
Settled ==
  /\ prog.READST = 255
  /\ prog.pc = "CAF" => prog.then = "-"
  /\ prog.pc \in Reading => prog.then # "-"
  /\ prog.pc = "CK3" => Failed
  /\ prog.pc \in Recalibrating => IF prog.then = "-" THEN prog.back = "DUMP" ELSE Failed
  /\ Quiet /\ Issued => rk.status = {"done"}
  /\ prog.pc = "CK2" /\ ~Failed => IF Obeyed THEN rk.disk_bus = {"done"}
                                   ELSE rk.status = {"done"}

Copying == ~IsJob(prog) => Settled /\ Stored /\ Led

(* A job sends nothing.                                                    *)
Idle == IsJob(prog) => Line = <<>> /\ rx = Receiving /\ oct = Converting

CopyInv == Copying /\ Idle

-----------------------------------------------------------------------------
(* Words and sectors in one count.                                         *)
LEMMA Sectored ==
  ASSUME NEW w \in Nat, 0 < w, NEW s \in Nat, NEW j \in Nat, j < w
  PROVE  /\ (s * w + j) \div w = s /\ (s * w + j) % w = j
         /\ (s + 1) * w = s * w + w /\ s * w \in Nat
         /\ \A n \in Nat : s < n => s * w + w <= n * w
<1>1. (s + 1) * w = s * w + w /\ s * w \in Nat
  OBVIOUS
<1>2. \A n \in Nat : s < n => (s + 1) * w <= n * w
  OBVIOUS
<1>3. (s * w + j) \div w = s
  OBVIOUS
<1>4. (s * w + j) % w = j
  BY <1>3
<1> QED BY <1>1, <1>2, <1>3, <1>4

(* The disk's words are those of its sectors, and are words.               *)
LEMMA DiskWords ==
  ASSUME NEW s \in Nat, s < Sectors, NEW j \in Nat, j < Words
  PROVE  /\ s * Words + j + 1 \in 1..(Sectors * Words)
         /\ WholeDisk[s * Words + j + 1] = Content(TrackOf(s))[j + 1]
         /\ Content(TrackOf(s))[j + 1] \in Word
<1>1. Words \in Nat /\ 0 < Words /\ Sectors \in Nat
  BY Constants DEF Sectors
<1>2. /\ (s * Words + j) \div Words = s /\ (s * Words + j) % Words = j
      /\ s * Words \in Nat /\ s * Words + Words <= Sectors * Words
  BY <1>1, Sectored
<1>3. PICK n \in Nat : n = s * Words + j
  BY <1>2
<1>4. Sectors * Words \in Nat
  BY <1>1
<1>5. n + 1 \in 1..(Sectors * Words) /\ (n + 1) - 1 = n
  BY <1>1, <1>2, <1>3, <1>4
<1>6. WholeDisk[n + 1] = Content(TrackOf(n \div Words))[(n % Words) + 1]
  BY <1>5 DEF WholeDisk
<1>7. Content(TrackOf(s))[j + 1] \in Word
  <2>1. TrackOf(s) \in Address
    <3>1. TrackOf(s) \in Int /\ 0 <= TrackOf(s) /\ TrackOf(s) < 32768
      BY Constants DEF TrackOf, Sectors
    <3> QED BY <3>1, Ranges
  <2>2. j + 1 \in 1..Words
    BY <1>1
  <2>3. Image[TrackOf(s)][j + 1] \in Nat
    BY <2>1, <2>2, ImageWords
  <2>4. PICK i \in Nat : i = Image[TrackOf(s)][j + 1]
    BY <2>3
  <2>5. i % 4096 \in Int /\ 0 <= i % 4096 /\ i % 4096 < 4096
    BY <2>4
  <2>6. Content(TrackOf(s))[j + 1] = i % 4096
    BY <2>2, <2>4 DEF Content
  <2> QED BY <2>5, <2>6, Ranges
<1> QED BY <1>2, <1>3, <1>5, <1>6, <1>7

(* The two words of a pair.                                                *)
LEMMA PairAt ==
  ASSUME NEW x, Placed(x)
  PROVE  /\ WordAt(x, 1) \in Word /\ WordAt(x, 2) \in Word
         /\ x.sector * Words + x.LOC + 1 \in 1..(Sectors * Words)
         /\ x.sector * Words + x.LOC + 2 \in 1..(Sectors * Words)
         /\ WholeDisk[x.sector * Words + x.LOC + 1] = WordAt(x, 1)
         /\ WholeDisk[x.sector * Words + x.LOC + 2] = WordAt(x, 2)
<1>1. /\ x.sector \in Nat /\ x.sector < Sectors /\ x.LOC \in Nat /\ x.LOC + 1 \in Nat
      /\ x.LOC < Words /\ x.LOC + 1 < Words
  BY Constants DEF Placed, Position, Sectors
<1>2. PICK s \in Nat, j \in Nat, k \in Nat, m \in Nat :
        s = x.sector /\ j = x.LOC /\ k = j + 1 /\ m = s * Words
  BY <1>1, Constants
<1>3. s < Sectors /\ j < Words /\ k < Words
  BY <1>1, <1>2
<1>4. m + k + 1 = m + j + 2 /\ k + 1 = j + 2
  BY <1>2
<1>5. /\ m + j + 1 \in 1..(Sectors * Words)
      /\ WholeDisk[m + j + 1] = Content(TrackOf(s))[j + 1]
      /\ Content(TrackOf(s))[j + 1] \in Word
  BY <1>2, <1>3, DiskWords
<1>6. /\ m + k + 1 \in 1..(Sectors * Words)
      /\ WholeDisk[m + k + 1] = Content(TrackOf(s))[k + 1]
      /\ Content(TrackOf(s))[k + 1] \in Word
  BY <1>2, <1>3, DiskWords
<1> QED BY <1>2, <1>4, <1>5, <1>6 DEF WordAt

(* A sum of words stays a word, and may be taken piece by piece.           *)
LEMMA Sums ==
  ASSUME NEW m \in Nat, NEW n \in Nat, NEW k \in Nat
  PROVE  /\ Added(m, n) \in Word /\ Added(m + n, k) = Added(m, n + k)
         /\ Added(Added(m, n), k) = Added(m, n + k)
         /\ m \in Word => Added(m, 0) = m
<1>1. PICK w \in Nat : w = (m + n) % 4096 /\ w < 4096
  OBVIOUS
<1>2. (((m + n) % 4096) + k) % 4096 = (m + (n + k)) % 4096
  OBVIOUS
<1>3. ((m + n) + k) % 4096 = (m + (n + k)) % 4096
  OBVIOUS
<1>4. ASSUME m < 4096 PROVE (m + 0) % 4096 = m
  BY <1>4
<1>5. Added(m, n) \in Word
  BY <1>1, Ranges DEF Added
<1> QED BY <1>2, <1>3, <1>4, <1>5, Ranges DEF Added

(* What dumprk05.c adds up in a wider register is the same word.           *)
LEMMA SumGoesOn ==
  ASSUME NEW n \in Nat, NEW c, Added(n, 0) = c, NEW w \in Word
  PROVE  n + w \in Nat /\ Added(n + w, 0) = Added(c, w)
<1>1. w \in Nat
  BY Ranges
<1>2. Added(n + w, 0) = Added(n, w + 0) /\ Added(Added(n, 0), w) = Added(n, 0 + w)
  BY <1>1, Sums
<1>3. w + 0 = w /\ 0 + w = w /\ n + w \in Nat
  BY <1>1
<1> QED BY <1>2, <1>3

(* Every position but the last has a next one.                             *)
LEMMA Succeeds ==
  ASSUME NEW x, Placed(x), x.what # "end"
  PROVE  Placed(Successor(x))
<1>1. /\ x \in Position /\ x.sector \in 0..(Sectors - 1) /\ x.LOC \in Nat /\ x.sum \in Word
      /\ x.LOC % 2 = 0 /\ x.LOC + 2 <= Words /\ x.what \in Whats
  BY DEF Placed, Position
<1>2. Words \in Nat /\ Words % 2 = 0 /\ 2 < Words /\ Sectors \in Nat
  BY Constants, WordsAssumption DEF Sectors
<1>3. Plus(x, 1) \in Word /\ Plus(x, 2) \in Word
  <2>1. x.sum \in Nat /\ WordAt(x, 1) \in Nat /\ WordAt(x, 2) \in Nat
    BY <1>1, PairAt, Ranges
  <2> QED BY <2>1, Sums DEF Plus
<1>4. CASE x.what \in {"flag", "low", "mid", "fe", "sum", "sumhigh"}
  BY <1>1, <1>2, <1>3, <1>4 DEF Successor, Onto, Place, Placed, Position, Whats
<1>5. CASE x.what = "high"
  <2>1. Successor(x) = NextPair(x)
    BY <1>5 DEF Successor
  <2>2. CASE x.LOC + 2 < Words
    <3>1. (x.LOC + 2) % 2 = 0 /\ x.LOC + 2 + 2 <= Words /\ x.LOC + 2 \in Nat
      BY <1>1, <1>2, <2>2
    <3> QED BY <1>1, <1>3, <2>1, <2>2, <3>1 DEF NextPair, Place, Placed, Position, Whats
  <2>3. CASE ~(x.LOC + 2 < Words) /\ x.sector + 1 < Sectors
    <3>1. x.sector + 1 \in 0..(Sectors - 1) /\ 0 % 2 = 0 /\ 0 + 2 <= Words
      BY <1>1, <1>2, <2>3
    <3> QED BY <1>1, <1>3, <2>1, <2>3, <3>1 DEF NextPair, Place, Placed, Position, Whats
  <2>4. CASE ~(x.LOC + 2 < Words) /\ ~(x.sector + 1 < Sectors)
    <3>1. x.LOC + 2 = Words /\ x.sector + 1 = Sectors
      BY <1>1, <1>2, <2>4
    <3> QED BY <1>1, <1>3, <2>1, <2>4, <3>1 DEF NextPair, Place, Placed, Position, Whats
  <2> QED BY <2>2, <2>3, <2>4
<1> QED BY <1>1, <1>4, <1>5 DEF Whats

-----------------------------------------------------------------------------
(* A word copied is the disk's next.                                       *)
LEMMA CopyGrows ==
  ASSUME NEW out, NEW k \in Nat, CopiedTo(out, k), NEW w \in Word, w = WholeDisk[k + 1]
  PROVE  CopiedTo(Append(out, w), k + 1)
<1>1. out \in Seq(Word) /\ Len(out) = k /\ \A i \in 1..k : out[i] = WholeDisk[i]
  BY DEF CopiedTo
<1>2. Append(out, w) \in Seq(Word) /\ Len(Append(out, w)) = k + 1
  BY <1>1
<1>3. ASSUME NEW i \in 1..(k + 1) PROVE Append(out, w)[i] = WholeDisk[i]
  <2>1. CASE i = k + 1
    BY <1>1, <2>1
  <2>2. CASE i # k + 1
    <3>1. i \in 1..k
      BY <2>2
    <3>2. Append(out, w)[i] = out[i]
      BY <1>1, <3>1
    <3> QED BY <1>1, <3>1, <3>2
  <2> QED BY <2>1, <2>2
<1> QED BY <1>2, <1>3 DEF CopiedTo

(* How many words come before a position, and which are next.              *)
LEMMA Counted ==
  ASSUME NEW x, Placed(x)
  PROVE  /\ Earlier(x) \in Nat
         /\ WordAt(x, 1) \in Word /\ WordAt(x, 2) \in Word
         /\ x.what = "mid"  => WordAt(x, 1) = WholeDisk[Earlier(x) + 1]
         /\ x.what = "high" => WordAt(x, 2) = WholeDisk[Earlier(x) + 1]
         /\ x.what \in {"mid", "high"} => /\ Earlier(x) + 1 \in 1..(Sectors * Words)
                                         /\ Earlier(Successor(x)) = Earlier(x) + 1
         /\ x.what \notin {"mid", "high", "end"} => Earlier(Successor(x)) = Earlier(x)
         /\ x.what \in {"fe", "sum", "sumhigh", "end"} <=> Earlier(x) = Sectors * Words
<1>1. /\ x \in Position /\ x.sector \in Nat /\ x.sector < Sectors /\ x.LOC \in Nat
      /\ x.LOC % 2 = 0 /\ x.LOC + 2 <= Words
      /\ x.what \in Whats \cup {"end"}
      /\ x.what = "flag" => x.LOC = 0
      /\ x.what \in {"fe", "sum", "sumhigh", "end"} => x.sector + 1 = Sectors /\ x.LOC + 2 = Words
  BY Constants DEF Placed, Position, Sectors
<1>2. Words \in Nat /\ Sectors \in Nat /\ 2 < Words
  BY Constants DEF Sectors
<1>3. PICK s \in Nat, l \in Nat, m \in Nat :
        s = x.sector /\ l = x.LOC /\ m = s * Words /\ m = x.sector * Words
  BY <1>1, <1>2
<1>4. /\ (s + 1) * Words = m + Words
      /\ \A n \in Nat : s < n => m + Words <= n * Words
  BY <1>2, <1>3, Sectored
<1>5. m + Words <= Sectors * Words /\ Sectors * Words \in Nat
  BY <1>1, <1>2, <1>3, <1>4
<1>6. /\ WordAt(x, 1) \in Word /\ WordAt(x, 1) = WholeDisk[m + l + 1]
      /\ WordAt(x, 2) \in Word /\ WordAt(x, 2) = WholeDisk[m + l + 2]
  BY <1>3, PairAt
<1>7. CASE x.what \in {"flag", "low"}
  <2>1. Earlier(x) = m + l
    BY <1>3, <1>7 DEF Earlier
  <2>2. Earlier(Successor(x)) = m + l
    BY <1>3, <1>7 DEF Earlier, Successor, Onto, Place
  <2>3. m + l < Sectors * Words
    BY <1>1, <1>2, <1>3, <1>5
  <2> QED BY <1>3, <1>5, <1>6, <1>7, <2>1, <2>2, <2>3
<1>8. CASE x.what = "mid"
  <2>1. Earlier(x) = m + l
    BY <1>3, <1>8 DEF Earlier
  <2>2. Earlier(Successor(x)) = m + l + 1
    BY <1>3, <1>8 DEF Earlier, Successor, Place
  <2>3. m + l + 1 < Sectors * Words
    BY <1>1, <1>2, <1>3, <1>5
  <2> QED BY <1>3, <1>5, <1>6, <1>8, <2>1, <2>2, <2>3
<1>9. CASE x.what = "high"
  <2>1. Earlier(x) = m + l + 1
    BY <1>3, <1>9 DEF Earlier
  <2>2. Earlier(Successor(x)) = m + l + 2
    <3>1. Successor(x) = NextPair(x)
      BY <1>9 DEF Successor
    <3>2. CASE l + 2 < Words
      <4>1. NextPair(x) = Place(x.sector, x.LOC + 2, "low", Plus(x, 2))
        BY <1>3, <3>2 DEF NextPair
      <4> QED BY <1>3, <3>1, <4>1 DEF Earlier, Place
    <3>3. CASE l + 2 = Words /\ s + 1 < Sectors
      <4>1. NextPair(x) = Place(x.sector + 1, 0, "flag", Plus(x, 2))
        BY <1>2, <1>3, <3>3 DEF NextPair
      <4>2. Earlier(Place(x.sector + 1, 0, "flag", Plus(x, 2))) = (x.sector + 1) * Words + 0 + 0
        BY DEF Earlier, Place
      <4>3. (x.sector + 1) * Words = m + Words
        BY <1>3, <1>4
      <4> QED BY <1>2, <1>3, <3>1, <3>3, <4>1, <4>2, <4>3
    <3>4. CASE l + 2 = Words /\ ~(s + 1 < Sectors)
      <4>1. NextPair(x) = Place(x.sector, x.LOC, "fe", Plus(x, 2))
        BY <1>2, <1>3, <3>4 DEF NextPair
      <4> QED BY <1>3, <3>1, <4>1 DEF Earlier, Place
    <3> QED BY <1>1, <1>2, <1>3, <3>2, <3>3, <3>4
  <2>3. m + l + 2 <= Sectors * Words
    BY <1>1, <1>2, <1>3, <1>5
  <2> QED BY <1>3, <1>5, <1>6, <1>9, <2>1, <2>2, <2>3
<1>10. CASE x.what \in {"fe", "sum", "sumhigh", "end"}
  <2>1. Earlier(x) = m + l + 2
    BY <1>3, <1>10 DEF Earlier
  <2>2. x.what # "end" => Earlier(Successor(x)) = m + l + 2
    BY <1>3, <1>10 DEF Earlier, Successor, Onto, Place
  <2>3. m + l + 2 = Sectors * Words
    <3>1. s + 1 = Sectors /\ l + 2 = Words
      BY <1>1, <1>3, <1>10
    <3>2. (s + 1) * Words = Sectors * Words
      BY <3>1
    <3>3. m + l + 2 = m + Words
      BY <1>2, <3>1
    <3> QED BY <1>4, <3>2, <3>3
  <2> QED BY <1>3, <1>5, <1>6, <1>10, <2>1, <2>2, <2>3
<1> QED BY <1>1, <1>7, <1>8, <1>9, <1>10 DEF Whats

(* Characters at a position are made of the pair's words or of the sum.    *)
LEMMA Characters ==
  ASSUME NEW x, Placed(x), x.what # "end"
  PROVE  /\ x.what = "low"  => CharOf(x) = Low(WordAt(x, 1))
         /\ x.what = "mid"  => /\ CharOf(x) = Mid(WordAt(x, 1), WordAt(x, 2))
                               /\ (Low(WordAt(x, 1)) + 256 * CharOf(x)) % 4096 = WordAt(x, 1)
                               /\ Low(WordAt(x, 1)) + 256 * (CharOf(x) % 16) = WordAt(x, 1)
         /\ x.what = "high" =>
              LET m == Mid(WordAt(x, 1), WordAt(x, 2)) \div 16
              IN /\ m + 16 * CharOf(x) = WordAt(x, 2)
                 /\ (m + 16 * CharOf(x)) % 4096 = WordAt(x, 2)
         /\ x.what = "flag" => CharOf(x) = 255
         /\ x.what = "fe"   => CharOf(x) = 254
         /\ x.what = "sum"  => CharOf(x) = Low(Negated(x.sum))
         /\ x.what = "sumhigh" =>
              \A n \in Nat : n % 4096 = x.sum =>
                (Low(Negated(x.sum)) + 256 * CharOf(x) + n) % 4096 = 0
<1> DEFINE a == WordAt(x, 1)
           b == WordAt(x, 2)
           c == x.sum
<1>1. a \in Word /\ b \in Word /\ c \in Word
  BY Counted DEF Placed, Position
<1>2. /\ x.what = "flag" => CharOf(x) = 255
      /\ x.what = "low"  => CharOf(x) = Low(a)
      /\ x.what = "mid"  => CharOf(x) = Mid(a, b)
      /\ x.what = "high" => CharOf(x) = High(b)
      /\ x.what = "fe"   => CharOf(x) = 254
      /\ x.what = "sum"  => CharOf(x) = Low(Negated(c))
      /\ x.what = "sumhigh" => CharOf(x) = Negated(c) \div 256
  BY DEF CharOf
<1> HIDE DEF a, b, c
<1>3. /\ (Low(a) + 256 * Mid(a, b)) % 4096 = a
      /\ Low(a) + 256 * (Mid(a, b) % 16) = a
      /\ (Mid(a, b) \div 16) + 16 * High(b) = b
  BY <1>1, Packing
<1>4. ((Mid(a, b) \div 16) + 16 * High(b)) % 4096 = b
  BY <1>1, <1>3, WordsAreNumbers
<1>5. ASSUME NEW n \in Nat, n % 4096 = c
      PROVE  (Low(Negated(c)) + 256 * (Negated(c) \div 256) + n) % 4096 = 0
  <2>1. Negated(c) \in Word /\ (Negated(c) + c = 0 \/ Negated(c) + c = 4096)
    BY <1>1, Negation
  <2>2. PICK s \in Nat : s = Negated(c)
    BY <2>1, WordsAreNumbers
  <2>3. (s + n) % 4096 = 0
    BY <1>1, <1>5, <2>1, <2>2, SumIsZero
  <2>4. (s % 256) + 256 * (s \div 256) = s
    BY <2>2
  <2> QED BY <2>2, <2>3, <2>4 DEF Low
<1>6. /\ x.what = "mid" => /\ (Low(a) + 256 * CharOf(x)) % 4096 = a
                           /\ Low(a) + 256 * (CharOf(x) % 16) = a
      /\ x.what = "high" => /\ (Mid(a, b) \div 16) + 16 * CharOf(x) = b
                            /\ ((Mid(a, b) \div 16) + 16 * CharOf(x)) % 4096 = b
      /\ x.what = "sumhigh" => \A n \in Nat : n % 4096 = c =>
           (Low(Negated(c)) + 256 * CharOf(x) + n) % 4096 = 0
  BY <1>2, <1>3, <1>4, <1>5
<1> QED BY <1>2, <1>6 DEF a, b, c

(* dumprk05.c takes the character at a position and is at the next.        *)
LEMMA HostWrites ==
  ASSUME NEW x, Placed(x), x.what # "end", NEW r, Writes(r, x)
  PROVE  LET q == Received(r, CharOf(x))
         IN /\ Writes(q, Successor(x))
            /\ x.what \in {"mid", "high"} => q.out = Append(r.out, WholeDisk[Len(r.out) + 1])
            /\ x.what \notin {"mid", "high"} => q.out = r.out
<1> DEFINE c == CharOf(x)
           q == Received(r, c)
           y == Successor(x)
           k == Earlier(x)
<1>1. /\ DOMAIN r = ReceiverFields /\ CopiedTo(r.out, k) /\ Len(r.out) = k
      /\ r.chksum \in Nat /\ Added(r.chksum, 0) = x.sum /\ r.ended = "no"
      /\ x.what \in {"flag", "fe"} => r.count = -1 /\ r.byte = 0
      /\ x.what = "low" => r.count = x.LOC /\ r.byte = 0
      /\ x.what = "mid" => r.count = x.LOC /\ r.byte = 1 /\ r.temp = Low(WordAt(x, 1))
      /\ x.what = "high" => /\ r.count = x.LOC /\ r.byte = 2
                            /\ r.temp = Mid(WordAt(x, 1), WordAt(x, 2)) \div 16
      /\ x.what = "sum" => r.count = -2 /\ r.byte = 0
      /\ x.what = "sumhigh" => /\ r.count = -2 /\ r.byte = 1
                               /\ r.temp = Low(Negated(x.sum))
  BY DEF Writes, CopiedTo
<1>2. /\ x.LOC \in Nat /\ x.LOC + 2 <= Words /\ x.what \in Whats /\ x.sum \in Word
      /\ x.what = "flag" => x.LOC = 0
  BY Constants DEF Placed, Position
<1>3. k \in Nat /\ Words \in Nat /\ SECTOR = Words
  BY Counted, Constants
<1>4. CASE x.what = "flag"
  <2>1. q = [r EXCEPT !.count = 0]
    BY <1>1, <1>4, Characters DEF Received, Header
  <2> HIDE DEF q
  <2>2. /\ DOMAIN q = ReceiverFields /\ q.count = 0 /\ q.byte = 0 /\ q.out = r.out
        /\ q.chksum = r.chksum /\ q.ended = "no"
    BY <1>1, <1>4, <2>1 DEF ReceiverFields
  <2>3. y.what = "low" /\ y.LOC = 0 /\ y.sum = x.sum /\ Earlier(y) = k
    BY <1>2, <1>4, Counted DEF Successor, Onto, Place
  <2> HIDE DEF y, k
  <2> QED BY <1>1, <1>4, <2>2, <2>3 DEF Writes, q, y
<1>5. CASE x.what = "low"
  <2>1. q = [r EXCEPT !.temp = c, !.byte = 1]
    BY <1>1, <1>2, <1>5 DEF Received, Data
  <2> HIDE DEF q
  <2>2. /\ DOMAIN q = ReceiverFields /\ q.count = x.LOC /\ q.byte = 1 /\ q.out = r.out
        /\ q.chksum = r.chksum /\ q.ended = "no" /\ q.temp = c
    BY <1>1, <1>5, <2>1 DEF ReceiverFields
  <2>3. /\ y.what = "mid" /\ y.LOC = x.LOC /\ y.sum = x.sum /\ Earlier(y) = k
        /\ WordAt(y, 1) = WordAt(x, 1)
    BY <1>2, <1>5, Counted DEF Successor, Onto, Place, WordAt
  <2>4. c = Low(WordAt(x, 1))
    BY <1>5, Characters
  <2> HIDE DEF y, k, c
  <2> QED BY <1>1, <1>5, <2>2, <2>3, <2>4 DEF Writes, q, y, c
<1>6. CASE x.what = "mid"
  <2> DEFINE w == WordAt(x, 1)
             W(v) == [Written(r, v) EXCEPT !.temp = c \div 16, !.byte = 2]
  <2>1. q = W((r.temp + 256 * c) % 4096)
    BY <1>1, <1>2, <1>6 DEF Received, Data
  <2>2. /\ (r.temp + 256 * c) % 4096 = w /\ w \in Word /\ w = WholeDisk[k + 1]
        /\ c = Mid(WordAt(x, 1), WordAt(x, 2))
    BY <1>1, <1>6, Characters, Counted
  <2>3. q = W(w)
    <3> HIDE DEF W, q
    <3> QED BY <2>1, <2>2
  <2> HIDE DEF q, c
  <2>4. /\ DOMAIN q = ReceiverFields /\ q.count = x.LOC /\ q.byte = 2 /\ q.out = Append(r.out, w)
        /\ q.chksum = r.chksum + w /\ q.ended = "no" /\ q.temp = c \div 16
    <3> HIDE DEF w
    <3> QED BY <1>1, <1>6, <2>3 DEF ReceiverFields, Written
  <2>5. /\ y.what = "high" /\ y.LOC = x.LOC /\ y.sum = Added(x.sum, w) /\ Earlier(y) = k + 1
        /\ WordAt(y, 1) = WordAt(x, 1) /\ WordAt(y, 2) = WordAt(x, 2)
    BY <1>2, <1>6, Counted DEF Successor, Place, WordAt, Plus
  <2> HIDE DEF y, k, w
  <2>6. CopiedTo(q.out, k + 1)
    BY <1>1, <1>3, <2>2, <2>4, CopyGrows
  <2>7. q.chksum \in Nat /\ Added(q.chksum, 0) = y.sum
    <3>1. r.chksum \in Nat /\ Added(r.chksum, 0) = x.sum /\ w \in Word
      BY <1>1, <2>2
    <3>2. r.chksum + w \in Nat /\ Added(r.chksum + w, 0) = Added(x.sum, w)
      BY <3>1, SumGoesOn
    <3> QED BY <2>4, <2>5, <3>2
  <2>8. Writes(q, y)
    BY <1>1, <1>6, <2>2, <2>4, <2>5, <2>6, <2>7 DEF Writes
  <2> QED BY <1>1, <1>6, <2>2, <2>4, <2>8 DEF q, y, c
<1>7. CASE x.what = "high"
  <2> DEFINE w == WordAt(x, 2)
             V == [Written(r, w) EXCEPT !.byte = 0, !.count = @ + 2]
  <2>1. r.temp + 16 * c = w /\ w \in Word /\ w = WholeDisk[k + 1]
    BY <1>1, <1>7, Characters, Counted
  <2>2. q = IF V.count = SECTOR THEN [V EXCEPT !.count = -1, !.sect = @ + 1] ELSE V
    <3>1. q = Third(r, c)
      BY <1>1, <1>2, <1>7 DEF Received, Data
    <3> HIDE DEF q
    <3> QED BY <2>1, <3>1 DEF Third
  <2> HIDE DEF q, c, w
  <2>3. /\ DOMAIN V = ReceiverFields /\ V.count = x.LOC + 2 /\ V.byte = 0
        /\ V.out = Append(r.out, w) /\ V.chksum = r.chksum + w /\ V.ended = "no"
    BY <1>1, <1>7 DEF ReceiverFields, Written
  <2> HIDE DEF V
  <2>4. /\ DOMAIN q = ReceiverFields /\ q.byte = 0
        /\ q.out = Append(r.out, w) /\ q.chksum = r.chksum + w /\ q.ended = "no"
        /\ q.count = IF x.LOC + 2 = Words THEN -1 ELSE x.LOC + 2
    BY <1>3, <2>2, <2>3 DEF ReceiverFields
  <2>5. y.sum = Added(x.sum, w) /\ Earlier(y) = k + 1
    BY <1>7, Counted DEF Successor, NextPair, Place, Plus, w
  <2>6. IF x.LOC + 2 = Words THEN y.what \in {"flag", "fe"}
        ELSE y.what = "low" /\ y.LOC = x.LOC + 2
    BY <1>2, <1>3, <1>7 DEF Successor, NextPair, Place
  <2> HIDE DEF y, k
  <2>7. CopiedTo(q.out, k + 1)
    BY <1>1, <1>3, <2>1, <2>4, CopyGrows
  <2>8. q.chksum \in Nat /\ Added(q.chksum, 0) = y.sum
    <3>1. r.chksum + w \in Nat /\ Added(r.chksum + w, 0) = Added(x.sum, w)
      BY <1>1, <2>1, SumGoesOn
    <3> QED BY <2>4, <2>5, <3>1
  <2>9. Writes(q, y)
    BY <1>1, <1>2, <1>7, <2>4, <2>5, <2>6, <2>7, <2>8 DEF Writes
  <2> QED BY <1>1, <1>7, <2>1, <2>4, <2>9 DEF q, y, c
<1>8. CASE x.what = "fe"
  <2>1. q = [r EXCEPT !.count = -2, !.byte = 0]
    BY <1>1, <1>8, Characters DEF Received, Header
  <2> HIDE DEF q
  <2>2. /\ DOMAIN q = ReceiverFields /\ q.count = -2 /\ q.byte = 0 /\ q.out = r.out
        /\ q.chksum = r.chksum /\ q.ended = "no"
    BY <1>1, <1>8, <2>1 DEF ReceiverFields
  <2>3. y.what = "sum" /\ y.sum = x.sum /\ Earlier(y) = k
    BY <1>2, <1>8, Counted DEF Successor, Onto, Place
  <2> HIDE DEF y, k
  <2> QED BY <1>1, <1>8, <2>2, <2>3 DEF Writes, q, y
<1>9. CASE x.what = "sum"
  <2>1. q = [r EXCEPT !.temp = c, !.byte = 1]
    BY <1>1, <1>9 DEF Received, Trailer
  <2> HIDE DEF q
  <2>2. /\ DOMAIN q = ReceiverFields /\ q.count = -2 /\ q.byte = 1 /\ q.out = r.out
        /\ q.chksum = r.chksum /\ q.ended = "no" /\ q.temp = c
    BY <1>1, <1>9, <2>1 DEF ReceiverFields
  <2>3. y.what = "sumhigh" /\ y.sum = x.sum /\ Earlier(y) = k
    BY <1>2, <1>9, Counted DEF Successor, Onto, Place
  <2>4. c = Low(Negated(x.sum))
    BY <1>9, Characters
  <2> HIDE DEF y, k, c
  <2> QED BY <1>1, <1>9, <2>2, <2>3, <2>4 DEF Writes, q, y, c
<1>10. CASE x.what = "sumhigh"
  <2>1. q = [r EXCEPT !.ended = IF (r.temp + 256 * c + r.chksum) % 4096 = 0
                                THEN "Done" ELSE "mismatch"]
    <3>1. q = Trailer(r, c)
      BY <1>1, <1>10 DEF Received
    <3>2. r.byte # 0
      BY <1>1, <1>10
    <3> HIDE DEF c, q
    <3> QED BY <3>1, <3>2, Zenon DEF Trailer
  <2>2. (r.temp + 256 * c + r.chksum) % 4096 = 0
    <3>1. r.chksum % 4096 = x.sum
      BY <1>1 DEF Added
    <3> QED BY <1>1, <1>10, <3>1, Characters
  <2> HIDE DEF q, c
  <2>3. /\ DOMAIN q = ReceiverFields /\ q.count = -2 /\ q.out = r.out
        /\ q.chksum = r.chksum /\ q.ended = "Done"
    BY <1>1, <1>10, <2>1, <2>2 DEF ReceiverFields
  <2>4. y.what = "end" /\ y.sum = x.sum /\ Earlier(y) = k
    BY <1>2, <1>10, Counted DEF Successor, Onto, Place
  <2> HIDE DEF y, k
  <2> QED BY <1>1, <1>10, <2>3, <2>4 DEF Writes, q, y, c
<1> QED BY <1>2, <1>4, <1>5, <1>6, <1>7, <1>8, <1>9, <1>10 DEF Whats

(* The number of words written says when a sector is complete.             *)
LEMMA SectorComplete ==
  ASSUME NEW x, Placed(x), x.what = "high"
  PROVE  (Earlier(x) + 1) % Words = 0 <=> x.LOC + 2 = Words
<1>1. /\ x.sector \in Nat /\ x.LOC \in Nat /\ x.LOC + 2 <= Words /\ Words \in Nat
      /\ 2 < Words
  BY Constants DEF Placed, Position, Sectors
<1>2. PICK s \in Nat, j \in Nat, m \in Nat :
        s = x.sector /\ j = x.LOC + 2 /\ m = s * Words /\ m = x.sector * Words
  BY <1>1
<1>3. Earlier(x) + 1 = m + j
  BY <1>1, <1>2 DEF Earlier
<1>4. CASE j < Words
  <2>1. (s * Words + j) % Words = j
    BY <1>1, <1>4, Sectored
  <2> QED BY <1>1, <1>2, <1>3, <1>4, <2>1
<1>5. CASE j = Words
  <2>1. ((s + 1) * Words + 0) % Words = 0 /\ (s + 1) * Words \in Nat
    BY <1>1, Sectored
  <2>2. (s + 1) * Words = m + Words
    BY <1>1, <1>2, Sectored
  <2>3. (s + 1) * Words + 0 = m + j
    BY <1>1, <1>5, <2>2
  <2> QED BY <1>2, <1>3, <1>5, <2>1, <2>3
<1> QED BY <1>1, <1>2, <1>4, <1>5

(* hex2oct -3 takes the same character, and nothing after the last word.   *)
LEMMA HostPrints ==
  ASSUME NEW x, Placed(x), x.what # "end", NEW h, Prints(h, x)
  PROVE  Prints(IF h.ended THEN h ELSE Converted(h, CharOf(x)), Successor(x))
<1> DEFINE c == CharOf(x)
           q == Converted(h, c)
           y == Successor(x)
           k == Earlier(x)
<1>1. /\ DOMAIN h = ConverterFields /\ CopiedTo(h.printed, k) /\ Len(h.printed) = k
      /\ h.ended = IF x.what \in {"sum", "sumhigh", "end"} THEN TRUE ELSE FALSE
      /\ x.what \in {"flag", "fe"} => h.state = 0
      /\ x.what = "low" => h.state = 1
      /\ x.what = "mid" => h.state = 2 /\ h.temp1 = Low(WordAt(x, 1))
      /\ x.what = "high" => /\ h.state = 3
                            /\ h.temp2 = Mid(WordAt(x, 1), WordAt(x, 2)) \div 16
  BY DEF Prints, CopiedTo
<1>2. /\ x.LOC \in Nat /\ x.LOC + 2 <= Words /\ x.what \in Whats
      /\ k \in Nat /\ Words \in Nat /\ SECTOR = Words
  BY Constants, Counted DEF Placed, Position
<1>3. CASE x.what \in {"sum", "sumhigh"}
  <2>1. y.what \in {"sumhigh", "end"} /\ Earlier(y) = k
    BY <1>3, Counted DEF Successor, Onto, Place
  <2>2. h.ended = TRUE
    BY <1>1, <1>3
  <2> HIDE DEF y, k
  <2> QED BY <1>1, <2>1, <2>2 DEF Prints, y
<1>4. CASE x.what \in {"flag", "fe"}
  <2>1. h.ended = FALSE /\ c = (IF x.what = "flag" THEN 255 ELSE 254)
    BY <1>1, <1>4, Characters
  <2>2. q = IF x.what = "flag" THEN [h EXCEPT !.state = 1] ELSE [h EXCEPT !.ended = TRUE]
    BY <1>1, <1>4, <2>1 DEF Converted
  <2>3. y.what = (IF x.what = "flag" THEN "low" ELSE "sum") /\ Earlier(y) = k
    BY <1>4, Counted DEF Successor, Onto, Place
  <2> HIDE DEF q, y, k
  <2>4. CASE x.what = "flag"
    <3>1. /\ DOMAIN q = ConverterFields /\ q.printed = h.printed
          /\ q.state = 1 /\ q.ended = FALSE
      BY <1>1, <2>1, <2>2, <2>4 DEF ConverterFields
    <3>2. y.what = "low"
      BY <2>3, <2>4
    <3>3. Prints(q, y)
      BY <1>1, <2>3, <3>1, <3>2 DEF Prints
    <3> QED BY <2>1, <3>3 DEF q, y
  <2>5. CASE x.what = "fe"
    <3>1. DOMAIN q = ConverterFields /\ q.printed = h.printed /\ q.ended = TRUE
      BY <1>1, <2>1, <2>2, <2>5 DEF ConverterFields
    <3>2. y.what = "sum"
      BY <2>3, <2>5
    <3>3. Prints(q, y)
      BY <1>1, <2>3, <3>1, <3>2 DEF Prints
    <3> QED BY <2>1, <3>3 DEF q, y
  <2> QED BY <1>4, <2>4, <2>5
<1>5. CASE x.what = "low"
  <2>1. h.ended = FALSE
    BY <1>1, <1>5
  <2>2. c = Low(WordAt(x, 1))
    BY <1>5, Characters
  <2>3. q = [h EXCEPT !.state = 2, !.temp1 = c]
    BY <1>1, <1>5 DEF Converted
  <2> HIDE DEF q, c
  <2>4. /\ DOMAIN q = ConverterFields /\ q.printed = h.printed /\ q.state = 2 /\ q.temp1 = c
        /\ q.ended = FALSE
    BY <1>1, <2>1, <2>3 DEF ConverterFields
  <2>5. y.what = "mid" /\ Earlier(y) = k /\ WordAt(y, 1) = WordAt(x, 1)
    BY <1>5, Counted DEF Successor, Onto, Place, WordAt
  <2> HIDE DEF y, k
  <2> QED BY <1>1, <1>5, <2>1, <2>2, <2>4, <2>5 DEF Prints, q, y, c
<1>6. CASE x.what = "mid"
  <2> DEFINE w == WordAt(x, 1)
  <2>1. h.ended = FALSE
    BY <1>1, <1>6
  <2>2. /\ h.temp1 + 256 * (c % 16) = w /\ w \in Word /\ w = WholeDisk[k + 1]
        /\ c = Mid(WordAt(x, 1), WordAt(x, 2))
    BY <1>1, <1>6, Characters, Counted
  <2>3. w \in Word /\ w = WholeDisk[k + 1] /\ c = Mid(WordAt(x, 1), WordAt(x, 2))
    BY <2>2
  <2>4. q = [h EXCEPT !.state = 3, !.temp2 = c \div 16, !.printed = Append(@, w)]
    <3>1. q = [h EXCEPT !.state = 3, !.temp2 = c \div 16,
                        !.printed = Append(@, h.temp1 + 256 * (c % 16))]
      BY <1>1, <1>6 DEF Converted
    <3> HIDE DEF q, c, w
    <3> QED BY <2>2, <3>1
  <2> HIDE DEF q, c, w
  <2>5. /\ DOMAIN q = ConverterFields /\ q.printed = Append(h.printed, w) /\ q.state = 3
        /\ q.temp2 = c \div 16 /\ q.ended = FALSE
    BY <1>1, <2>1, <2>4 DEF ConverterFields
  <2>6. /\ y.what = "high" /\ Earlier(y) = k + 1
        /\ WordAt(y, 1) = WordAt(x, 1) /\ WordAt(y, 2) = WordAt(x, 2)
    BY <1>6, Counted DEF Successor, Place, WordAt
  <2> HIDE DEF y, k
  <2>7. CopiedTo(q.printed, k + 1)
    BY <1>1, <1>2, <2>3, <2>5, CopyGrows
  <2> QED BY <1>6, <2>1, <2>3, <2>5, <2>6, <2>7 DEF Prints, q, y, c
<1>7. CASE x.what = "high"
  <2> DEFINE w == WordAt(x, 2)
             s == IF Len(Append(h.printed, w)) % SECTOR = 0 THEN 0 ELSE 1
  <2>1. h.ended = FALSE
    BY <1>1, <1>7
  <2>2. (h.temp2 + 16 * c) % 4096 = w /\ w \in Word /\ w = WholeDisk[k + 1]
    BY <1>1, <1>7, Characters, Counted
  <2>3. w \in Word /\ w = WholeDisk[k + 1]
    BY <2>2
  <2>4. q = [h EXCEPT !.printed = Append(h.printed, w), !.state = s]
    <3> DEFINE P(v) == [h EXCEPT !.printed = Append(h.printed, v),
                          !.state = IF Len(Append(h.printed, v)) % SECTOR = 0 THEN 0 ELSE 1]
    <3>1. q = P((h.temp2 + 16 * c) % 4096)
      BY <1>1, <1>7 DEF Converted
    <3>2. q = P(w)
      <4> HIDE DEF P, q, c, w
      <4> QED BY <2>2, <3>1
    <3> QED BY <3>2
  <2>5. s = (IF x.LOC + 2 = Words THEN 0 ELSE 1)
    <3>1. Len(Append(h.printed, w)) = k + 1
      BY <1>1, <2>3 DEF CopiedTo
    <3>2. (k + 1) % Words = 0 <=> x.LOC + 2 = Words
      BY <1>7, SectorComplete
    <3> HIDE DEF k, w
    <3> QED BY <1>2, <3>1, <3>2
  <2> HIDE DEF q, c, w, s
  <2>6. /\ DOMAIN q = ConverterFields /\ q.printed = Append(h.printed, w) /\ q.state = s
        /\ q.ended = FALSE
    BY <1>1, <2>1, <2>4 DEF ConverterFields
  <2>7. /\ Earlier(y) = k + 1
        /\ IF x.LOC + 2 = Words THEN y.what \in {"flag", "fe"} ELSE y.what = "low"
    <3>1. Earlier(y) = k + 1
      BY <1>7, Counted
    <3>2. IF x.LOC + 2 = Words THEN y.what \in {"flag", "fe"} ELSE y.what = "low"
      BY <1>2, <1>7 DEF Successor, NextPair, Place
    <3> QED BY <3>1, <3>2
  <2> HIDE DEF y, k
  <2>8. CopiedTo(q.printed, k + 1)
    BY <1>1, <1>2, <2>3, <2>6, CopyGrows
  <2> QED BY <1>7, <2>1, <2>5, <2>6, <2>7, <2>8 DEF Prints, q, y, c
<1> QED BY <1>2, <1>3, <1>4, <1>5, <1>6, <1>7 DEF Whats

-----------------------------------------------------------------------------
(* A dump asks for no cylinder beyond the disk's last, so that the order   *)
(* it gives is always taken.                                               *)
LEMMA OrderTaken ==
  ASSUME Machine, SetUp, ~IsJob(prog), Of({"RD4"}), cpu.state = "F1",
         RKEdge(cpu.state, IOTOf(prog), ACOf(prog, memory))
  PROVE  rk'.sdOP = "RD"
<1>1. IOTOf(prog) = "DLAG" /\ ACOf(prog, memory) = prog.TRACK
  BY DEF Of, IOTOf, ACOf
<1>2. rk.cmd_reg = prog.EXBIT
  BY AskedType DEF Machine, DumpInv, SetUp, HasCommand, Of, Obeyed
<1>3. /\ prog.EXBIT \in {0, 1} /\ prog.TRACK \in Nat /\ prog.TRACK < 4096
      /\ prog.EXBIT = 1 => prog.TRACK <= 2399
  BY Constants, TracksAssumption DEF Machine, ProgramTyped, Bit
<1>4. Cylinder(prog.TRACK) <= 202 /\ ~(Cylinder(prog.TRACK) > 202)
  <2>1. PICK e \in {0, 1}, t \in Nat : e = prog.EXBIT /\ t = prog.TRACK
    BY <1>3
  <2>2. t < 4096 /\ (e = 1 => t <= 2399)
    BY <1>3, <2>1
  <2>3. (e % 2) * 128 + (t \div 32) <= 202
    <3>1. CASE e = 0
      BY <2>2, <3>1
    <3>2. CASE e = 1
      BY <2>2, <3>2
    <3> QED BY <3>1, <3>2
  <2>4. Cylinder(t) <= 202 /\ ~(Cylinder(t) > 202)
    BY <1>2, <2>1, <2>3 DEF Cylinder
  <2> QED BY <2>1, <2>4
<1>5. rk.cmd_reg \div 512 = 0
  BY <1>2, <1>3
<1> DEFINE r == [Clocked("F1") EXCEPT !.skip = 0]
<1>6. r \in RKRegisters
  <2>1. Clocked("F1") \in RKRegisters
    BY ClockedIs DEF Machine
  <2> QED BY <2>1 DEF RKRegisters, Bit
<1>7. rk' = IOT("DLAG", prog.TRACK, r)
  BY <1>1 DEF RKEdge
<1> HIDE DEF r
<1>8. rk' = LoadAndGo(r, prog.TRACK)
  BY <1>7 DEF IOT
<1>9. rk' = [r EXCEPT !.dar = prog.TRACK, !.to_disk = 0, !.sdOP = "RD"]
  BY <1>4, <1>5, <1>8 DEF LoadAndGo
<1> QED BY <1>6, <1>9 DEF RKRegisters

-----------------------------------------------------------------------------
(* q is where p was but for its place.                                     *)
Same(p, q) == Keeps(p, q) /\ q.READST = p.READST /\ q.then = p.then

(* From one IOT of a dump to the next, while it sends nothing: which parts *)
(* of the program change.                                                  *)
LEMMA DumpGoes ==
  ASSUME NEW p, ProgramOK(p), ~IsJob(p), ~Halted(p), p.pc \notin {"TSF", "CK2"},
         NEW skip \in {0, 1}, NEW bus, NEW mem
  PROVE  LET q == Advance(p, skip, bus, mem)
         IN /\ p.pc = "CAF" => Same(p, q) /\ q.pc = "RC1" /\ q.back = "DUMP"
            /\ p.pc \in Recalibrating \ {"RC7"} =>
                 Same(p, q) /\ q.pc \in Recalibrating /\ q.back = p.back
            /\ p.pc = "RC7" /\ bus # {"done"} => Same(p, q) /\ q.pc = "BADSTA"
            /\ p.pc = "RC7" /\ bus = {"done"} /\ p.back = "DUMP" =>
                 /\ Keeps(p, q) /\ q.READST = p.READST /\ q.then = "DMPLP" /\ q.pc = "RD1"
            /\ p.pc \in {"RD1", "RD2", "RD3"} =>
                 Same(p, q) /\ q.pc \in {"RD2", "RD3", "RD4"}
            /\ p.pc = "RD4" /\ p.then # "SEND" => Same(p, q) /\ q.pc = "CK1"
            /\ p.pc = "RD4" /\ p.then = "SEND" =>
                 /\ Keeps(p, q) /\ q.READST = p.READST /\ q.then = "DMPLP" /\ q.pc = "TLS"
                 /\ q.what = "flag" /\ q.LOC = 0
            /\ p.pc = "CK1" => Same(p, q) /\ q.pc \in {"CK1", "CK2"}
            /\ p.pc = "CK3" => Same(p, q) /\ q.pc = "RC1" /\ q.back = "CHKRD"
            /\ p.pc = "TLS" => Same(p, q) /\ q.pc = "TSF" /\ q.what = p.what /\ q.LOC = p.LOC
<1> DEFINE q == Advance(p, skip, bus, mem)
<1>1. Shaped(p) /\ DOMAIN p = ProgramFields
  BY DEF ProgramOK, Shaped
<1>2. Same(p, p)
  BY DEF Same, Keeps
<1>3. ASSUME NEW pc PROVE Same(p, GoTo(p, pc)) /\ GoTo(p, pc).pc = pc
                          /\ GoTo(p, pc).back = p.back /\ GoTo(p, pc).what = p.what
                          /\ GoTo(p, pc).LOC = p.LOC
  BY <1>1 DEF Same, Keeps, GoTo, ProgramFields
<1>4. ASSUME NEW r, DOMAIN r = ProgramFields, NEW back
      PROVE  Same(r, RECAL(r, back)) /\ RECAL(r, back).pc = "RC1" /\ RECAL(r, back).back = back
  BY <1>4 DEF Same, Keeps, RECAL, ProgramFields
<1>5. CASE p.pc = "CAF"
  <2> DEFINE r == [p EXCEPT !.ERRCNT = Negated(RETCNT + 1)]
  <2>1. q = RECAL(r, "DUMP")
    BY <1>5 DEF Advance
  <2>2. Same(p, r) /\ DOMAIN r = ProgramFields
    BY <1>1 DEF Same, Keeps, ProgramFields
  <2> HIDE DEF q, r
  <2>3. Same(r, q) /\ q.pc = "RC1" /\ q.back = "DUMP"
    BY <1>4, <2>1, <2>2
  <2>4. Same(p, q)
    BY <2>2, <2>3 DEF Same, Keeps
  <2> QED BY <1>5, <2>3, <2>4 DEF q, Recalibrating
<1>6. CASE p.pc \in Recalibrating \ {"RC7"}
  <2>1. q = p \/ (q = GoTo(p, Sequence[p.pc]) /\ Sequence[p.pc] \in Recalibrating)
    BY <1>6 DEF Advance, Recalibrating, Sequence
  <2> HIDE DEF q
  <2>2. Same(p, q) /\ q.pc \in Recalibrating /\ q.back = p.back
    BY <1>2, <1>3, <1>6, <2>1
  <2> QED BY <1>6, <2>2 DEF q, Recalibrating
<1>7. CASE p.pc = "RC7"
  <2>1. bus # {"done"} => q = GoTo(p, "BADSTA")
    BY <1>7 DEF Advance
  <2>2. bus = {"done"} /\ p.back = "DUMP" => q = READ(p, "DMPLP")
    BY <1>7 DEF Advance, Recalibrated
  <2>3. LET r == READ(p, "DMPLP")
        IN Keeps(p, r) /\ r.READST = p.READST /\ r.then = "DMPLP" /\ r.pc = "RD1"
    BY <1>1 DEF READ, Keeps, ProgramFields
  <2> HIDE DEF q
  <2>4. bus # {"done"} => Same(p, q) /\ q.pc = "BADSTA"
    BY <1>3, <2>1
  <2>5. bus = {"done"} /\ p.back = "DUMP" =>
          Keeps(p, q) /\ q.READST = p.READST /\ q.then = "DMPLP" /\ q.pc = "RD1"
    BY <2>2, <2>3
  <2> QED BY <1>7, <2>4, <2>5 DEF q
<1>8. CASE p.pc \in {"RD1", "RD2", "RD3"}
  <2>1. q = GoTo(p, Sequence[p.pc]) /\ Sequence[p.pc] \in {"RD2", "RD3", "RD4"}
    BY <1>8 DEF Advance, Sequence
  <2> HIDE DEF q
  <2>2. Same(p, q) /\ q.pc \in {"RD2", "RD3", "RD4"}
    BY <1>3, <2>1
  <2> QED BY <1>8, <2>2 DEF q, Recalibrating
<1>9. CASE p.pc = "RD4"
  <2>1. q = IF p.then = "SEND" THEN SEND(p, "DMPLP") ELSE GoTo(p, "CK1")
    BY <1>9 DEF Advance
  <2>2. LET r == SEND(p, "DMPLP")
        IN /\ Keeps(p, r) /\ r.READST = p.READST /\ r.then = "DMPLP" /\ r.pc = "TLS"
           /\ r.what = "flag" /\ r.LOC = 0
    BY <1>1 DEF SEND, PUN, Keeps, ProgramFields
  <2> HIDE DEF q
  <2>3. p.then = "SEND" => /\ Keeps(p, q) /\ q.READST = p.READST /\ q.then = "DMPLP"
                           /\ q.pc = "TLS" /\ q.what = "flag" /\ q.LOC = 0
    BY <2>1, <2>2
  <2>4. p.then # "SEND" => Same(p, q) /\ q.pc = "CK1"
    BY <1>3, <2>1
  <2> QED BY <1>9, <2>3, <2>4 DEF q, Recalibrating
<1>10. CASE p.pc = "CK1"
  <2>1. q = p \/ q = GoTo(p, "CK2")
    BY <1>10 DEF Advance, Sequence
  <2> HIDE DEF q
  <2>2. Same(p, q) /\ q.pc \in {"CK1", "CK2"}
    BY <1>2, <1>3, <1>10, <2>1
  <2> QED BY <1>10, <2>2 DEF q, Recalibrating
<1>11. CASE p.pc = "CK3"
  <2>1. q = RECAL(p, "CHKRD")
    BY <1>11 DEF Advance
  <2> HIDE DEF q
  <2>2. Same(p, q) /\ q.pc = "RC1" /\ q.back = "CHKRD"
    BY <1>1, <1>4, <2>1
  <2> QED BY <1>11, <2>2 DEF q, Recalibrating
<1>12. CASE p.pc = "TLS"
  <2>1. q = GoTo(p, "TSF")
    BY <1>12 DEF Advance
  <2> HIDE DEF q
  <2>2. Same(p, q) /\ q.pc = "TSF" /\ q.what = p.what /\ q.LOC = p.LOC
    BY <1>3, <2>1
  <2> QED BY <1>12, <2>2 DEF q, Recalibrating
<1> QED BY <1>5, <1>6, <1>7, <1>8, <1>9, <1>10, <1>11, <1>12
        DEF ProgramOK, IsJob, Halted, Recalibrating, Reading, Punching, Writing, Final

(* The sectors are counted through both halves of the disk.                *)
LEMMA Indexes ==
  ASSUME NEW p, ProgramTyped(p)
  PROVE  /\ Index(p) \in Nat /\ Index(p) < Sectors
         /\ Index(p) + 1 = Sectors <=> LastTrack(p)
         /\ TrackOf(Index(p)) = p.EXBIT * 4096 + p.TRACK
<1>1. PICK e \in {0, 1}, t \in Nat : e = p.EXBIT /\ t = p.TRACK
  BY DEF ProgramTyped, Bit
<1>2. t < TRACKSIZE /\ (e = 1 => t <= MAXTRK)
  BY <1>1 DEF ProgramTyped
<1>3. /\ TRACKSIZE \in Nat /\ MAXTRK \in Nat /\ MAXTRK < TRACKSIZE /\ Sectors = TRACKSIZE + MAXTRK + 1
  BY Constants DEF Sectors
<1>4. Index(p) = (IF e = 0 THEN t ELSE TRACKSIZE + t)
  <2>1. e * TRACKSIZE = (IF e = 0 THEN 0 ELSE TRACKSIZE)
    BY <1>3
  <2> QED BY <1>1, <1>3, <2>1 DEF Index
<1>5. LastTrack(p) <=> e = 1 /\ t = MAXTRK
  BY <1>1 DEF LastTrack
<1> QED BY <1>1, <1>2, <1>3, <1>4, <1>5 DEF TrackOf

(* A sector that has been read is the next to send, and the next is asked  *)
(* for, into the other buffer; or this was the last.                       *)
LEMMA Refilled ==
  ASSUME NEW p, ProgramOK(p), ProgramTyped(p), p.pc = "CK2", NEW skip, NEW bus, NEW mem
  PROVE  LET q == Advance(p, skip, bus, mem)
         IN /\ q.READST = 255 /\ q.CHKSUM = p.CHKSUM
            /\ bus # {"done"} => /\ Keeps(p, q) /\ q.then = p.then
                                 /\ q.pc = "CK3" \/ (q.pc = "RC1" /\ q.back = "DUMP")
            /\ bus = {"done"} /\ LastTrack(p) =>
                 /\ q.pc = "TLS" /\ q.what = "flag" /\ q.LOC = 0 /\ q.then = "LAST"
                 /\ q.EXBIT = p.EXBIT /\ q.TRACK = p.TRACK /\ q.LSTBUF = p.CURBUF
            /\ bus = {"done"} /\ ~LastTrack(p) =>
                 /\ q.pc = "RD1" /\ q.then = "SEND" /\ Index(q) = Index(p) + 1
                 /\ q.LSTBUF = p.CURBUF /\ q.CURBUF = OtherBuffer(p.CURBUF)
<1> DEFINE q == Advance(p, skip, bus, mem)
           r == [p EXCEPT !.READST = 255]
           s == [r EXCEPT !.LSTBUF = r.CURBUF, !.ERRCNT = Negated(RETCNT + 1)]
<1>1. Shaped(p) /\ DOMAIN p = ProgramFields
  BY DEF ProgramOK, Shaped
<1>2. q = IF bus = {"done"} THEN Filled(r) ELSE ERROR(r)
  BY DEF Advance
<1>3. Keeps(p, r) /\ r.READST = 255 /\ r.then = p.then /\ DOMAIN r = ProgramFields
  BY <1>1 DEF Keeps, ProgramFields
<1>4. CASE bus # {"done"}
  <2> DEFINE t == [r EXCEPT !.ERRCNT = (@ + 1) % 4096]
  <2>1. Keeps(r, t) /\ t.READST = 255 /\ t.then = p.then /\ DOMAIN t = ProgramFields
    BY <1>3 DEF Keeps, ProgramFields
  <2>2. q = GoTo(t, "CK3") \/ q = RECAL(t, "DUMP")
    BY <1>2, <1>4 DEF ERROR
  <2> HIDE DEF q, r, t
  <2>3. /\ Keeps(t, q) /\ q.READST = 255 /\ q.then = p.then
        /\ q.pc = "CK3" \/ (q.pc = "RC1" /\ q.back = "DUMP")
    <3>1. CASE q = GoTo(t, "CK3")
      <4>1. Keeps(t, q) /\ q.READST = t.READST /\ q.then = t.then /\ q.pc = "CK3"
        BY <2>1, <3>1 DEF Keeps, GoTo, ProgramFields
      <4> QED BY <2>1, <4>1
    <3>2. CASE q = RECAL(t, "DUMP")
      <4>1. /\ Keeps(t, q) /\ q.READST = t.READST /\ q.then = t.then
            /\ q.pc = "RC1" /\ q.back = "DUMP"
        BY <2>1, <3>2 DEF Keeps, RECAL, ProgramFields
      <4> QED BY <2>1, <4>1
    <3> QED BY <2>2, <3>1, <3>2
  <2>4. Keeps(p, q)
    BY <1>3, <2>1, <2>3 DEF Keeps
  <2> QED BY <1>4, <2>3, <2>4 DEF q, Keeps
<1>5. CASE bus = {"done"}
  <2>1. /\ s.EXBIT = p.EXBIT /\ s.TRACK = p.TRACK /\ s.LSTBUF = p.CURBUF /\ s.CURBUF = p.CURBUF
        /\ s.CHKSUM = p.CHKSUM /\ s.READST = 255 /\ DOMAIN s = ProgramFields
    <3> HIDE DEF r
    <3> QED BY <1>3 DEF Keeps, ProgramFields
  <2>2. q = (IF LastTrack(r) THEN SEND(s, "LAST")
             ELSE READ([INCTRK(s) EXCEPT !.CURBUF = OtherBuffer(@)], "SEND"))
    BY <1>2, <1>5 DEF Filled
  <2>3. LastTrack(r) = LastTrack(p)
    BY <1>3 DEF LastTrack, Keeps
  <2> HIDE DEF q, r, s
  <2>4. CASE LastTrack(p)
    <3>1. q = SEND(s, "LAST")
      BY <2>2, <2>3, <2>4
    <3>2. /\ q.pc = "TLS" /\ q.what = "flag" /\ q.LOC = 0 /\ q.then = "LAST"
          /\ q.EXBIT = p.EXBIT /\ q.TRACK = p.TRACK /\ q.LSTBUF = p.CURBUF
          /\ q.CHKSUM = p.CHKSUM /\ q.READST = 255
      BY <2>1, <3>1 DEF SEND, PUN, ProgramFields
    <3> QED BY <1>5, <2>4, <3>2 DEF q
  <2>5. CASE ~LastTrack(p)
    <3> DEFINE u == INCTRK(s)
               v == [u EXCEPT !.CURBUF = OtherBuffer(@)]
    <3>1. /\ u.TRACK = (p.TRACK + 1) % TRACKSIZE
          /\ u.EXBIT = IF p.TRACK + 1 = TRACKSIZE THEN p.EXBIT + 1 ELSE p.EXBIT
          /\ u.LSTBUF = p.CURBUF /\ u.CURBUF = p.CURBUF
          /\ u.CHKSUM = p.CHKSUM /\ u.READST = 255 /\ DOMAIN u = ProgramFields
      BY <2>1 DEF INCTRK, ProgramFields
    <3>2. q = READ(v, "SEND")
      BY <2>2, <2>3, <2>5
    <3> HIDE DEF u
    <3>3. /\ v.TRACK = u.TRACK /\ v.EXBIT = u.EXBIT /\ v.LSTBUF = p.CURBUF
          /\ v.CURBUF = OtherBuffer(p.CURBUF)
          /\ v.CHKSUM = p.CHKSUM /\ v.READST = 255 /\ DOMAIN v = ProgramFields
      BY <3>1 DEF ProgramFields
    <3> HIDE DEF v
    <3>4. /\ q.pc = "RD1" /\ q.then = "SEND" /\ q.TRACK = u.TRACK /\ q.EXBIT = u.EXBIT
          /\ q.LSTBUF = p.CURBUF /\ q.CURBUF = OtherBuffer(p.CURBUF)
          /\ q.CHKSUM = p.CHKSUM /\ q.READST = 255
      BY <3>2, <3>3 DEF READ, ProgramFields
    <3>5. Index(q) = Index(p) + 1
      <4>1. PICK e \in {0, 1}, t \in Nat : e = p.EXBIT /\ t = p.TRACK
        BY DEF ProgramTyped, Bit
      <4>2. t < TRACKSIZE /\ (e = 1 => t < MAXTRK)
        BY <2>5, <4>1, Constants DEF ProgramTyped, LastTrack
      <4>3. TRACKSIZE \in Nat /\ TRACKSIZE > 0 /\ MAXTRK \in Nat /\ MAXTRK < TRACKSIZE
        BY Constants
      <4>4. (t + 1) % TRACKSIZE = (IF t + 1 = TRACKSIZE THEN 0 ELSE t + 1)
        BY <4>2, <4>3, Modulo
      <4>5. CASE t + 1 = TRACKSIZE
        <5>1. q.EXBIT = 1 /\ q.TRACK = 0 /\ e = 0
          BY <3>1, <3>4, <4>1, <4>2, <4>3, <4>4, <4>5
        <5> QED BY <4>1, <4>3, <4>5, <5>1 DEF Index
      <4>6. CASE t + 1 # TRACKSIZE
        <5>1. q.EXBIT = e /\ q.TRACK = t + 1
          BY <3>1, <3>4, <4>1, <4>4, <4>6
        <5>2. e * TRACKSIZE \in Nat
          BY <4>3
        <5> QED BY <4>1, <4>3, <5>1, <5>2 DEF Index
      <4> QED BY <4>5, <4>6
    <3> QED BY <1>5, <2>5, <3>4, <3>5 DEF q
  <2> QED BY <2>4, <2>5
<1> QED BY <1>4, <1>5

(* PUN is called for what; and for the first character of a pair, whose    *)
(* words have been added up.                                               *)
Pun(p, q, what) == /\ q.pc = "TLS" /\ q.what = what /\ q.then = p.then
                   /\ q.READST = p.READST /\ q.LSTBUF = p.LSTBUF /\ q.CURBUF = p.CURBUF
                   /\ q.EXBIT = p.EXBIT /\ q.TRACK = p.TRACK
Out(p, q, mem) == /\ Pun(p, q, "low")
                  /\ q.CHKSUM = (p.CHKSUM + mem[p.LSTBUF + q.LOC]
                                   + mem[p.LSTBUF + q.LOC + 1]) % 4096

(* After each character of a dump, what is sent next; OUT adds up the two  *)
(* words of a pair before the first of them is sent.                       *)
LEMMA DumpSends ==
  ASSUME NEW p, ProgramOK(p), ProgramTyped(p), p.pc = "TSF", NEW mem \in [Addresses -> Word]
  PROVE  LET q == Sent(p, mem)
         IN /\ p.what = "flag" => Out(p, q, mem) /\ q.LOC = p.LOC
            /\ p.what = "low"  => Pun(p, q, "mid") /\ q.CHKSUM = p.CHKSUM /\ q.LOC = p.LOC
            /\ p.what = "mid"  => Pun(p, q, "high") /\ q.CHKSUM = p.CHKSUM /\ q.LOC = p.LOC
            /\ p.what = "high" /\ p.LOC + 2 < BLOCK => Out(p, q, mem) /\ q.LOC = p.LOC + 2
            /\ p.what = "high" => p.LOC + 2 <= BLOCK
            /\ p.what = "high" /\ p.LOC + 2 = BLOCK /\ p.then = "DMPLP" =>
                 Same(p, q) /\ q.pc = "CK1"
            /\ p.what = "high" /\ p.LOC + 2 = BLOCK /\ p.then = "LAST" =>
                 Pun(p, q, "fe") /\ q.CHKSUM = p.CHKSUM /\ q.LOC = p.LOC
            /\ p.what = "fe"   => Pun(p, q, "sum") /\ q.CHKSUM = p.CHKSUM /\ q.LOC = p.LOC
            /\ p.what = "sum"  => Pun(p, q, "sumhigh") /\ q.CHKSUM = p.CHKSUM /\ q.LOC = p.LOC
            /\ p.what = "sumhigh" => Same(p, q) /\ q.pc = "FINISH"
<1> DEFINE q == Sent(p, mem)
<1>1. /\ DOMAIN p = ProgramFields /\ p.what \in Whats /\ p.then \in {"DMPLP", "LAST"}
      /\ p.LOC \in Nat /\ p.LOC < BLOCK /\ p.LOC % 2 = 0
  BY DEF ProgramOK, Shaped, Punching
<1>2. ASSUME NEW what
      PROVE  LET r == PUN(p, what)
             IN Pun(p, r, what) /\ r.CHKSUM = p.CHKSUM /\ r.LOC = p.LOC
  BY <1>1 DEF PUN, Pun, ProgramFields
<1>3. ASSUME NEW r, DOMAIN r = ProgramFields,
             r.READST = p.READST, r.LSTBUF = p.LSTBUF, r.CURBUF = p.CURBUF,
             r.EXBIT = p.EXBIT, r.TRACK = p.TRACK, r.CHKSUM = p.CHKSUM, r.then = p.then
      PROVE  Out(p, OUT(r, mem), mem) /\ OUT(r, mem).LOC = r.LOC
  <2> DEFINE sum == (r.CHKSUM + mem[r.LSTBUF + r.LOC] + mem[r.LSTBUF + r.LOC + 1]) % 4096
             o == OUT(r, mem)
  <2>1. sum = (p.CHKSUM + mem[p.LSTBUF + r.LOC] + mem[p.LSTBUF + r.LOC + 1]) % 4096
    BY <1>3
  <2>2. o = PUN([r EXCEPT !.CHKSUM = sum], "low")
    BY DEF OUT
  <2> HIDE DEF sum, o
  <2>3. /\ o.pc = "TLS" /\ o.what = "low" /\ o.CHKSUM = sum /\ o.then = r.then
        /\ o.READST = r.READST /\ o.LSTBUF = r.LSTBUF /\ o.CURBUF = r.CURBUF
        /\ o.EXBIT = r.EXBIT /\ o.TRACK = r.TRACK /\ o.LOC = r.LOC
    BY <1>3, <2>2 DEF PUN, ProgramFields
  <2>4. Pun(p, o, "low") /\ o.LOC = r.LOC
    BY <1>3, <2>3 DEF Pun
  <2> QED BY <2>1, <2>3, <2>4 DEF Out, o
<1>4. ASSUME NEW pc PROVE Same(p, GoTo(p, pc)) /\ GoTo(p, pc).pc = pc
  BY <1>1 DEF Same, Keeps, GoTo, ProgramFields
<1>5. CASE p.what = "flag"
  <2>1. q = OUT(p, mem)
    BY <1>5 DEF Sent
  <2> HIDE DEF q
  <2> QED BY <1>1, <1>3, <1>5, <2>1 DEF q
<1>6. CASE p.what = "high" /\ p.LOC + 2 < BLOCK
  <2> DEFINE r == [p EXCEPT !.LOC = @ + 2]
  <2>1. q = OUT(r, mem)
    <3>1. p.what = "high" /\ p.LOC + 2 < BLOCK /\ p.LOC + 2 # BLOCK
      BY <1>1, <1>6, BlockAssumption
    <3> HIDE DEF r
    <3>2. q = OUT([p EXCEPT !.LOC = @ + 2], mem)
      BY <3>1, Zenon DEF Sent
    <3> QED BY <3>2 DEF r
  <2>2. /\ DOMAIN r = ProgramFields /\ r.READST = p.READST /\ r.LSTBUF = p.LSTBUF
        /\ r.CURBUF = p.CURBUF /\ r.EXBIT = p.EXBIT /\ r.TRACK = p.TRACK
        /\ r.CHKSUM = p.CHKSUM /\ r.then = p.then /\ r.LOC = p.LOC + 2
    BY <1>1 DEF ProgramFields
  <2> HIDE DEF q, r
  <2>3. Out(p, q, mem) /\ q.LOC = p.LOC + 2
    BY <1>3, <2>1, <2>2
  <2>4. p.LOC + 2 # BLOCK /\ p.LOC + 2 <= BLOCK
    BY <1>1, <1>6, BlockAssumption
  <2> QED BY <1>6, <2>3, <2>4 DEF q
<1>7. CASE p.what = "high" /\ ~(p.LOC + 2 < BLOCK)
  <2>1. p.LOC + 2 = BLOCK
    BY <1>1, <1>7, BlockAssumption
  <2>2. q = IF p.then = "DMPLP" THEN GoTo(p, "CK1") ELSE PUN(p, "fe")
    BY <1>1, <1>7, <2>1 DEF Sent
  <2> HIDE DEF q
  <2>3. p.then = "DMPLP" => Same(p, q) /\ q.pc = "CK1"
    BY <1>4, <2>2
  <2>4. p.then = "LAST" => Pun(p, q, "fe") /\ q.CHKSUM = p.CHKSUM /\ q.LOC = p.LOC
    BY <1>2, <2>2
  <2> QED BY <1>1, <1>7, <2>1, <2>3, <2>4, BlockAssumption DEF q
<1>8. CASE p.what \in {"low", "mid", "fe", "sum"}
  <2>1. q = PUN(p, CASE p.what = "low" -> "mid" [] p.what = "mid" -> "high"
                     [] p.what = "fe" -> "sum" [] p.what = "sum" -> "sumhigh")
    BY <1>8 DEF Sent
  <2> HIDE DEF q
  <2> QED BY <1>2, <1>8, <2>1 DEF q
<1>9. CASE p.what = "sumhigh"
  <2>1. q = GoTo(p, "FINISH")
    BY <1>9 DEF Sent
  <2> HIDE DEF q
  <2> QED BY <1>4, <1>9, <2>1 DEF q
<1> QED BY <1>1, <1>5, <1>6, <1>7, <1>8, <1>9 DEF Whats

-----------------------------------------------------------------------------
(* What an edge does to the program: nothing outside F3.                   *)
LEMMA Advances ==
  ASSUME Machine, NEW done, NEW rxd, Edge(done, rxd)
  PROVE  /\ cpu.state # "F3" => prog' = prog
         /\ cpu.state = "F3" =>
              /\ prog' = Advance(prog, Skips, rk.disk_bus, memory) /\ Skips \in {0, 1}
              /\ ~Halted(prog) /\ cpu'.state = "F0" /\ memory' = memory
              /\ tx' = tx /\ tty' = tty
         /\ ProgramOK(prog) /\ ProgramTyped(prog) /\ memory \in [Addresses -> Word]
         /\ rx' = rx /\ oct' = oct
<1>1. /\ ProgramOK(prog) /\ ProgramTyped(prog) /\ memory \in [Addresses -> Word]
      /\ tx.skip \in {0, 1} /\ rk.skip \in {0, 1}
  BY DEF Machine, DumpInv, TransmitterOK, RKRegisters, Bit
<1>2. rx' = rx /\ oct' = oct
  BY DEF Edge
<1>3. CASE cpu.state # "F3"
  <2>1. prog' = prog
    BY <1>3 DEF Edge, CPUEdge, CPUAtF0, CPUAtF1, CPUAtF3, CPUAtDB0, CPUAtDB1, CPUAtDB2
  <2> QED BY <1>1, <1>2, <1>3, <2>1
<1>4. CASE cpu.state = "F3"
  <2>1. CPUAtF3 /\ UNCHANGED <<tx, dropped, tty>>
    BY <1>4 DEF Edge, CPUEdge, CPUAtF0, CPUAtF1, CPUAtDB0, CPUAtDB1, CPUAtDB2, RunsIOT
  <2>2. ~Halted(prog) /\ cpu'.state = "F0"
    BY <1>4, <2>1 DEF Machine, DumpInv, ProcessorOK, CPUAtF3
  <2>3. prog' = Advance(prog, Skips, rk.disk_bus, memory) /\ memory' = memory
    BY <2>1 DEF CPUAtF3, Skips
  <2>4. Skips \in {0, 1}
    BY <1>1 DEF Skips
  <2> QED BY <1>1, <1>2, <1>4, <2>1, <2>2, <2>3, <2>4
<1> QED BY <1>3, <1>4

(* At TSF a program waits or goes on to its next character.                *)
LEMMA AtTSF ==
  ASSUME NEW p, p.pc = "TSF", NEW bus, NEW mem
  PROVE  Advance(p, 0, bus, mem) = p /\ Advance(p, 1, bus, mem) = Sent(p, mem)
<1>1. Advance(p, 0, bus, mem) = p
  BY DEF Advance
<1>2. Advance(p, 1, bus, mem) = Sent(p, mem)
  BY DEF Advance
<1> QED BY <1>1, <1>2

(* The phases exclude each other.                                          *)
LEMMA OnePhase ==
  ASSUME Quiet \/ Ending
  PROVE  ~Starting /\ ~Running /\ ~Failed /\ ~(Quiet /\ Ending)
  BY DEF Quiet, Ending, Starting, Running, Failed, Reporting, Reported, Pipe, Op

OnePhaseF == Quiet \/ Ending => ~Starting /\ ~Running /\ ~Failed /\ ~(Quiet /\ Ending)

(* After a step too.                                                       *)
LEMMA OnePhaseNext == OnePhaseF'
<1>1. OnePhaseF
  BY OnePhase DEF OnePhaseF
<1> QED BY <1>1, PTL

(* A transfer that ends well leaves its flag up.                           *)
LEMMA QuietComes ==
  ASSUME Machine, CardOK, SetUp, Phases, ReadInv,
         NEW done, NEW rxd, OnEdge(done, rxd), done = 1 => NoBreak, sd.CS = 1 => rxd = "ff",
         Quiet'
  PROVE  Quiet \/ rk'.status = {"done"}
<1>1. ~Starting' /\ ~Running' /\ ~Failed' /\ ~Ending'
  BY OnePhaseNext DEF OnePhaseF
<1>2. Quiet \/ Ending
  BY <1>1, PhaseStep DEF Phases
<1>3. CASE Ending
  <2>1. Underway /\ Issued
    BY <1>3 DEF Ending, Underway
  <2>2. rk'.last = rk.sdstate /\ rk'.last = "READY"
    BY DEF OnEdge, Always, Quiet, Pipe
  <2>3. rk.status = {"done"} /\ rk.sdstate = "READY" /\ rk.last = "DONE"
    BY <1>3, <2>2 DEF Ending, Pipe, Op
  <2>4. rk'.status = ClockedStatus
    BY <2>1, IssuedGoes DEF Plain
  <2> QED BY <2>3, <2>4 DEF ClockedStatus
<1> QED BY <1>2, <1>3

(* The program of a dump is told of a failure, or finds its sector read.   *)
LEMMA SettledStep ==
  ASSUME Machine, CardOK, SetUp, Phases, ReadInv, ~IsJob(prog), Settled,
         NEW done, NEW rxd, Edge(done, rxd), done = 1 => NoBreak, sd.CS = 1 => rxd = "ff"
  PROVE  Settled'
<1> DEFINE p == prog
           q == prog'
<1>1. OnEdge(done, rxd)
  BY Edges
<1>2. Failed => Failed'
  BY <1>1, PhaseStep
<1>3. ASSUME ~Issued, Failed PROVE Reported
  BY <1>3, Idling, OnePhase
<1>4. /\ p.READST = 255
      /\ p.pc = "CAF" => p.then = "-"
      /\ p.pc \in Reading => p.then # "-"
      /\ p.pc = "CK3" => Failed
      /\ p.pc \in Recalibrating => IF p.then = "-" THEN p.back = "DUMP" ELSE Failed
  BY DEF Settled
<1>5. /\ q.READST = 255
      /\ q.pc = "CAF" => q.then = "-"
      /\ q.pc \in Reading => q.then # "-"
      /\ q.pc = "CK3" => Failed
      /\ q.pc \in Recalibrating => IF q.then = "-" THEN q.back = "DUMP" ELSE Failed
  <2>1. CASE cpu.state # "F3"
    BY <1>4, <2>1, Advances
  <2>2. CASE cpu.state = "F3"
    <3>1. /\ q = Advance(p, Skips, rk.disk_bus, memory) /\ Skips \in {0, 1}
          /\ ~Halted(p) /\ ProgramOK(p) /\ ProgramTyped(p)
          /\ memory \in [Addresses -> Word]
      BY <2>2, Advances
    <3>2. p.pc = "RC7" /\ p.then # "-" => rk.disk_bus # {"done"}
      <4>1. SUFFICES ASSUME p.pc = "RC7", p.then # "-" PROVE rk.disk_bus # {"done"}
        OBVIOUS
      <4>2. Failed /\ ~Issued
        BY <1>4, <4>1 DEF Recalibrating, Issued, Of
      <4> QED BY <1>3, <2>2, <4>1, <4>2 DEF Reported, Of, Obeyed
    <3>3. p.pc = "CK2" /\ rk.disk_bus # {"done"} => Failed
      BY <2>2 DEF Settled, Obeyed
    <3>4. CASE p.pc \notin {"TSF", "CK2"}
      <4> HIDE DEF q
      <4>1. /\ p.pc = "CAF" => Same(p, q) /\ q.pc = "RC1" /\ q.back = "DUMP"
            /\ p.pc \in Recalibrating \ {"RC7"} =>
                 Same(p, q) /\ q.pc \in Recalibrating /\ q.back = p.back
            /\ p.pc = "RC7" /\ rk.disk_bus # {"done"} => Same(p, q) /\ q.pc = "BADSTA"
            /\ p.pc = "RC7" /\ rk.disk_bus = {"done"} /\ p.back = "DUMP" =>
                 q.READST = p.READST /\ q.then = "DMPLP" /\ q.pc = "RD1"
            /\ p.pc \in {"RD1", "RD2", "RD3"} =>
                 Same(p, q) /\ q.pc \in {"RD2", "RD3", "RD4"}
            /\ p.pc = "RD4" /\ p.then # "SEND" => Same(p, q) /\ q.pc = "CK1"
            /\ p.pc = "RD4" /\ p.then = "SEND" => q.READST = p.READST /\ q.pc = "TLS"
            /\ p.pc = "CK1" => Same(p, q) /\ q.pc \in {"CK1", "CK2"}
            /\ p.pc = "CK3" => Same(p, q) /\ q.pc = "RC1" /\ q.back = "CHKRD"
            /\ p.pc = "TLS" => Same(p, q) /\ q.pc = "TSF"
        BY <3>1, <3>4, DumpGoes DEF q
      <4> HIDE DEF p
      <4>2. CASE p.pc = "CAF"
        BY <1>4, <4>1, <4>2 DEF Same, Recalibrating, Reading
      <4>3. CASE p.pc \in Recalibrating \ {"RC7"}
        BY <1>4, <4>1, <4>3 DEF Same, Recalibrating, Reading
      <4>4. CASE p.pc = "RC7"
        BY <1>4, <3>2, <4>1, <4>4 DEF Same, Recalibrating, Reading
      <4>5. CASE p.pc \in {"RD1", "RD2", "RD3", "RD4"}
        BY <1>4, <4>1, <4>5 DEF Same, Recalibrating, Reading
      <4>6. CASE p.pc \in {"CK1", "CK3", "TLS"}
        BY <1>4, <4>1, <4>6 DEF Same, Recalibrating, Reading
      <4> QED BY <3>1, <3>4, <4>2, <4>3, <4>4, <4>5, <4>6
              DEF p, ProgramOK, IsJob, Halted, Recalibrating, Reading, Punching, Writing, Final
    <3>5. CASE p.pc = "CK2"
      <4> HIDE DEF q
      <4>1. /\ q.READST = 255
            /\ rk.disk_bus # {"done"} => /\ q.then = p.then
                                         /\ q.pc = "CK3" \/ (q.pc = "RC1" /\ q.back = "DUMP")
            /\ rk.disk_bus = {"done"} => \/ q.pc = "TLS"
                                         \/ q.pc = "RD1" /\ q.then = "SEND"
        BY <3>1, <3>5, Refilled DEF q, Keeps
      <4> QED BY <1>4, <3>3, <3>5, <4>1 DEF Reading, Recalibrating
    <3>6. CASE p.pc = "TSF"
      <4> HIDE DEF q
      <4>1. q = p \/ q = Sent(p, memory)
        BY <3>1, <3>6, AtTSF DEF q
      <4>2. LET r == Sent(p, memory)
            IN r.READST = p.READST /\ (r.pc \in {"TLS", "FINISH"} \/ (r.pc = "CK1" /\ r.then # "-"))
        <5>1. p.what \in Whats /\ p.then \in {"DMPLP", "LAST"} /\ p.LOC \in Nat /\ BLOCK \in Nat
          BY <3>1, <3>6, BlockAssumption DEF ProgramOK, Punching, Shaped
        <5> HIDE DEF p
        <5> QED BY <3>1, <3>6, <5>1, DumpSends DEF Whats, Out, Pun, Same
      <4> QED BY <1>4, <3>6, <4>1, <4>2 DEF Reading, Recalibrating
    <3> QED BY <3>4, <3>5, <3>6
  <2> QED BY <2>1, <2>2
<1>6. Quiet' /\ Issued' => rk'.status = {"done"}
  <2>1. SUFFICES ASSUME Quiet', Issued' PROVE rk'.status = {"done"}
    OBVIOUS
  <2>2. CASE ~Quiet
    BY <1>1, <2>1, <2>2, QuietComes
  <2>3. CASE Quiet /\ Issued
    <3>1. rk.status = {"done"} /\ rk'.status = ClockedStatus
      BY <1>1, <2>3, IssuedGoes DEF Plain, Settled
    <3> QED BY <2>3, <3>1, QuietRegisters
  <2>4. CASE Quiet /\ ~Issued
    <3>1. Obeying /\ Of({"RD4", "W4"}) /\ ~Obeyed
      BY <1>1, <2>1, <2>4, IssuedComes
    <3>2. Of({"RD4"}) /\ cpu.state = "F1"
      BY <3>1 DEF Obeying, Of, IsJob, Writing
    <3>3. rk'.sdOP = "RD"
      BY <3>2, OrderTaken DEF Edge
    <3> QED BY <2>1, <3>3 DEF Quiet
  <2> QED BY <2>2, <2>3, <2>4
<1>7. q.pc = "CK2" /\ ~Failed' => IF Obeyed' THEN rk'.disk_bus = {"done"}
                                  ELSE rk'.status = {"done"}
  <2>1. SUFFICES ASSUME q.pc = "CK2", ~Failed'
                 PROVE  IF Obeyed' THEN rk'.disk_bus = {"done"} ELSE rk'.status = {"done"}
    OBVIOUS
  <2>2. ~Failed
    BY <1>2, <2>1
  <2>3. CASE Obeying
    <3>1. p.pc = "CK2" /\ Obeyed' /\ ~Obeyed /\ rk'.disk_bus = rk.status
      BY <2>1, <2>3 DEF Obeying, Of, Obeyed
    <3> QED BY <2>2, <3>1 DEF Settled
  <2>4. CASE Passing
    <3>1. p.pc = "CK2" /\ ~Obeyed' /\ ~Obeyed /\ rk'.status = ClockedStatus
      BY <2>1, <2>4 DEF Passing, Obeyed, Plain
    <3>2. rk.status = {"done"} /\ ~Issued
      BY <2>2, <3>1 DEF Settled, Issued, Of
    <3>3. Quiet
      BY <2>2, <3>2, Idling
    <3> QED BY <3>1, <3>2, <3>3, QuietRegisters
  <2>5. CASE Advancing
    <3>1. cpu.state = "F3" /\ ~Obeyed' /\ rk'.status = ClockedStatus
          /\ Follows(p, q, Skips, rk.disk_bus) /\ ~Halted(p)
      BY <2>5 DEF Advancing, Obeyed, Plain
    <3>2. p.pc = "CK1" /\ Skips = 1
      <4>1. Skips \in {0, 1} /\ ProgramOK(p)
        BY <3>1, Advances
      <4> HIDE DEF p, q
      <4> QED BY <2>1, <3>1, <4>1
              DEF p, Follows, Waits, NextSector, ProgramOK, Halted, Recalibrating, Reading,
                  Punching, Writing, Final, Sequence, IsJob
    <3>3. rk.skip = 1 /\ Of({"CK1", "W5"}) /\ Obeyed /\ Issued
      BY <3>1, <3>2 DEF Skips, Of, Obeyed, Issued
    <3>4. ~Underway
      BY <3>3 DEF Underway
    <3>5. Quiet
      <4>1. ~Starting /\ ~Running /\ ~Ending
        BY <3>4 DEF Starting, Running, Ending
      <4> QED BY <2>2, <4>1 DEF Phases
    <3>6. rk.status = {"done"}
      BY <3>3, <3>5 DEF Settled
    <3> QED BY <3>1, <3>5, <3>6, QuietRegisters
  <2> QED BY <1>1, <2>3, <2>4, <2>5 DEF OnEdge
<1> QED BY <1>2, <1>5, <1>6, <1>7 DEF Settled

-----------------------------------------------------------------------------
(* While the next sector is read into one buffer, the other keeps the one  *)
(* that is sent.                                                           *)
LEMMA BufferKept ==
  ASSUME Machine, Phases, Steps, ~IsJob(prog), Stored, Buffered
  PROVE  \A i \in 1..Words : memory'[prog.LSTBUF + i - 1] = memory[prog.LSTBUF + i - 1]
<1>1. SUFFICES ASSUME memory' # memory, NEW i \in 1..Words
               PROVE  memory'[prog.LSTBUF + i - 1] = memory[prog.LSTBUF + i - 1]
  OBVIOUS
<1>2. sd.sdSTATE = "READ" /\ Kept
  BY <1>1 DEF Steps
<1>3. Issued
  BY <1>2 DEF Phases, Quiet, Starting, Running, Ending, Failed, Reporting, Reported, Underway, Pipe
<1>4. Behind(prog)
  BY <1>3 DEF Issued, Of, Buffered, Behind, Punching, IsJob, Writing
<1>5. /\ prog.LSTBUF # prog.CURBUF /\ prog.LSTBUF \in Buffers /\ prog.CURBUF \in Buffers
      /\ Target = prog.CURBUF
  BY <1>4, AskedType DEF Stored, Machine, DumpInv, ProgramTyped, Target
<1>6. PICK k \in 1..Count : Puts(k)
  BY <1>1, <1>2 DEF Kept
<1>7. \A a \in Addresses : a # Target + (k - 1) => memory'[a] = memory[a]
  BY <1>6, KeptWord
<1>8. Count \in Nat /\ Count <= Words /\ Words \in Nat /\ Words <= 256
  BY Places, Constants
<1>9. PICK b \in {512, 768}, c \in {512, 768} : b = prog.LSTBUF /\ c = prog.CURBUF /\ b # c
  BY <1>5, BufferWords
<1>10. b + i - 1 # c + (k - 1) /\ b + i - 1 = b + (i - 1) /\ i - 1 \in Int
       /\ 0 <= i - 1 /\ i - 1 < Words
  BY <1>8, <1>9
<1>11. prog.LSTBUF + (i - 1) \in Addresses
  BY <1>5, <1>10, BufferWords
<1> QED BY <1>5, <1>7, <1>9, <1>10, <1>11

-----------------------------------------------------------------------------
(* Except at the end of a read the program stays with its sector, and      *)
(* begins to send one only while the next is being read.                   *)
LEMMA Onward ==
  ASSUME NEW p, ProgramOK(p), ~IsJob(p), ~Halted(p), p.pc \notin {"TSF", "CK2"},
         NEW skip \in {0, 1}, NEW bus, NEW mem,
         p.pc = "RC7" /\ bus = {"done"} => p.back = "DUMP"
  PROVE  LET q == Advance(p, skip, bus, mem)
         IN /\ Keeps(p, q) /\ q.pc # "FINISH" /\ (Behind(q) <=> Behind(p))
            /\ q.pc \in Punching =>
                 IF p.pc \in Punching
                 THEN q.pc = "TSF" /\ q.what = p.what /\ q.LOC = p.LOC /\ q.then = p.then
                 ELSE /\ q.pc = "TLS" /\ q.what = "flag" /\ q.LOC = 0 /\ Behind(p)
                      /\ q.then = "DMPLP"
<1> DEFINE q == Advance(p, skip, bus, mem)
<1>1. /\ p.pc = "CAF" => Same(p, q) /\ q.pc = "RC1" /\ q.back = "DUMP"
      /\ p.pc \in Recalibrating \ {"RC7"} =>
           Same(p, q) /\ q.pc \in Recalibrating /\ q.back = p.back
      /\ p.pc = "RC7" /\ bus # {"done"} => Same(p, q) /\ q.pc = "BADSTA"
      /\ p.pc = "RC7" /\ bus = {"done"} /\ p.back = "DUMP" =>
           /\ Keeps(p, q) /\ q.READST = p.READST /\ q.then = "DMPLP" /\ q.pc = "RD1"
      /\ p.pc \in {"RD1", "RD2", "RD3"} =>
           Same(p, q) /\ q.pc \in {"RD2", "RD3", "RD4"}
      /\ p.pc = "RD4" /\ p.then # "SEND" => Same(p, q) /\ q.pc = "CK1"
      /\ p.pc = "RD4" /\ p.then = "SEND" =>
           /\ Keeps(p, q) /\ q.READST = p.READST /\ q.then = "DMPLP" /\ q.pc = "TLS"
           /\ q.what = "flag" /\ q.LOC = 0
      /\ p.pc = "CK1" => Same(p, q) /\ q.pc \in {"CK1", "CK2"}
      /\ p.pc = "CK3" => Same(p, q) /\ q.pc = "RC1" /\ q.back = "CHKRD"
      /\ p.pc = "TLS" => Same(p, q) /\ q.pc = "TSF" /\ q.what = p.what /\ q.LOC = p.LOC
  BY DumpGoes
<1> HIDE DEF q
<1>2. CASE p.pc \in {"CAF", "CK1", "CK3"}
  BY <1>1, <1>2 DEF Same, Behind, Punching, q
<1>3. CASE p.pc \in Recalibrating
  BY <1>1, <1>3 DEF Same, Behind, Punching, Recalibrating, q
<1>4. CASE p.pc \in {"RD1", "RD2", "RD3", "RD4"}
  BY <1>1, <1>4 DEF Same, Behind, Punching, q
<1>5. CASE p.pc = "TLS"
  BY <1>1, <1>5 DEF Same, Behind, Punching, q
<1> QED BY <1>2, <1>3, <1>4, <1>5
        DEF ProgramOK, IsJob, Halted, Recalibrating, Reading, Punching, Writing, Final

(* It goes on sending the same sector until it waits for the next.         *)
LEMMA SendsOn ==
  ASSUME NEW p, ProgramOK(p), ProgramTyped(p), p.pc = "TSF", NEW mem \in [Addresses -> Word]
  PROVE  LET q == Sent(p, mem)
         IN /\ q.EXBIT = p.EXBIT /\ q.TRACK = p.TRACK /\ q.LSTBUF = p.LSTBUF
            /\ q.CURBUF = p.CURBUF /\ q.READST = p.READST /\ q.then = p.then
            /\ q.pc \in {"TLS", "CK1", "FINISH"}
  BY DumpSends, BlockAssumption DEF ProgramOK, Shaped, Punching, Whats, Out, Pun, Same, Keeps

(* The block the program finds read is the sector it counts.               *)
LEMMA SectorRead ==
  ASSUME Machine, Arrived, ~IsJob(prog), prog.pc = "CK2", Obeyed, rk.disk_bus = {"done"}
  PROVE  Holds(prog.CURBUF, TrackOf(Index(prog)), Words)
<1>1. Told
  BY DEF Told, Of
<1>2. /\ Asked(prog).curent = prog.CURBUF /\ Asked(prog).command = prog.EXBIT
      /\ Asked(prog).track = prog.TRACK /\ IsRead(Asked(prog)) /\ ~IsHalf(Asked(prog))
  BY AskedType DEF Machine, DumpInv
<1>3. Target = prog.CURBUF /\ Count = Words
  BY <1>2 DEF Target, Count, Length
<1>4. Block = prog.EXBIT * 4096 + prog.TRACK
  <2>1. prog.EXBIT \in {0, 1} /\ prog.TRACK \in Nat
    BY DEF Machine, ProgramTyped, Bit
  <2>2. prog.EXBIT % 8 = prog.EXBIT
    BY <2>1
  <2> QED BY <1>2, <2>1, <2>2 DEF Block, BlockOf
<1>5. TrackOf(Index(prog)) = prog.EXBIT * 4096 + prog.TRACK
  BY Indexes DEF Machine
<1> QED BY <1>1, <1>2, <1>3, <1>4, <1>5 DEF Arrived

(* Along every edge the program has in LSTBUF what it sends next.          *)
LEMMA StoredStep ==
  ASSUME Machine, Phases, Arrived, Steps, ~IsJob(prog), Settled, Stored,
         NEW done, NEW rxd, Edge(done, rxd)
  PROVE  Stored'
<1> DEFINE p == prog
           q == prog'
           InUse(r) == r.pc \in Punching \/ Behind(r)
           Holding == \A i \in 1..Words :
                        memory'[q.LSTBUF + i - 1] = Content(TrackOf(Sending(q)))[i]
<1>1. CASE prog' = prog
  <2>1. Buffered' = Buffered /\ Behind(prog)' = Behind(prog) /\ LastTrack(prog)' = LastTrack(prog)
    BY <1>1 DEF Buffered, Behind, LastTrack
  <2>2. ASSUME Buffered PROVE Holding
    <3>1. Sending(q) = Sending(p) /\ q.LSTBUF = p.LSTBUF
      BY <1>1
    <3>2. Holds(p.LSTBUF, TrackOf(Sending(p)), Words)
      BY <2>2 DEF Stored
    <3>3. \A i \in 1..Words : memory'[p.LSTBUF + i - 1] = memory[p.LSTBUF + i - 1]
      BY <2>2, BufferKept
    <3> QED BY <3>1, <3>2, <3>3 DEF Holds
  <2> QED BY <1>1, <2>1, <2>2 DEF Stored, Holds
<1>2. CASE cpu.state = "F3"
  <2>1. /\ q = Advance(p, Skips, rk.disk_bus, memory) /\ Skips \in {0, 1}
        /\ ~Halted(p) /\ ProgramOK(p) /\ ProgramTyped(p) /\ memory' = memory
        /\ memory \in [Addresses -> Word]
    BY <1>2, Advances
  <2>2. ASSUME InUse(q) => /\ InUse(p) /\ q.LSTBUF = p.LSTBUF
                            /\ Sending(q) = Sending(p),
               Behind(q) => Behind(p) /\ q.CURBUF = p.CURBUF,
               q.pc \in Punching /\ q.then = "LAST" =>
                 p.pc \in Punching /\ p.then = "LAST" /\ (LastTrack(p) => LastTrack(q))
        PROVE  Stored'
    <3>1. InUse(q) => Holds(q.LSTBUF, TrackOf(Sending(q)), Words)
      BY <2>2 DEF Stored, Buffered
    <3>2. InUse(q) => Holding
      BY <2>1, <3>1 DEF Holds
    <3>3. Behind(q) => q.LSTBUF # q.CURBUF
      BY <2>2 DEF Stored, Buffered
    <3>4. q.pc \in Punching /\ q.then = "LAST" => LastTrack(q)
      BY <2>2 DEF Stored
    <3> QED BY <3>2, <3>3, <3>4 DEF Stored, Buffered, Holds
  <2>3. CASE p.pc \notin {"TSF", "CK2"}
    <3>1. p.pc = "RC7" /\ rk.disk_bus = {"done"} => p.back = "DUMP"
      <4>1. SUFFICES ASSUME p.pc = "RC7", rk.disk_bus = {"done"}, p.then # "-" PROVE FALSE
        BY DEF Settled, Recalibrating
      <4>2. Failed /\ ~Issued
        BY <4>1 DEF Settled, Recalibrating, Issued, Of
      <4>3. Reported
        BY <4>2, Idling, OnePhase
      <4> QED BY <1>2, <4>1, <4>3 DEF Reported, Of, Obeyed
    <3>2. /\ Keeps(p, q) /\ (Behind(q) <=> Behind(p))
          /\ q.pc \in Punching =>
               IF p.pc \in Punching THEN q.then = p.then
               ELSE Behind(p) /\ q.then = "DMPLP"
      BY <2>1, <2>3, <3>1, Onward
    <3>3. Index(q) = Index(p) /\ q.LSTBUF = p.LSTBUF /\ q.CURBUF = p.CURBUF
          /\ (LastTrack(p) => LastTrack(q))
      BY <3>2 DEF Keeps, Index, LastTrack
    <3>4. Sending(q) = Sending(p)
      BY <3>2, <3>3 DEF Sending
    <3> HIDE DEF p, q
    <3> QED BY <2>2, <3>2, <3>3, <3>4
  <2>4. CASE p.pc = "CK2"
    <3>1. /\ rk.disk_bus # {"done"} => q.pc \in {"CK3", "RC1"}
          /\ rk.disk_bus = {"done"} /\ LastTrack(p) =>
               /\ q.pc = "TLS" /\ q.then = "LAST"
               /\ q.EXBIT = p.EXBIT /\ q.TRACK = p.TRACK /\ q.LSTBUF = p.CURBUF
          /\ rk.disk_bus = {"done"} /\ ~LastTrack(p) =>
               /\ q.pc = "RD1" /\ q.then = "SEND" /\ Index(q) = Index(p) + 1
               /\ q.LSTBUF = p.CURBUF /\ q.CURBUF = OtherBuffer(p.CURBUF)
      BY <2>1, <2>4, Refilled
    <3>2. rk.disk_bus = {"done"} => Holds(p.CURBUF, TrackOf(Index(p)), Words)
      BY <1>2, <2>4, SectorRead DEF Obeyed
    <3>3. Index(p) \in Nat /\ OtherBuffer(p.CURBUF) # p.CURBUF
      BY <2>1, Indexes, BufferWords DEF ProgramTyped
    <3>4. CASE rk.disk_bus # {"done"}
      <4>1. ~InUse(q)
        BY <3>1, <3>4 DEF Behind, Punching
      <4> QED BY <4>1 DEF Stored, Buffered
    <3>5. CASE rk.disk_bus = {"done"} /\ LastTrack(p)
      <4>1. ~Behind(q) /\ Index(q) = Index(p) /\ LastTrack(q)
        BY <3>1, <3>5 DEF Behind, Index, LastTrack
      <4>2. Sending(q) = Index(p)
        BY <4>1 DEF Sending
      <4>3. Holding
        BY <2>1, <3>1, <3>2, <3>5, <4>2 DEF Holds
      <4> QED BY <4>1, <4>3 DEF Stored, Holds
    <3>6. CASE rk.disk_bus = {"done"} /\ ~LastTrack(p)
      <4>1. Behind(q) /\ q.LSTBUF # q.CURBUF /\ q.pc \notin Punching
        BY <3>1, <3>3, <3>6 DEF Behind, Punching
      <4>2. Sending(q) = Index(p)
        BY <3>1, <3>3, <3>6, <4>1 DEF Sending
      <4>3. Holding
        BY <2>1, <3>1, <3>2, <3>6, <4>2 DEF Holds
      <4> QED BY <4>1, <4>3 DEF Stored, Holds
    <3> QED BY <3>4, <3>5, <3>6
  <2>5. CASE p.pc = "TSF" /\ Skips = 1
    <3>1. q = Sent(p, memory)
      BY <2>1, <2>5, AtTSF
    <3>2. /\ q.EXBIT = p.EXBIT /\ q.TRACK = p.TRACK /\ q.LSTBUF = p.LSTBUF
          /\ q.CURBUF = p.CURBUF /\ q.then = p.then /\ q.pc \in {"TLS", "CK1", "FINISH"}
      BY <2>1, <2>5, <3>1, SendsOn
    <3>3. Index(q) = Index(p) /\ (LastTrack(p) => LastTrack(q))
      BY <3>2 DEF Index, LastTrack
    <3>4. InUse(q) <=> q.pc = "TLS"
      BY <3>2 DEF Behind, Punching
    <3>5. q.pc = "TLS" => (Behind(q) <=> Behind(p)) /\ InUse(p)
      BY <2>5, <3>2 DEF Behind, Punching
    <3>6. q.pc = "TLS" => Sending(q) = Sending(p)
      BY <3>3, <3>5 DEF Sending
    <3> HIDE DEF p, q
    <3> QED BY <2>2, <2>5, <3>2, <3>3, <3>4, <3>5, <3>6 DEF Punching, Behind
  <2>6. CASE p.pc = "TSF" /\ Skips = 0
    <3>1. q = p
      BY <2>1, <2>6, AtTSF
    <3> QED BY <1>1, <3>1
  <2> QED BY <2>1, <2>3, <2>4, <2>5, <2>6
<1> QED BY <1>1, <1>2, Advances

-----------------------------------------------------------------------------
(* The buffer a sector is sent from.                                       *)
Contains(mem, p) == \A i \in 1..Words : mem[p.LSTBUF + i - 1] = Content(TrackOf(Sending(p)))[i]

(* The words a pair of characters is made of are the position's.           *)
LEMMA PairSent ==
  ASSUME NEW p, ProgramTyped(p), NEW mem, Contains(mem, p),
         NEW x, Placed(x), x.sector = Sending(p)
  PROVE  /\ mem[p.LSTBUF + x.LOC] = WordAt(x, 1) /\ mem[p.LSTBUF + x.LOC + 1] = WordAt(x, 2)
         /\ WordAt(x, 1) \in Word /\ WordAt(x, 2) \in Word
<1>1. PICK b \in Nat, l \in Nat : b = p.LSTBUF /\ l = x.LOC /\ l + 2 <= Words
  <2>1. p.LSTBUF \in Buffers /\ 0 \in Int
    BY DEF ProgramTyped
  <2>2. p.LSTBUF \in Nat
    BY <2>1, BufferWords
  <2>3. x.LOC \in Nat /\ x.LOC + 2 <= Words
    BY DEF Placed, Position
  <2> QED BY <2>2, <2>3
<1>2. l + 1 \in 1..Words /\ l + 2 \in 1..Words /\ Words \in Nat
  BY <1>1, Constants
<1>3. b + (l + 1) - 1 = b + l /\ b + (l + 2) - 1 = b + l + 1
  BY <1>1
<1>4. mem[b + (l + 1) - 1] = Content(TrackOf(x.sector))[l + 1]
  BY <1>1, <1>2 DEF Contains
<1>5. mem[b + (l + 2) - 1] = Content(TrackOf(x.sector))[l + 2]
  BY <1>1, <1>2 DEF Contains
<1> QED BY <1>1, <1>3, <1>4, <1>5, PairAt DEF WordAt

(* OUT adds both words of the pair it is going to send.                    *)
LEMMA OutFaces ==
  ASSUME NEW p, ProgramTyped(p), NEW mem, Contains(mem, p),
         NEW x, Placed(x), x.sector = Sending(p), x.what = "low", x.sum = p.CHKSUM,
         NEW q, Out(p, q, mem), q.LOC = x.LOC, Sending(q) = Sending(p)
  PROVE  Faces(q, x)
<1>1. /\ mem[p.LSTBUF + x.LOC] = WordAt(x, 1) /\ mem[p.LSTBUF + x.LOC + 1] = WordAt(x, 2)
      /\ WordAt(x, 1) \in Nat /\ WordAt(x, 2) \in Nat /\ x.sum \in Nat
  BY PairSent, Ranges DEF Placed, Position
<1>2. /\ q.pc = "TLS" /\ q.what = "low"
      /\ q.CHKSUM = (x.sum + WordAt(x, 1) + WordAt(x, 2)) % 4096
  BY <1>1 DEF Out, Pun
<1>3. x.sum + WordAt(x, 1) + WordAt(x, 2) = x.sum + (WordAt(x, 1) + WordAt(x, 2))
  BY <1>1
<1>4. q.CHKSUM = Added(x.sum, Ahead(x))
  BY <1>2, <1>3 DEF Added, Ahead
<1> QED BY <1>2, <1>4 DEF Faces, Punching

(* A character sent, the program faces the next position.                  *)
LEMMA SentFaces ==
  ASSUME NEW p, ProgramOK(p), ProgramTyped(p), p.pc = "TSF", NEW mem \in [Addresses -> Word],
         Contains(mem, p), p.then = "LAST" => LastTrack(p), NEW y, Placed(y), Faces(p, y)
  PROVE  LET q == Sent(p, mem)
             x == Successor(y)
         IN IF q.pc = "FINISH" THEN x.what = "end" ELSE Faces(q, x)
<1> DEFINE q == Sent(p, mem)
           x == Successor(y)
<1>1. /\ p.what \in Whats /\ p.then \in {"DMPLP", "LAST"} /\ p.LOC \in Nat
      /\ y.what = p.what /\ y.LOC = p.LOC /\ y.sector = Sending(p)
      /\ p.CHKSUM = Added(y.sum, Ahead(y))
      /\ p.what = "flag" => p.LOC = 0
  BY DEF ProgramOK, Punching, Shaped, Faces, Placed
<1>2. /\ y.sum \in Word /\ y.sum \in Nat /\ WordAt(y, 1) \in Nat /\ WordAt(y, 2) \in Nat
      /\ WordAt(y, 1) \in Word /\ WordAt(y, 2) \in Word
  BY PairSent, <1>1, Ranges DEF Placed, Position
<1>3. /\ q.EXBIT = p.EXBIT /\ q.TRACK = p.TRACK /\ q.then = p.then
      /\ q.pc \in {"TLS", "CK1", "FINISH"}
  BY SendsOn
<1>4. Index(q) = Index(p) /\ (Behind(p) <=> p.then = "DMPLP")
  BY <1>3 DEF Index, Behind, Punching
<1>5. q.pc = "TLS" => Sending(q) = Sending(p)
  BY <1>3, <1>4 DEF Sending, Behind, Punching
<1>6. Placed(x)
  BY <1>1, Succeeds DEF Whats
<1>7. CASE p.what = "flag"
  <2>1. Out(p, q, mem) /\ q.LOC = p.LOC
    BY <1>7, DumpSends
  <2>2. q.pc = "TLS"
    BY <2>1 DEF Out, Pun
  <2>3. x.sector = Sending(p) /\ x.what = "low" /\ x.sum = y.sum /\ x.LOC = p.LOC
    BY <1>1, <1>7 DEF Successor, Onto, Place
  <2>4. p.CHKSUM = y.sum
    BY <1>1, <1>2, <1>7, Sums DEF Ahead
  <2> HIDE DEF q, x
  <2>5. Faces(q, x)
    BY <1>5, <1>6, <2>1, <2>2, <2>3, <2>4, OutFaces
  <2> QED BY <2>2, <2>5 DEF q, x
<1>8. CASE p.what = "low"
  <2>1. q.pc = "TLS" /\ q.what = "mid" /\ q.CHKSUM = p.CHKSUM /\ q.LOC = p.LOC
    BY <1>8, DumpSends DEF Pun
  <2>2. /\ x.sector = y.sector /\ x.what = "mid" /\ x.sum = y.sum /\ x.LOC = y.LOC
        /\ Ahead(x) = Ahead(y)
    BY <1>1, <1>8 DEF Successor, Onto, Place, Ahead, WordAt
  <2> HIDE DEF q, x
  <2>3. Faces(q, x)
    BY <1>1, <1>5, <2>1, <2>2 DEF Faces, Punching
  <2> QED BY <2>1, <2>3 DEF q, x
<1>9. CASE p.what = "mid"
  <2>1. q.pc = "TLS" /\ q.what = "high" /\ q.CHKSUM = p.CHKSUM /\ q.LOC = p.LOC
    BY <1>9, DumpSends DEF Pun
  <2>2. /\ x.sector = y.sector /\ x.what = "high" /\ x.sum = Added(y.sum, WordAt(y, 1))
        /\ x.LOC = y.LOC /\ Ahead(x) = WordAt(y, 2)
    BY <1>1, <1>9 DEF Successor, Place, Plus, Ahead, WordAt
  <2>3. p.CHKSUM = Added(x.sum, Ahead(x))
    <3>1. Ahead(y) = WordAt(y, 1) + WordAt(y, 2)
      BY <1>1, <1>9 DEF Ahead
    <3>2. Added(Added(y.sum, WordAt(y, 1)), WordAt(y, 2))
            = Added(y.sum, WordAt(y, 1) + WordAt(y, 2))
      BY <1>2, Sums
    <3> QED BY <1>1, <2>2, <3>1, <3>2
  <2> HIDE DEF q, x
  <2>4. Faces(q, x)
    BY <1>1, <1>5, <2>1, <2>2, <2>3 DEF Faces, Punching
  <2> QED BY <2>1, <2>4 DEF q, x
<1>10. CASE p.what = "high"
  <2>1. BLOCK = Words /\ Words \in Nat /\ Sectors \in Nat
    BY Constants DEF Sectors
  <2>2. x = NextPair(y) /\ p.CHKSUM = Plus(y, 2) /\ p.LOC + 2 <= Words
    <3>1. x = NextPair(y)
      BY <1>1, <1>10 DEF Successor
    <3>2. p.CHKSUM = Plus(y, 2)
      BY <1>1, <1>10 DEF Ahead, Plus
    <3> QED BY <1>10, <2>1, <3>1, <3>2, DumpSends
  <2>3. CASE p.LOC + 2 < Words
    <3>1. Out(p, q, mem) /\ q.LOC = p.LOC + 2
      BY <1>10, <2>1, <2>3, DumpSends
    <3>2. q.pc = "TLS"
      BY <3>1 DEF Out, Pun
    <3>3. x.sector = Sending(p) /\ x.what = "low" /\ x.sum = p.CHKSUM /\ x.LOC = p.LOC + 2
      BY <1>1, <2>2, <2>3 DEF NextPair, Place
    <3> HIDE DEF q, x
    <3>4. Faces(q, x)
      BY <1>5, <1>6, <3>1, <3>2, <3>3, OutFaces
    <3> QED BY <3>2, <3>4 DEF q, x
  <2>4. CASE p.LOC + 2 = Words /\ p.then = "DMPLP"
    <3>1. q.pc = "CK1" /\ q.CHKSUM = p.CHKSUM
      BY <1>10, <2>1, <2>4, DumpSends DEF Same, Keeps
    <3>2. Index(p) \in Nat /\ Index(p) < Sectors /\ y.sector = Index(p) - 1
      BY <1>1, <1>4, <2>4, Indexes DEF Sending
    <3>3. y.sector + 1 = Index(p) /\ y.sector + 1 < Sectors
      BY <2>1, <3>2
    <3>4. x.sector = Index(p) /\ x.what = "flag" /\ x.sum = p.CHKSUM /\ x.LOC = 0
      BY <1>1, <2>2, <2>4, <3>3 DEF NextPair, Place
    <3>5. Sending(q) = Index(p)
      BY <1>4, <3>1 DEF Sending, Behind, Punching
    <3> HIDE DEF q, x
    <3>6. p.CHKSUM = Added(x.sum, Ahead(x))
      <4>1. x.sum \in Word /\ x.sum \in Nat /\ Ahead(x) = 0
        BY <1>6, <3>4, Ranges DEF Placed, Position, Ahead
      <4> QED BY <3>4, <4>1, Sums
    <3>7. Faces(q, x)
      BY <3>1, <3>4, <3>5, <3>6 DEF Faces, Punching
    <3> QED BY <3>1, <3>7 DEF q, x
  <2>5. CASE p.LOC + 2 = Words /\ p.then = "LAST"
    <3>1. q.pc = "TLS" /\ q.what = "fe" /\ q.CHKSUM = p.CHKSUM /\ q.LOC = p.LOC
      BY <1>10, <2>1, <2>5, DumpSends DEF Pun
    <3>2. Index(p) \in Nat /\ Index(p) + 1 = Sectors /\ y.sector = Index(p)
      BY <1>1, <1>4, <2>5, Indexes DEF Sending
    <3>3. ~(y.sector + 1 < Sectors) /\ ~(y.LOC + 2 < Words)
      BY <1>1, <2>1, <2>5, <3>2
    <3>4. x.sector = y.sector /\ x.what = "fe" /\ x.sum = p.CHKSUM /\ x.LOC = y.LOC
      BY <2>2, <3>3 DEF NextPair, Place
    <3> HIDE DEF q, x
    <3>5. p.CHKSUM = Added(x.sum, Ahead(x))
      <4>1. x.sum \in Word /\ x.sum \in Nat /\ Ahead(x) = 0
        BY <1>6, <3>4, Ranges DEF Placed, Position, Ahead
      <4> QED BY <3>4, <4>1, Sums
    <3>6. Faces(q, x)
      BY <1>1, <1>5, <3>1, <3>4, <3>5 DEF Faces, Punching
    <3> QED BY <3>1, <3>6 DEF q, x
  <2> QED BY <1>1, <2>1, <2>2, <2>3, <2>4, <2>5
<1>11. CASE p.what \in {"fe", "sum"}
  <2>1. /\ q.pc = "TLS" /\ q.CHKSUM = p.CHKSUM /\ q.LOC = p.LOC
        /\ q.what = (IF p.what = "fe" THEN "sum" ELSE "sumhigh")
    BY <1>11, DumpSends DEF Pun
  <2>2. /\ x.sector = y.sector /\ x.sum = y.sum /\ x.LOC = y.LOC
        /\ x.what = (IF p.what = "fe" THEN "sum" ELSE "sumhigh")
    BY <1>1, <1>11 DEF Successor, Onto, Place
  <2>3. Ahead(x) = 0 /\ Ahead(y) = 0
    BY <1>1, <1>11, <2>2 DEF Ahead
  <2> HIDE DEF q, x
  <2>4. Faces(q, x)
    BY <1>1, <1>5, <2>1, <2>2, <2>3 DEF Faces, Punching
  <2> QED BY <2>1, <2>4 DEF q, x
<1>12. CASE p.what = "sumhigh"
  <2>1. q.pc = "FINISH"
    BY <1>12, DumpSends
  <2>2. x.what = "end"
    BY <1>1, <1>12 DEF Successor, Onto, Place
  <2> QED BY <2>1, <2>2
<1> QED BY <1>1, <1>7, <1>8, <1>9, <1>10, <1>11, <1>12 DEF Whats

(* Whatever else happens, the program is still about to send the character *)
(* at x, until it does.                                                    *)
LEMMA TurnKept ==
  ASSUME Machine, Phases, ~IsJob(prog), Settled, Stored, NEW done, NEW rxd, Edge(done, rxd),
         NEW x, AtTurn(x), ~(cpu.state = "F1" /\ prog.pc = "TLS")
  PROVE  AtTurn(x)'
<1> DEFINE p == prog
           q == prog'
<1>1. CASE cpu.state # "F3"
  <2>1. q = p
    BY <1>1, Advances
  <2>2. OnEdge(done, rxd)
    BY Edges
  <2>3. cpu.state # "F1" => cpu'.state # "F3"
    BY <1>1, <2>2 DEF OnEdge, Obeying, Advancing, Passing
  <2>4. Given' = Given
    BY <1>1, <2>1, <2>3 DEF Given, Obeyed
  <2> QED BY <2>1, <2>4 DEF AtTurn
<1>2. CASE cpu.state = "F3"
  <2>1. /\ q = Advance(p, Skips, rk.disk_bus, memory) /\ Skips \in {0, 1}
        /\ ~Halted(p) /\ ProgramOK(p) /\ ProgramTyped(p) /\ memory \in [Addresses -> Word]
        /\ cpu'.state = "F0"
    BY <1>2, Advances
  <2>2. Given' <=> q.pc = "TSF"
    BY <2>1 DEF Given, Obeyed
  <2>3. Given <=> p.pc \in Punching
    BY <1>2 DEF Given, Obeyed, Punching
  <2>4. p.pc # "FINISH"
    BY <2>1 DEF Halted
  <2>5. p.pc \notin Punching => Faces(p, x)
    BY <2>3, <2>4 DEF AtTurn
  <2>6. ASSUME q.pc \notin {"FINISH", "TSF"}, Faces(q, x) PROVE AtTurn(x)'
    BY <2>2, <2>6 DEF AtTurn
  <2>7. CASE p.pc \notin {"TSF", "CK2"}
    <3>1. p.pc = "RC7" /\ rk.disk_bus = {"done"} => p.back = "DUMP"
      <4>1. SUFFICES ASSUME p.pc = "RC7", rk.disk_bus = {"done"}, p.then # "-" PROVE FALSE
        BY DEF Settled, Recalibrating
      <4>2. Failed /\ ~Issued
        BY <4>1 DEF Settled, Recalibrating, Issued, Of
      <4>3. Reported
        BY <4>2, Idling, OnePhase
      <4> QED BY <1>2, <4>1, <4>3 DEF Reported, Of, Obeyed
    <3>2. /\ Keeps(p, q) /\ q.pc # "FINISH" /\ (Behind(q) <=> Behind(p))
          /\ q.pc \in Punching =>
               IF p.pc \in Punching THEN q.pc = "TSF" /\ q.what = p.what /\ q.LOC = p.LOC
               ELSE q.pc = "TLS" /\ q.what = "flag" /\ q.LOC = 0
      BY <2>1, <2>7, <3>1, Onward
    <3>3. q.CHKSUM = p.CHKSUM /\ Sending(q) = Sending(p)
      BY <3>2 DEF Keeps, Sending, Index
    <3>4. CASE p.pc = "TLS"
      <4>1. q.pc = "TSF"
        BY <2>1, <2>7, <3>4, DumpGoes
      <4>2. PICK y : Placed(y) /\ Faces(p, y) /\ x = Successor(y)
        BY <2>3, <2>4, <3>4 DEF AtTurn, Punching
      <4> HIDE DEF p, q
      <4>3. Faces(q, y)
        BY <3>2, <3>3, <3>4, <4>1, <4>2 DEF Faces, Punching
      <4>4. q.pc = "TSF" /\ Placed(y) /\ Faces(q, y) /\ x = Successor(y)
        BY <4>1, <4>2, <4>3
      <4> QED BY <2>2, <4>4 DEF AtTurn, q
    <3>5. CASE p.pc # "TLS"
      <4>1. p.pc \notin Punching
        BY <2>7, <3>5 DEF Punching
      <4> HIDE DEF p, q
      <4>2. Faces(q, x) /\ q.pc # "TSF"
        BY <2>5, <3>2, <3>3, <4>1 DEF Faces, Punching
      <4> QED BY <2>6, <3>2, <4>2
    <3> QED BY <3>4, <3>5
  <2>8. CASE p.pc = "CK2"
    <3>1. /\ q.CHKSUM = p.CHKSUM
          /\ rk.disk_bus # {"done"} => Keeps(p, q) /\ q.pc \in {"CK3", "RC1"}
          /\ rk.disk_bus = {"done"} /\ LastTrack(p) =>
               /\ q.pc = "TLS" /\ q.what = "flag" /\ q.LOC = 0 /\ q.then = "LAST"
               /\ q.EXBIT = p.EXBIT /\ q.TRACK = p.TRACK
          /\ rk.disk_bus = {"done"} /\ ~LastTrack(p) =>
               q.pc = "RD1" /\ q.then = "SEND" /\ Index(q) = Index(p) + 1
      BY <2>1, <2>8, Refilled
    <3>2. Faces(p, x) /\ Sending(p) = Index(p) /\ Index(p) \in Nat
      BY <2>1, <2>5, <2>8, Indexes DEF Sending, Behind, Punching
    <3> HIDE DEF p, q
    <3>3. Sending(q) = Index(p)
      BY <3>1, <3>2 DEF Sending, Behind, Punching, Index, Keeps
    <3>4. q.pc \in {"CK3", "RC1", "TLS", "RD1"} /\ q.pc = "TLS" => q.what = "flag" /\ q.LOC = 0
      BY <3>1
    <3>5. q.pc \in {"CK3", "RC1", "TLS", "RD1"}
      BY <3>1
    <3>6. Faces(q, x)
      BY <2>8, <3>1, <3>2, <3>3, <3>4, <3>5 DEF Faces, Punching
    <3> QED BY <2>6, <3>5, <3>6
  <2>9. CASE p.pc = "TSF" /\ Skips = 1
    <3>1. q = Sent(p, memory)
      BY <2>1, <2>9, AtTSF
    <3>2. q.pc \in {"TLS", "CK1", "FINISH"}
      BY <2>1, <2>9, <3>1, SendsOn
    <3>3. Contains(memory, p) /\ (p.then = "LAST" => LastTrack(p))
      BY <2>9 DEF Stored, Buffered, Holds, Contains, Punching
    <3>4. PICK y : Placed(y) /\ Faces(p, y) /\ x = Successor(y)
      BY <2>3, <2>4, <2>9 DEF AtTurn, Punching
    <3>5. IF q.pc = "FINISH" THEN x.what = "end" ELSE Faces(q, x)
      BY <2>1, <2>9, <3>1, <3>3, <3>4, SentFaces
    <3>6. CASE q.pc = "FINISH"
      BY <3>5, <3>6 DEF AtTurn
    <3> QED BY <2>6, <3>2, <3>5, <3>6
  <2>10. CASE p.pc = "TSF" /\ Skips = 0
    <3>1. q = p
      BY <2>1, <2>10, AtTSF
    <3>2. Given /\ Given'
      BY <2>2, <2>10, <3>1 DEF Given
    <3> QED BY <3>1, <3>2 DEF AtTurn
  <2> QED BY <2>1, <2>7, <2>8, <2>9, <2>10
<1> QED BY <1>1, <1>2

-----------------------------------------------------------------------------
(* PUN is called with the character the program faces.                     *)
LEMMA CharSent ==
  ASSUME NEW p, ProgramOK(p), ProgramTyped(p), p.pc = "TLS", p.READST = 255,
         NEW mem, Contains(mem, p), NEW x, Placed(x), Faces(p, x)
  PROVE  x.what # "end" /\ Char(p, mem) = CharOf(x)
<1>1. p.what \in Whats /\ x.what = p.what /\ x.LOC = p.LOC /\ x.sector = Sending(p)
  BY DEF ProgramOK, Punching, Faces
<1>2. /\ mem[p.LSTBUF + p.LOC] = WordAt(x, 1) /\ mem[p.LSTBUF + p.LOC + 1] = WordAt(x, 2)
  BY <1>1, PairSent
<1>3. x.what \in {"sum", "sumhigh"} => p.CHKSUM = x.sum
  <2>1. x.sum \in Word /\ x.sum \in Nat
    BY Ranges DEF Placed, Position
  <2>2. SUFFICES ASSUME x.what \in {"sum", "sumhigh"} PROVE p.CHKSUM = x.sum
    OBVIOUS
  <2>3. Ahead(x) = 0
    BY <2>2 DEF Ahead
  <2>4. p.CHKSUM = Added(x.sum, 0)
    BY <2>3 DEF Faces
  <2> QED BY <2>1, <2>4, Sums
<1> QED BY <1>1, <1>2, <1>3 DEF Char, CharOf, Whats

(* Only TLS gives the line a character; the transmitter passes it on.      *)
LEMMA LineKept ==
  ASSUME TransmitterOK, Transmit
  PROVE  Line' = Line
<1>1. CASE Start
  <2>1. Held /\ Held' /\ tty' = tty /\ tx'.tto = tx.tto
    BY <1>1 DEF Start, Held, TransmitterOK
  <2> QED BY <2>1 DEF Line
<1>2. CASE Send
  <2>1. Held /\ ~Held' /\ tty' = Append(tty, tx.tto)
    BY <1>2 DEF Send, Held, TransmitterOK
  <2> QED BY <2>1 DEF Line
<1>3. CASE Stop
  <2>1. Held' = Held /\ tty' = tty /\ tx'.tto = tx.tto
    BY <1>3 DEF Stop, Held, TransmitterOK
  <2> QED BY <2>1 DEF Line
<1> QED BY <1>1, <1>2, <1>3 DEF Transmit

(* A character is loaded only when none waits or is being sent.            *)
LEMMA LineOnEdge ==
  ASSUME Machine, NEW done, NEW rxd, Edge(done, rxd)
  PROVE  IF cpu.state = "F1" /\ prog.pc = "TLS"
         THEN Line' = Append(Line, Char(prog, memory)) /\ ~Halted(prog) /\ prog' = prog
              /\ Obeyed'
         ELSE Line' = Line
<1>1. CASE cpu.state # "F1"
  <2>1. tx' = tx /\ tty' = tty
    BY <1>1 DEF Edge, RunsIOT
  <2> QED BY <1>1, <2>1 DEF Line, Held
<1>2. CASE cpu.state = "F1"
  <2> DEFINE iot == IOTOf(prog)
             ac == ACOf(prog, memory)
  <2>1. SerialIOT(iot, ac) /\ TransmitterOK /\ Ready /\ ProgramOK(prog) /\ ~Halted(prog)
    BY <1>2 DEF Edge, RunsIOT, Machine, DumpInv, ProcessorOK
  <2>2. iot = "TLS" <=> prog.pc = "TLS"
    BY <2>1, SerialIOTs
  <2>3. prog' = prog /\ cpu'.state = "F3"
    BY <1>2, Edges DEF OnEdge, Obeying, Advancing, Passing
  <2>4. prog.pc = "TLS" => Accepts /\ ac = Char(prog, memory)
    BY <1>2, <2>1 DEF Ready, ACOf
  <2> HIDE DEF iot, ac
  <2>5. CASE prog.pc = "TLS"
    <3>1. tty' = tty /\ tx'.tto = ac /\ tx'.loaded = 1 /\ ~Held
      BY <2>1, <2>2, <2>4, <2>5 DEF SerialIOT, TransmitterOK, Accepts, Held
    <3>2. Line' = Append(tty, ac) /\ Line = tty
      BY <3>1 DEF Line, Held
    <3> QED BY <1>2, <2>1, <2>3, <2>4, <2>5, <3>2 DEF Obeyed
  <2>6. CASE prog.pc # "TLS"
    <3>1. tty' = tty /\ tx'.tto = tx.tto /\ tx'.loaded = tx.loaded /\ tx'.state = tx.state
      BY <2>1, <2>2, <2>6 DEF SerialIOT, TransmitterOK
    <3> QED BY <2>6, <3>1 DEF Line, Held
  <2> QED BY <2>5, <2>6
<1> QED BY <1>1, <1>2

-----------------------------------------------------------------------------
(* Nothing sent and nothing taken: the characters lead where they led.     *)
LEMMA ChainKept ==
  ASSUME Line' = Line, rx' = rx, oct' = oct, Led, \A x : Placed(x) /\ AtTurn(x) => AtTurn(x)'
  PROVE  Led'
<1>1. PICK f \in [0..Len(Line) -> Position] : Leads(f)
  BY DEF Led
<1>2. PICK x : x = f[Len(Line)]
  OBVIOUS
<1>3. AtTurn(x)'
  BY <1>1, <1>2 DEF Leads
<1>4. Leads(f)'
  BY <1>1, <1>2, <1>3 DEF Leads
<1> QED BY <1>4 DEF Led

(* The program sends a character: one position more.                       *)
LEMMA ChainGrows ==
  ASSUME NEW octet, Line \in Seq(Octet), Line' = Append(Line, octet), rx' = rx, oct' = oct,
         NEW f \in [0..Len(Line) -> Position], Leads(f),
         NEW x, x = f[Len(Line)], x.what # "end", octet = CharOf(x), AtTurn(Successor(x))'
  PROVE  Led'
<1> DEFINE n == Len(Line)
           y == Successor(x)
           g == [i \in 0..(n + 1) |-> IF i <= n THEN f[i] ELSE y]
<1>1. n \in Nat /\ Len(Line)' = n + 1
  OBVIOUS
<1>2. Placed(x) /\ Placed(y) /\ y \in Position
  BY Succeeds DEF Leads, Placed
<1>3. g \in [0..(n + 1) -> Position]
  BY <1>1, <1>2
<1>4. g[n + 1] = y /\ g[0] = f[0] /\ \A i \in 0..n : g[i] = f[i]
  BY <1>1
<1>5. ASSUME NEW i \in 0..n
      PROVE  /\ Placed(g[i]) /\ g[i].what # "end"
             /\ Line'[i + 1] = CharOf(g[i]) /\ g[i + 1] = Successor(g[i])
  <2>1. CASE i = n
    <3>1. g[i] = x /\ g[i + 1] = y
      BY <1>1, <1>4, <2>1
    <3>2. Line'[i + 1] = octet
      BY <1>1, <2>1
    <3> HIDE DEF g
    <3> QED BY <1>2, <3>1, <3>2
  <2>2. CASE i # n
    <3>1. i \in 0..(n - 1) /\ i + 1 \in 0..n
      BY <1>1, <2>2
    <3>2. g[i] = f[i] /\ g[i + 1] = f[i + 1]
      BY <1>4, <3>1
    <3>3. Line'[i + 1] = Line[i + 1]
      BY <1>1, <3>1
    <3> HIDE DEF g
    <3> QED BY <3>1, <3>2, <3>3 DEF Leads
  <2> QED BY <2>1, <2>2
<1> HIDE DEF g, y
<1>6. AtTurn(y)'
  BY DEF y
<1>7. (n + 1) - 1 = n
  BY <1>1
<1>8. PICK h \in [0..(n + 1) -> Position] : h = g
  BY <1>3
<1>9. PICK m \in Nat : m = n
  BY <1>1
<1>10. PICK z : z = y
  OBVIOUS
<1>11. AtTurn(z)'
  BY <1>6, <1>10
<1>12. Leads(h)'
  BY <1>1, <1>2, <1>4, <1>5, <1>7, <1>8, <1>10, <1>11 DEF Leads
<1> QED BY <1>1, <1>8, <1>12 DEF Led

(* The host takes a character: one position less.                          *)
LEMMA ChainShrinks ==
  ASSUME Line \in Seq(Octet), Line # <<>>, Line' = Tail(Line), Receive(Line[1]),
         NEW f \in [0..Len(Line) -> Position], Leads(f), \A x : AtTurn(x) => AtTurn(x)'
  PROVE  /\ Led'
         /\ Placed(f[0]) /\ f[0].what # "end" /\ rx.ended = "no" /\ Writes(rx, f[0])
         /\ rx' = Received(rx, CharOf(f[0])) /\ Writes(rx', Successor(f[0]))
         /\ Prints(oct', Successor(f[0]))
<1> DEFINE n == Len(Line)
<1>1. n \in Nat /\ n > 0 /\ Len(Line)' = n - 1
  OBVIOUS
<1>2. 0 \in 0..(n - 1) /\ 0 + 1 = 1
  BY <1>1
<1>3. /\ Placed(f[0]) /\ f[0].what # "end" /\ Line[1] = CharOf(f[0]) /\ f[1] = Successor(f[0])
      /\ Writes(rx, f[0]) /\ Prints(oct, f[0])
  BY <1>2 DEF Leads
<1>4. rx.ended = "no"
  BY <1>3 DEF Writes
<1>5. rx' = Received(rx, CharOf(f[0])) /\ oct' = IF oct.ended THEN oct ELSE Converted(oct, CharOf(f[0]))
  BY <1>3, <1>4 DEF Receive
<1>6. Writes(rx', f[1]) /\ Prints(oct', f[1])
  <2>1. Writes(Received(rx, CharOf(f[0])), Successor(f[0]))
    BY <1>3, HostWrites
  <2>2. Prints(IF oct.ended THEN oct ELSE Converted(oct, CharOf(f[0])), Successor(f[0]))
    BY <1>3, HostPrints
  <2> QED BY <1>3, <1>5, <2>1, <2>2
<1> DEFINE g == [i \in 0..(n - 1) |-> f[i + 1]]
<1>7. g \in [0..(n - 1) -> Position] /\ \A i \in 0..(n - 1) : g[i] = f[i + 1]
  BY <1>1
<1>8. g[0] = f[1] /\ g[n - 1] = f[n]
  <2>1. n - 1 \in 0..(n - 1) /\ (n - 1) + 1 = n
    BY <1>1
  <2> HIDE DEF g, n
  <2> QED BY <1>2, <1>7, <2>1
<1> HIDE DEF g
<1>9. ASSUME NEW i \in 0..(n - 1 - 1)
      PROVE  /\ Placed(g[i]) /\ g[i].what # "end"
             /\ Line'[i + 1] = CharOf(g[i]) /\ g[i + 1] = Successor(g[i])
  <2>1. i \in 0..(n - 1) /\ i + 1 \in 0..(n - 1) /\ Line'[i + 1] = Line[(i + 1) + 1]
    BY <1>1
  <2>2. g[i] = f[i + 1] /\ g[i + 1] = f[(i + 1) + 1]
    BY <1>7, <2>1
  <2> QED BY <2>1, <2>2 DEF Leads
<1>10. Placed(f[n]) /\ AtTurn(f[n])
  BY DEF Leads
<1>11. PICK h, z, z0 : h \in [0..(n - 1) -> Position] /\ h = g /\ z = f[n] /\ z0 = f[1]
  BY <1>7
<1>12. AtTurn(z)'
  BY <1>10, <1>11
<1>13. Leads(h)'
  BY <1>1, <1>6, <1>8, <1>9, <1>10, <1>11, <1>12 DEF Leads
<1>14. Led'
  BY <1>1, <1>11, <1>13 DEF Led
<1> QED BY <1>3, <1>4, <1>5, <1>6, <1>14

-----------------------------------------------------------------------------
(* What the processor does not touch is as settled and stored as before.   *)
LEMMA Beside ==
  ASSUME UNCHANGED <<sd, rk, card, cpu, memory, mem2disk, prog>>
  PROVE  /\ Settled' = Settled /\ Stored' = Stored /\ IsJob(prog)' = IsJob(prog)
         /\ \A x : AtTurn(x)' = AtTurn(x)
<1>1. /\ sd' = sd /\ rk' = rk /\ cpu' = cpu /\ memory' = memory /\ prog' = prog
  OBVIOUS
<1>2. Quiet' = Quiet /\ Issued' = Issued /\ Failed' = Failed /\ Obeyed' = Obeyed
  BY <1>1 DEF Quiet, Issued, Failed, Reporting, Reported, Underway, Of, Obeyed, Pipe, Op,
              NoBreak, InBreak
<1>3. Settled' = Settled
  BY <1>1, <1>2 DEF Settled
<1>4. Stored' = Stored
  BY <1>1 DEF Stored, Buffered, Holds
<1>5. \A x : AtTurn(x)' = AtTurn(x)
  BY <1>1, <1>2 DEF AtTurn, Given
<1> QED BY <1>1, <1>3, <1>4, <1>5

(* A job stays one.                                                        *)
LEMMA SameProgram ==
  ASSUME Machine, NEW done, NEW rxd, OnEdge(done, rxd)
  PROVE  IsJob(prog)' <=> IsJob(prog)
<1>1. CASE prog' = prog
  BY <1>1
<1>2. CASE Advancing /\ IsJob(prog)
  <2>1. Follows(prog, prog', Skips, rk.disk_bus) /\ ~Halted(prog) /\ Skips \in {0, 1}
    BY <1>2 DEF Advancing, Skips, Machine, DumpInv, TransmitterOK, RKRegisters, Bit
  <2>2. prog.pc \in Writing
    BY <1>2, <2>1 DEF IsJob, Halted
  <2>3. prog'.pc \in Writing \cup {"W-error", "W-finished"}
    BY <2>1, <2>2 DEF Follows, Waits, Writing, Sequence
  <2> QED BY <1>2, <2>3 DEF IsJob
<1>3. CASE Advancing /\ ~IsJob(prog)
  BY <1>3, JobStays
<1> QED BY <1>1, <1>2, <1>3 DEF OnEdge, Obeying, Passing

(* The chain along an edge of the clock: it grows at TLS.                  *)
LEMMA LedOnEdge ==
  ASSUME Machine, Phases, Line \in Seq(Octet), ~IsJob(prog), Settled, Stored, Led,
         NEW done, NEW rxd, Edge(done, rxd)
  PROVE  Led'
<1>1. rx' = rx /\ oct' = oct /\ ProgramOK(prog) /\ ProgramTyped(prog)
  BY Advances
<1>2. CASE ~(cpu.state = "F1" /\ prog.pc = "TLS")
  <2>1. Line' = Line
    BY <1>2, LineOnEdge
  <2>2. \A x : Placed(x) /\ AtTurn(x) => AtTurn(x)'
    BY <1>2, TurnKept
  <2> QED BY <1>1, <2>1, <2>2, ChainKept
<1>3. CASE cpu.state = "F1" /\ prog.pc = "TLS"
  <2>1. PICK octet : octet = Char(prog, memory)
    OBVIOUS
  <2>2. Line' = Append(Line, octet) /\ prog' = prog /\ Obeyed'
    BY <1>3, <2>1, LineOnEdge
  <2>3. PICK f \in [0..Len(Line) -> Position] : Leads(f)
    BY DEF Led
  <2>4. PICK x : x = f[Len(Line)]
    OBVIOUS
  <2>5. Placed(x) /\ AtTurn(x)
    BY <2>3, <2>4 DEF Leads
  <2>6. Faces(prog, x)
    BY <1>3, <2>5 DEF AtTurn, Given, Obeyed
  <2>7. Contains(memory, prog)
    BY <1>3 DEF Stored, Buffered, Holds, Contains, Punching
  <2>8. x.what # "end" /\ octet = CharOf(x)
    BY <1>1, <1>3, <2>1, <2>5, <2>6, <2>7, CharSent DEF Settled
  <2>9. AtTurn(Successor(x))'
    <3>1. prog'.pc = "TLS" /\ Obeyed' /\ Placed(x) /\ Faces(prog', x)
      BY <1>3, <2>2, <2>5, <2>6
    <3> QED BY <3>1 DEF AtTurn, Given
  <2> QED BY <1>1, <2>2, <2>3, <2>4, <2>8, <2>9, ChainGrows
<1> QED BY <1>2, <1>3

(* The line holds characters, the first of them the one the host reads.    *)
LEMMA LineType ==
  ASSUME CharactersOK
  PROVE  /\ Line \in Seq(Octet)
         /\ tty # <<>> => /\ Line # <<>> /\ Line[1] = Head(tty)
                          /\ tx' = tx /\ tty' = Tail(tty) => Line' = Tail(Line)
<1>1. tty \in Seq(Octet) /\ tx.tto \in Octet
  BY DEF CharactersOK
<1>2. CASE ~Held
  <2>1. Line = tty
    BY <1>2 DEF Line
  <2>2. tx' = tx => ~Held'
    BY <1>2 DEF Held
  <2>3. tx' = tx => Line' = tty'
    BY <2>2 DEF Line
  <2>4. tty # <<>> => tty[1] = Head(tty)
    BY <1>1
  <2> QED BY <1>1, <2>1, <2>3, <2>4
<1>3. CASE Held
  <2>1. Line = Append(tty, tx.tto)
    BY <1>3 DEF Line
  <2>2. tx' = tx => Line' = Append(tty', tx.tto)
    BY <1>3 DEF Line, Held
  <2>3. tty # <<>> => Tail(Append(tty, tx.tto)) = Append(Tail(tty), tx.tto)
    BY <1>1
  <2>4. Append(tty, tx.tto) \in Seq(Octet) /\ Append(tty, tx.tto) # <<>>
    BY <1>1
  <2>5. tty # <<>> => Append(tty, tx.tto)[1] = Head(tty)
    BY <1>1
  <2> QED BY <2>1, <2>2, <2>3, <2>4, <2>5
<1> QED BY <1>2, <1>3

-----------------------------------------------------------------------------
(* Where a word counted through the disk lies.                             *)
LEMMA Located ==
  ASSUME NEW w \in Nat, 0 < w, NEW m \in Nat, NEW n \in Nat, n < m * w
  PROVE  \E s \in Nat, j \in Nat : s < m /\ j < w /\ n = s * w + j
<1>1. PICK s \in Nat, j \in Nat : s = n \div w /\ j = n % w /\ j < w /\ n = s * w + j
  OBVIOUS
<1>2. CASE s = m
  <2>1. s * w \in Nat /\ s * w = m * w
    BY <1>2
  <2> QED BY <1>1, <2>1
<1>3. CASE m < s
  <2>1. m * w + w <= s * w /\ m * w \in Nat /\ s * w \in Nat
    BY <1>3, Sectored
  <2> QED BY <1>1, <2>1
<1> QED BY <1>1, <1>2, <1>3

(* The whole disk, in order.                                               *)
LEMMA DiskSeq ==
  /\ Sectors * Words \in Nat /\ Len(WholeDisk) = Sectors * Words
  /\ WholeDisk \in Seq(Word)
<1>1. Sectors \in Nat /\ Words \in Nat /\ 0 < Words
  BY Constants DEF Sectors
<1>2. Sectors * Words \in Nat
  BY <1>1
<1>3. ASSUME NEW i \in 1..(Sectors * Words) PROVE WholeDisk[i] \in Word
  <2>1. PICK n \in Nat : i = n + 1 /\ n < Sectors * Words
    <3>1. i - 1 \in Nat /\ i = (i - 1) + 1 /\ i - 1 < Sectors * Words
      BY <1>2
    <3> QED BY <3>1
  <2>2. PICK s \in Nat, j \in Nat : s < Sectors /\ j < Words /\ n = s * Words + j
    BY <1>1, <2>1, Located
  <2>3. WholeDisk[s * Words + j + 1] \in Word
    BY <2>2, DiskWords
  <2> QED BY <2>1, <2>2, <2>3
<1> DEFINE n == Sectors * Words
<1>4. \A i \in 1..n : WholeDisk[i] \in Word
  BY <1>3
<1>5. WholeDisk = [i \in 1..n |-> WholeDisk[i]]
  BY DEF WholeDisk
<1> QED BY <1>2, <1>4, <1>5

(* Two copies that are as long are the same.                               *)
LEMMA SameCopies ==
  ASSUME NEW out, NEW printed, NEW k, CopiedTo(out, k), CopiedTo(printed, k)
  PROVE  out = printed
<1>1. /\ out \in Seq(Word) /\ printed \in Seq(Word) /\ Len(out) = Len(printed)
      /\ \A i \in 1..Len(out) : out[i] = printed[i]
  BY DEF CopiedTo
<1> QED BY <1>1

(* A copy as long as the disk is all of it.                                *)
LEMMA WholeCopy ==
  ASSUME NEW out, CopiedTo(out, Sectors * Words)
  PROVE  out = WholeDisk
<1>1. /\ out \in Seq(Word) /\ Len(out) = Sectors * Words
      /\ \A i \in 1..(Sectors * Words) : out[i] = WholeDisk[i]
  BY DEF CopiedTo
<1> QED BY <1>1, DiskSeq

-----------------------------------------------------------------------------
(* An edge of the clock keeps CopyInv, and has no part in the host.        *)
LEMMA CopyEdge ==
  ASSUME TransferInv, CharactersOK, CopyInv, NEW done, NEW rxd, Edge(done, rxd),
         done = 1 => NoBreak, sd.CS = 1 => rxd = "ff"
  PROVE  CopyInv' /\ rx' = rx /\ oct' = oct
<1>1. /\ Machine /\ CardOK /\ SetUp /\ Phases /\ ReadInv /\ WriteInv /\ SentInv /\ Arrived
      /\ Copying /\ Idle
  BY DEF TransferInv, CopyInv
<1>2. OnEdge(done, rxd) /\ Line \in Seq(Octet) /\ rx' = rx /\ oct' = oct
  BY <1>1, Edges, LineType, Advances
<1>3. Steps
  BY <1>1, <1>2, WordsStep
<1>4. CASE ~IsJob(prog)
  <2>1. Settled /\ Stored /\ Led
    BY <1>1, <1>4 DEF Copying
  <2>2. Settled'
    BY <1>1, <1>4, <2>1, SettledStep
  <2>3. Stored'
    BY <1>1, <1>3, <1>4, <2>1, StoredStep
  <2>4. Led'
    BY <1>1, <1>2, <1>4, <2>1, LedOnEdge
  <2>5. ~IsJob(prog)'
    BY <1>1, <1>2, <1>4, SameProgram
  <2> QED BY <1>2, <2>2, <2>3, <2>4, <2>5 DEF CopyInv, Copying, Idle
<1>5. CASE IsJob(prog)
  <2>1. IsJob(prog)'
    BY <1>1, <1>2, <1>5, SameProgram
  <2>2. prog.pc # "TLS"
    BY <1>5 DEF IsJob, Writing
  <2>3. Line' = Line
    BY <1>1, <2>2, LineOnEdge
  <2>4. Idle'
    BY <1>1, <1>2, <1>5, <2>3 DEF Idle
  <2> QED BY <1>2, <2>1, <2>4 DEF CopyInv, Copying
<1> QED BY <1>4, <1>5

(* What the host does with a character: it writes the disk's next word, or *)
(* finds the copy complete.                                                *)
LEMMA CopyArrive ==
  ASSUME TransferInv, CharactersOK, CopyInv, Arrive
  PROVE  CopyInv' /\ [Copy_!Next]_<<rx.out, Outcome>>
<1>1. UNCHANGED <<sd, rk, card, cpu, memory, mem2disk, prog>>
  BY DEF Arrive
<1>2. tx' = tx /\ tty # <<>> /\ tty' = Tail(tty) /\ Receive(Head(tty))
  BY DEF Arrive
<1>3. Line \in Seq(Octet) /\ Line # <<>> /\ Line[1] = Head(tty) /\ Line' = Tail(Line)
  BY <1>2, LineType
<1>4. ~IsJob(prog) /\ Settled /\ Stored /\ Led
  BY <1>3 DEF CopyInv, Copying, Idle
<1>5. ~IsJob(prog)' /\ Settled' /\ Stored' /\ \A x : AtTurn(x) => AtTurn(x)'
  BY <1>1, <1>4, Beside
<1>6. PICK f \in [0..Len(Line) -> Position] : Leads(f)
  BY <1>4 DEF Led
<1>7. Receive(Line[1])
  BY <1>2, <1>3
<1>8. /\ Led' /\ Placed(f[0]) /\ f[0].what # "end" /\ rx.ended = "no" /\ Writes(rx, f[0])
      /\ rx' = Received(rx, CharOf(f[0])) /\ Writes(rx', Successor(f[0]))
  BY <1>3, <1>5, <1>6, <1>7, ChainShrinks
<1>9. PICK x : x = f[0]
  OBVIOUS
<1>10. Len(rx.out) = Earlier(x) /\ CopiedTo(rx.out, Earlier(x))
  BY <1>8, <1>9 DEF Writes, CopiedTo
<1>11. Sectors * Words \in Nat /\ Len(WholeDisk) = Sectors * Words /\ WholeDisk \in Seq(Word)
  BY DiskSeq
<1>12. Outcome = "copying"
  BY <1>8 DEF Outcome
<1>13. rx'.ended = IF Successor(x).what = "end" THEN "Done" ELSE "no"
  BY <1>8, <1>9 DEF Writes
<1>14. [Copy_!Next]_<<rx.out, Outcome>>
  <2>1. CASE x.what \in {"mid", "high"}
    <3>1. rx'.out = Append(rx.out, WholeDisk[Len(rx.out) + 1])
      BY <1>8, <1>9, <2>1, HostWrites
    <3>2. Len(rx.out) < Sectors * Words
      <4>1. Earlier(x) + 1 \in 1..(Sectors * Words)
        BY <1>8, <1>9, <2>1, Counted
      <4> QED BY <1>10, <1>11, <4>1
    <3>3. Successor(x).what # "end"
      BY <2>1 DEF Successor, NextPair, Place
    <3>4. Outcome' = "copying"
      BY <1>13, <3>3 DEF Outcome
    <3> QED BY <1>11, <1>12, <3>1, <3>2, <3>4 DEF Copy_!Next, Copy_!Copy
  <2>2. CASE x.what \notin {"mid", "high"}
    <3>1. rx'.out = rx.out
      BY <1>8, <1>9, <2>2, HostWrites
    <3>2. CASE x.what = "sumhigh"
      <4>1. Earlier(x) = Sectors * Words
        BY <1>8, <1>9, <3>2, Counted
      <4>2. rx.out = WholeDisk
        BY <1>10, <1>11, <4>1, WholeCopy
      <4>3. Successor(x).what = "end"
        BY <3>2 DEF Successor, Onto, Place
      <4>4. Outcome' = "done"
        BY <1>13, <4>3 DEF Outcome
      <4> QED BY <1>12, <3>1, <4>2, <4>4 DEF Copy_!Next, Copy_!Complete
    <3>3. CASE x.what # "sumhigh"
      <4>1. Successor(x).what # "end"
        BY <1>8, <1>9, <2>2, <3>3 DEF Successor, Onto, Place, Placed, Position, Whats
      <4>2. Outcome' = "copying"
        BY <1>13, <4>1 DEF Outcome
      <4> QED BY <1>12, <3>1, <4>2
    <3> QED BY <3>2, <3>3
  <2> QED BY <2>1, <2>2
<1>15. CopyInv'
  BY <1>5, <1>8 DEF CopyInv, Copying, Idle
<1> QED BY <1>14, <1>15

(* Every step keeps the chain, and is one of DiskCopy or none.             *)
LEMMA CopyStep ==
  TransferInv /\ CharactersOK /\ CopyInv /\ [Next]_vars =>
    CopyInv' /\ [Copy_!Next]_<<rx.out, Outcome>>
<1> SUFFICES ASSUME TransferInv, CharactersOK, CopyInv, [Next]_vars
             PROVE  CopyInv' /\ [Copy_!Next]_<<rx.out, Outcome>>
  OBVIOUS
<1>1. rx' = rx => [Copy_!Next]_<<rx.out, Outcome>>
  BY DEF Outcome
<1>2. CASE Clock
  BY <1>1, <1>2, CopyEdge DEF Clock
<1>3. CASE ByteExchanged
  <2>1. PICK rxd \in Answers : Edge(1, rxd)
    BY <1>3 DEF ByteExchanged
  <2>2. NoBreak
    BY <1>3 DEF ByteExchanged, Exchange, BreaksInTime, NoBreak, InBreak
  <2>3. sd.CS = 1 => rxd = "ff"
    BY <2>1 DEF Answers
  <2> QED BY <1>1, <2>1, <2>2, <2>3, CopyEdge
<1>4. CASE Arrive
  BY <1>4, CopyArrive
<1>5. CASE Transmit \/ UNCHANGED vars
  <2>1. UNCHANGED <<sd, rk, card, cpu, memory, mem2disk, prog>> /\ rx' = rx /\ oct' = oct
    BY <1>5 DEF Transmit, vars
  <2>2. TransmitterOK
    BY DEF TransferInv, Machine, DumpInv
  <2>3. CASE Transmit
    <3>1. Line' = Line
      BY <2>2, <2>3, LineKept
    <3>2. Led => Led'
      BY <2>1, <3>1, Beside, ChainKept
    <3> QED BY <1>1, <2>1, <3>1, <3>2, Beside DEF CopyInv, Copying, Idle
  <2>4. CASE UNCHANGED vars
    <3>1. Line' = Line
      BY <2>4 DEF vars, Line, Held
    <3>2. Led => Led'
      BY <2>1, <3>1, Beside, ChainKept
    <3> QED BY <1>1, <2>1, <3>1, <3>2, Beside DEF CopyInv, Copying, Idle
  <2> QED BY <1>5, <2>3, <2>4
<1> QED BY <1>2, <1>3, <1>4, <1>5 DEF Next

(* At power up nothing is on its way, and nothing copied.                  *)
LEMMA CopyInit == Init => CopyInv
<1> SUFFICES ASSUME Init PROVE CopyInv
  OBVIOUS
<1>1. /\ tx = TXIdle /\ tty = <<>> /\ rx = Receiving /\ oct = Converting
      /\ cpu.state = "F0" /\ prog \in {Dump} \cup {WriteSector(job) : job \in Jobs}
  BY DEF Init
<1>2. Line = <<>>
  BY <1>1 DEF Line, Held, TXIdle
<1>3. CASE prog # Dump
  <2>1. PICK job \in Jobs : prog = WriteSector(job)
    BY <1>1, <1>3
  <2>2. prog.pc = "W1"
    BY <2>1 DEF WriteSector, Dump
  <2> QED BY <1>1, <1>2, <2>2 DEF CopyInv, Copying, Idle, IsJob, Writing
<1>4. CASE prog = Dump
  <2>1. /\ prog.pc = "CAF" /\ prog.READST = 255 /\ prog.then = "-" /\ prog.CHKSUM = 0
        /\ prog.EXBIT = 0 /\ prog.TRACK = 0
    BY <1>4 DEF Dump
  <2>2. ~IsJob(prog) /\ Settled
    BY <2>1 DEF IsJob, Writing, Settled, Reading, Recalibrating, Issued, Of
  <2>3. ~Buffered /\ ~Behind(prog) /\ prog.pc \notin Punching
    BY <2>1 DEF Buffered, Behind, Punching
  <2>4. Stored
    BY <2>3 DEF Stored
  <2>5. Words \in Nat /\ 2 <= Words /\ TRACKSIZE \in Nat /\ Sectors \in Nat /\ 0 < Sectors
    BY Constants DEF Sectors
  <2>6. 0 \in Word
    BY Ranges
  <2> DEFINE x == Place(0, 0, "flag", 0)
  <2>7. x.sector = 0 /\ x.LOC = 0 /\ x.what = "flag" /\ x.sum = 0 /\ x \in Position
    BY <2>5, <2>6 DEF Place, Position, Whats
  <2>8. Earlier(x) = 0
    <3>1. 0 * Words = 0
      BY <2>5
    <3> HIDE DEF x
    <3> QED BY <2>7, <3>1 DEF Earlier
  <2>9. Sending(prog) = 0
    <3>1. 0 * TRACKSIZE + 0 = 0
      BY <2>5
    <3> QED BY <2>1, <2>3, <3>1 DEF Sending, Index
  <2>10. Added(0, 0) = 0
    BY <2>6, Sums
  <2> HIDE DEF x
  <2>11. Placed(x)
    BY <2>5, <2>7 DEF Placed
  <2>12. Faces(prog, x)
    <3>1. Ahead(x) = 0
      BY <2>7 DEF Ahead
    <3> QED BY <2>1, <2>3, <2>7, <2>9, <2>10, <3>1 DEF Faces
  <2>13. AtTurn(x)
    BY <2>1, <2>12 DEF AtTurn, Given
  <2>14. Writes(rx, x)
    BY <1>1, <2>7, <2>8, <2>10 DEF Writes, Receiving, ReceiverFields, CopiedTo
  <2>15. Prints(oct, x)
    BY <1>1, <2>7, <2>8 DEF Prints, Converting, ConverterFields, CopiedTo
  <2> DEFINE f == [i \in 0..0 |-> x]
  <2>16. f \in [0..Len(Line) -> Position] /\ f[0] = x /\ Len(Line) = 0
    BY <1>2, <2>7
  <2> HIDE DEF f
  <2>17. Leads(f)
    BY <2>11, <2>13, <2>14, <2>15, <2>16 DEF Leads
  <2>18. Led
    BY <2>16, <2>17 DEF Led
  <2> QED BY <2>2, <2>4, <2>18 DEF CopyInv, Copying, Idle
<1> QED BY <1>3, <1>4

(* Program, line and host know of each other what CopyInv says.            *)
LEMMA ChainHolds == Spec => [](TransferInv /\ CharactersOK /\ CopyInv)
<1>1. Spec => []TransferInv
  BY TransfersUnderstood
<1> QED BY <1>1, CharactersInit, CharactersStep, CopyInit, CopyStep, PTL DEF Spec

(* dumprk05.c and hex2oct -3 make the same words of the same characters    *)
(* (dumprk05.c:87, hex2oct.c:99), at every moment of every dump.           *)
THEOREM SameWords == Spec => []DecodersAgree
<1>1. CopyInv => DecodersAgree
  <2> SUFFICES ASSUME CopyInv PROVE oct.printed = rx.out
    BY DEF DecodersAgree
  <2>1. CASE IsJob(prog)
    BY <2>1 DEF CopyInv, Idle, Receiving, Converting
  <2>2. CASE ~IsJob(prog)
    <3>1. PICK f \in [0..Len(Line) -> Position] : Leads(f)
      BY <2>2 DEF CopyInv, Copying, Led
    <3>2. PICK k : CopiedTo(rx.out, k) /\ CopiedTo(oct.printed, k)
      BY <3>1 DEF Leads, Writes, Prints
    <3> QED BY <3>2, SameCopies
  <2> QED BY <2>1, <2>2
<1> QED BY <1>1, ChainHolds, PTL

(* Whatever the card answers, and however fast processor, disk, line and   *)
(* host are, what dumprk05.c writes is the disk, word for word from the    *)
(* first, and it says Done (dumprk05.c:100) exactly when it has written    *)
(* all of it.                                                              *)
THEOREM DumpCopiesDisk == Spec => ImplementsDiskCopy
<1>1. Init => Copy_!Init
  BY DEF Init, Copy_!Init, Receiving, Outcome
<1>2. TransferInv /\ CharactersOK /\ CopyInv /\ [Next]_vars => [Copy_!Next]_<<rx.out, Outcome>>
  BY CopyStep
<1> QED BY <1>1, <1>2, ChainHolds, PTL DEF Spec, ImplementsDiskCopy, Copy_!Spec

-----------------------------------------------------------------------------
(* A failed read is told for ever.  The program of a dump recalibrates     *)
(* before its first read, with success, and after a failed one in vain.    *)
Lost == sd.sdSTATE = "RWFAIL"

FailureIsFinal == [][Lost => Lost']_vars

Verdict ==
  /\ ~IsJob(prog) => /\ prog.READST = 255
                     /\ prog.pc = "BADSTA" => Lost
  /\ prog.pc \in {"FINISH", "W-finished"} => ~Lost

RecalDone ==
  ~IsJob(prog) /\ ~Failed =>
    /\ prog.pc # "BADSTA"
    /\ Of({"RC4", "RC5", "RC6"}) \/ (Of({"RC3"}) /\ Obeyed) => rk.status = {"done"}
    /\ Of({"RC7"}) => IF Obeyed THEN rk.disk_bus = {"done"} ELSE rk.status = {"done"}

LEMMA LostIsFailed == ASSUME Phases PROVE Lost <=> Failed
  BY DEF Lost, Phases, Quiet, Starting, Running, Ending, Failed, Reporting, Reported, Pipe, Op

(* RECAL's second DLDC asks for the done flag at once (rk8e.sv, DLDC).     *)
LEMMA RecalAnswered ==
  ASSUME Machine, NEW done, NEW rxd, Edge(done, rxd), cpu.state = "F1", prog.pc = "RC5"
  PROVE  rk'.status = {"done"}
<1>1. IOTOf(prog) = "DLDC" /\ ACOf(prog, memory) = 128
  BY DEF IOTOf, ACOf
<1>2. RKEdge("F1", "DLDC", 128)
  BY <1>1 DEF Edge
<1>3. 128 \in Word /\ Bit4(128) = 1
  BY Ranges DEF Bit4
<1> QED BY <1>2, <1>3, Obeys DEF Machine

LEMMA RecalDoneStep ==
  ASSUME Machine, CardOK, SetUp, Phases, ReadInv, ~IsJob(prog), Settled, RecalDone,
         NEW done, NEW rxd, Edge(done, rxd), done = 1 => NoBreak, sd.CS = 1 => rxd = "ff"
  PROVE  RecalDone'
<1> DEFINE p == prog
           q == prog'
           Of_(pcs) == q.pc \in pcs
<1>1. OnEdge(done, rxd)
  BY Edges
<1>2. Failed => Failed'
  BY <1>1, PhaseStep
<1> SUFFICES ASSUME ~Failed', q.pc \in Recalibrating \cup {"BADSTA"}
             PROVE  /\ q.pc # "BADSTA"
                    /\ Of_({"RC4", "RC5", "RC6"}) \/ (Of_({"RC3"}) /\ Obeyed')
                         => rk'.status = {"done"}
                    /\ Of_({"RC7"}) => IF Obeyed' THEN rk'.disk_bus = {"done"}
                                       ELSE rk'.status = {"done"}
  BY DEF RecalDone, Of, Recalibrating
<1>3. ~Failed
  BY <1>2
<1>4. /\ p.pc # "BADSTA"
      /\ p.pc \in {"RC4", "RC5", "RC6"} \/ (p.pc = "RC3" /\ Obeyed) => rk.status = {"done"}
      /\ p.pc = "RC7" => IF Obeyed THEN rk.disk_bus = {"done"} ELSE rk.status = {"done"}
  BY <1>3 DEF RecalDone, Of
<1>5. p.pc \in Recalibrating => ClockedStatus = rk.status
  <2>1. p.pc \in Recalibrating => ~Issued
    BY DEF Issued, Of, Recalibrating
  <2> QED BY <1>3, <2>1, Idling, QuietRegisters
<1>6. CASE Obeying
  <2>1. q = p /\ ~Obeyed /\ Obeyed' /\ p.pc \in Recalibrating
    BY <1>4, <1>6 DEF Obeying, Obeyed
  <2>2. p.pc = "RC5" => rk'.status = {"done"}
    BY <1>6, RecalAnswered DEF Obeying
  <2>3. /\ p.pc = "RC3" => rk'.status = {"done"}
        /\ p.pc \in {"RC4", "RC6"} => rk'.status = ClockedStatus
        /\ p.pc = "RC7" => rk'.disk_bus = rk.status
    BY <1>6 DEF Obeying, Of, Plain
  <2> QED BY <1>4, <1>5, <2>1, <2>2, <2>3 DEF Recalibrating
<1>7. CASE Passing
  <2>1. q = p /\ ~Obeyed /\ ~Obeyed' /\ p.pc \in Recalibrating /\ rk'.status = ClockedStatus
    BY <1>4, <1>7 DEF Passing, Obeyed, Plain
  <2> QED BY <1>4, <1>5, <2>1 DEF Recalibrating
<1>8. CASE Advancing
  <2>1. /\ Obeyed /\ ~Obeyed' /\ rk'.status = ClockedStatus
        /\ Follows(p, q, Skips, rk.disk_bus) /\ ~Halted(p)
    BY <1>8 DEF Advancing, Obeyed, Plain
  <2>2. Skips \in {0, 1} /\ ProgramOK(p)
    BY <2>1, Advances DEF Obeyed
  <2>3. /\ p.pc # "CK3"
        /\ p.pc = "CK2" => rk.disk_bus = {"done"}
    BY <1>3, <2>1 DEF Settled
  <2> HIDE DEF p, q
  <2>4. /\ q.pc # "BADSTA" /\ q.pc \in {"RC4", "RC5", "RC6", "RC7"} =>
             p.pc \in {"RC3", "RC4", "RC5", "RC6"}
        /\ q.pc # "BADSTA"
    BY <1>4, <2>1, <2>2, <2>3
       DEF Follows, Waits, NextSector, ProgramOK, Halted, Recalibrating, Reading, Punching,
           Writing, Final, Sequence
  <2>5. p.pc \in {"RC3", "RC4", "RC5", "RC6"} => rk'.status = {"done"}
    BY <1>4, <1>5, <2>1 DEF Recalibrating
  <2> QED BY <2>1, <2>4, <2>5
<1> QED BY <1>1, <1>6, <1>7, <1>8 DEF OnEdge

(* A read that fails is never made good: sd.sv (line 810) stays in READ02  *)
(* or READ03 and reports RWFAIL for ever, the ABORT of the program's       *)
(* retries notwithstanding.  A dump that meets it never sends the flag of  *)
(* a lossy sector (0xfd) and never finishes; and it stops at BADSTA for no *)
(* other reason, so that without a failure its first RECAL is answered.    *)
THEOREM FailedReadsEndTheDump == Spec => FailureIsFinal /\ []Verdict
<1> DEFINE Chain == TransferInv /\ CharactersOK /\ CopyInv
<1>1. Init => RecalDone
  <2> SUFFICES ASSUME Init, ~IsJob(prog) PROVE prog.pc = "CAF"
    BY DEF RecalDone, Of
  <2>1. prog \in {Dump} \cup {WriteSector(job) : job \in Jobs}
    BY DEF Init
  <2>2. \A job \in Jobs : IsJob(WriteSector(job))
    BY DEF WriteSector, Dump, IsJob, Writing
  <2> QED BY <2>1, <2>2 DEF Dump
<1>2. Chain /\ RecalDone /\ [Next]_vars => RecalDone' /\ [Lost => Lost']_vars
  <2> SUFFICES ASSUME TransferInv, CharactersOK, CopyInv, RecalDone, [Next]_vars
               PROVE  RecalDone' /\ (Lost => Lost')
    OBVIOUS
  <2>1. /\ Machine /\ CardOK /\ SetUp /\ Phases /\ ReadInv
        /\ ~IsJob(prog) => Settled
    BY DEF TransferInv, CopyInv, Copying
  <2>2. ASSUME NEW done, NEW rxd, Edge(done, rxd), done = 1 => NoBreak, sd.CS = 1 => rxd = "ff"
        PROVE  RecalDone' /\ (Lost => Lost')
    <3>1. OnEdge(done, rxd)
      BY <2>1, <2>2, Edges
    <3>2. Failed => Failed'
      BY <2>1, <2>2, <3>1, PhaseStep
    <3>3. Lost => Lost'
      BY <2>1, <3>2, LostIsFailed DEF Lost, Failed, Reporting, Reported, Pipe
    <3>4. CASE IsJob(prog)
      <4>1. IsJob(prog)'
        BY <2>1, <3>1, <3>4, SameProgram
      <4> QED BY <3>3, <4>1 DEF RecalDone
    <3>5. CASE ~IsJob(prog)
      <4>1. Settled
        BY <2>1, <3>5
      <4>2. RecalDone'
        BY <2>1, <2>2, <3>5, <4>1, RecalDoneStep
      <4> QED BY <3>3, <4>2
    <3> QED BY <3>3, <3>4, <3>5
  <2>3. CASE Clock
    BY <2>2, <2>3 DEF Clock
  <2>4. CASE ByteExchanged
    <3>1. PICK rxd \in Answers : Edge(1, rxd)
      BY <2>4 DEF ByteExchanged
    <3>2. NoBreak
      BY <2>4 DEF ByteExchanged, Exchange, BreaksInTime, NoBreak, InBreak
    <3>3. sd.CS = 1 => rxd = "ff"
      BY <3>1 DEF Answers
    <3> QED BY <2>2, <3>1, <3>2, <3>3
  <2>5. CASE Arrive \/ Transmit \/ UNCHANGED vars
    <3>1. UNCHANGED <<sd, rk, card, cpu, memory, mem2disk, prog>>
      BY <2>5 DEF Arrive, Transmit, vars
    <3> QED BY <3>1 DEF RecalDone, Lost, IsJob, Of, Obeyed, Failed, NoBreak, InBreak, Reporting,
                       Reported, Underway, Issued, Pipe, Op, Asked
  <2> QED BY <2>3, <2>4, <2>5 DEF Next
<1>3. Chain /\ RecalDone => Verdict
  <2> SUFFICES ASSUME TransferInv, CopyInv, RecalDone PROVE Verdict
    OBVIOUS
  <2>1. Phases /\ (~IsJob(prog) => Settled)
    BY DEF TransferInv, CopyInv, Copying
  <2>2. Lost <=> Failed
    BY <2>1, LostIsFailed
  <2>3. ~IsJob(prog) => prog.READST = 255 /\ (prog.pc = "BADSTA" => Lost)
    BY <2>1, <2>2 DEF Settled, RecalDone
  <2>4. Failed => prog.pc \notin {"FINISH", "W-finished"}
    BY DEF Failed, Reporting, Reported, Underway, Issued, Of, Recalibrating
  <2> QED BY <2>2, <2>3, <2>4 DEF Verdict
<1>4. Spec => []Chain
  BY ChainHolds
<1> HIDE DEF Chain
<1> QED BY <1>1, <1>2, <1>3, <1>4, PTL DEF Spec, FailureIsFinal
====
