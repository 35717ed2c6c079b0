---------------------------- MODULE ImageProofs -----------------------------
(***************************************************************************)
(* Proofs about palbart's tapes and the memory image tools: what the       *)
(* frames of a word or an entry make of the loader, whatever it has loaded *)
(* before, that the loader takes every BIN tape palbart punches, and what  *)
(* a merge keeps.  Every number and every length of tape is covered, where *)
(* the runs have a few.                                                    *)
(***************************************************************************)
EXTENDS MemoryImages, PunchedTape, TLAPS

Word == 0..4095
LoaderFields == {"st", "hi", "lo", "csum", "origin", "field", "newf", "rubout", "core", "status"}

(* Six bits and six bits are twelve.                                       *)
LEMMA TwoHalves ==
  ASSUME NEW w \in Word
  PROVE  /\ w \div 64 \in 0..63 /\ w % 64 \in 0..63 /\ (w \div 64) % 64 = w \div 64
         /\ 64 * (w \div 64) + (w % 64) = w
         /\ 64 * ((w \div 64) + 64) + (w % 64) = w + 4096
         /\ (w + 4096) % 4096 = w /\ w % 4096 = w
<1>1. w \in Int /\ 0 <= w /\ w <= 4095
  BY DEF Word
<1> QED BY <1>1

HighKept(l, c) == [l EXCEPT !.hi = c, !.st = "lo"]
FirstKept(l, c) == [l EXCEPT !.origin = \o200, !.hi = c, !.st = "lo"]
LowKept(l, c) == [l EXCEPT !.lo = c]
DataStored(l, wd) == [l EXCEPT !.core = Stored(@, l.origin % 4096, wd), !.origin = @ + 1]
Awaiting(l) == [l EXCEPT !.st = "hi"]

(* The first frame of a word is kept, the second makes it; the first of a  *)
(* tape ends the leader.                                                   *)
LEMMA RimHigh ==
  ASSUME NEW l, DOMAIN l = LoaderFields, NEW c \in 0..127, l.st = "hi"
  PROVE  RimFrame(l, c) = HighKept(l, c)
  BY DEF HighKept, RimFrame, Loading

LEMMA RimFirst ==
  ASSUME NEW l, DOMAIN l = LoaderFields, NEW c \in 1..127, l.st = "leader"
  PROVE  RimFrame(l, c) = FirstKept(l, c)
  BY DEF FirstKept, RimFrame, Loading, IsLeader

LEMMA RimLow ==
  ASSUME NEW l, DOMAIN l = LoaderFields, l.st = "lo", NEW c \in 0..63
  PROVE  RimFrame(l, c) = Awaiting(RimWord(LowKept(l, c)))
  BY DEF Awaiting, LowKept, RimFrame, Loading

(* An address has bit 12 set; it may be the first of the tape.             *)
LEMMA RimAddress ==
  ASSUME NEW l, DOMAIN l = LoaderFields, l.st \in {"leader", "hi"},
         NEW a \in Word
  PROVE  /\ DOMAIN RimFrame(RimFrame(l, a \div 64 + 64), a % 64) = LoaderFields
         /\ RimFrame(RimFrame(l, a \div 64 + 64), a % 64).st = "hi"
         /\ RimFrame(RimFrame(l, a \div 64 + 64), a % 64).origin = a
         /\ RimFrame(RimFrame(l, a \div 64 + 64), a % 64).core = l.core
         /\ RimFrame(RimFrame(l, a \div 64 + 64), a % 64).status = l.status
<1> DEFINE h == a \div 64 + 64
           c == a % 64
           k == RimFrame(l, h)
           q == LowKept(k, c)
           r == RimWord(q)
           m == RimFrame(k, c)
<1>1. h \in 0..127 /\ h \in 1..127 /\ c \in 0..63 /\ 64 * h + c = a + 4096
  <2>1. a \div 64 \in 0..63 /\ c \in 0..63 /\ 64 * (a \div 64 + 64) + c = a + 4096
    BY TwoHalves
  <2> QED BY <2>1
<1>2. (a + 4096) % 4096 = a /\ a + 4096 > 4095
  BY TwoHalves DEF Word
<1> HIDE DEF h, c
<1>3. /\ DOMAIN k = LoaderFields /\ k.st = "lo" /\ k.hi = h
      /\ k.core = l.core /\ k.status = l.status
  <2>1. CASE l.st = "hi"
    <3>1. k = HighKept(l, h)
      BY <1>1, <2>1, RimHigh
    <3> QED BY <3>1 DEF HighKept, FirstKept, LoaderFields
  <2>2. CASE l.st = "leader"
    <3>1. k = FirstKept(l, h)
      BY <1>1, <2>2, RimFirst
    <3> QED BY <3>1 DEF HighKept, FirstKept, LoaderFields
  <2> QED BY <2>1, <2>2
<1> HIDE DEF k
<1>4. m = Awaiting(r)
  BY <1>1, <1>3, RimLow
<1>5. /\ DOMAIN q = LoaderFields /\ q.hi = h /\ q.lo = c
      /\ q.core = l.core /\ q.status = l.status
  BY <1>3 DEF HighKept, LowKept, LoaderFields
<1> HIDE DEF q
<1>6. r = [q EXCEPT !.origin = a]
  BY <1>1, <1>2, <1>5 DEF RimWord
<1> HIDE DEF r
<1>7. /\ DOMAIN m = LoaderFields /\ m.st = "hi" /\ m.origin = a
      /\ m.core = l.core /\ m.status = l.status
  BY <1>4, <1>5, <1>6 DEF Awaiting, LoaderFields
<1> QED BY <1>7 DEF m, k, h, c

(* A word of twelve bits is stored where the origin points.                *)
LEMMA RimData ==
  ASSUME NEW l, DOMAIN l = LoaderFields, l.st = "hi",
         l.origin \in Word, NEW d \in Word
  PROVE  /\ DOMAIN RimFrame(RimFrame(l, d \div 64), d % 64) = LoaderFields
         /\ RimFrame(RimFrame(l, d \div 64), d % 64).st = "hi"
         /\ RimFrame(RimFrame(l, d \div 64), d % 64).core = Stored(l.core, l.origin, d)
         /\ RimFrame(RimFrame(l, d \div 64), d % 64).status = l.status
<1> DEFINE h == d \div 64
           c == d % 64
           k == RimFrame(l, h)
           q == LowKept(k, c)
           r == RimWord(q)
           m == RimFrame(k, c)
<1>1. h \in 0..127 /\ c \in 0..63 /\ 64 * h + c = d /\ ~(d > 4095)
  <2>1. d \div 64 \in 0..63 /\ c \in 0..63 /\ 64 * (d \div 64) + c = d
    BY TwoHalves
  <2> QED BY <2>1 DEF Word
<1>2. l.origin % 4096 = l.origin
  BY TwoHalves
<1> HIDE DEF h, c
<1>3. k = HighKept(l, h)
  BY <1>1, RimHigh
<1>4. /\ DOMAIN k = LoaderFields /\ k.st = "lo" /\ k.hi = h
      /\ k.core = l.core /\ k.status = l.status /\ k.origin = l.origin
  BY <1>3 DEF HighKept, LowKept, LoaderFields
<1> HIDE DEF k
<1>5. m = Awaiting(r)
  BY <1>1, <1>4, RimLow
<1>6. /\ DOMAIN q = LoaderFields /\ q.hi = h /\ q.lo = c
      /\ q.core = l.core /\ q.status = l.status /\ q.origin = l.origin
  BY <1>4 DEF LowKept, LoaderFields
<1> HIDE DEF q
<1>7. r.st = q.st /\ DOMAIN r = LoaderFields /\ r.status = l.status
      /\ r.core = Stored(l.core, l.origin, d)
  <2>1. 64 * q.hi + q.lo = d
    BY <1>1, <1>6
  <2>2. r = DataStored(q, 64 * q.hi + q.lo)
    BY <1>1, <2>1 DEF RimWord, DataStored
  <2>3. r = DataStored(q, d)
    BY <2>1, <2>2
  <2>4. /\ DOMAIN r = LoaderFields /\ r.st = q.st /\ r.status = q.status
        /\ r.core = Stored(q.core, q.origin % 4096, d)
    BY <1>6, <2>3 DEF DataStored, LoaderFields
  <2> QED BY <1>2, <1>6, <2>4
<1> HIDE DEF r
<1>8. /\ DOMAIN m = LoaderFields /\ m.st = "hi"
      /\ m.core = Stored(l.core, l.origin, d) /\ m.status = l.status
  BY <1>5, <1>6, <1>7 DEF Awaiting, LoaderFields
<1> QED BY <1>8 DEF m, k, h, c

FourFrames(l, e) == RimFrame(RimFrame(RimFrame(RimFrame(l, e[1]), e[2]), e[3]), e[4])

(* Four frames of rim.c put the word of an entry at its address and change *)
(* no other, for every address and every word, first on the tape or after  *)
(* anything else (rim.c:51-62, sim_load_rim).                              *)
THEOREM RimEntryLoaded ==
  ASSUME NEW addr \in Word, NEW data \in Word,
         NEW l, DOMAIN l = LoaderFields, l.st \in {"leader", "hi"}
  PROVE  LET m == FourFrames(l, RimEntry(addr, data))
         IN /\ DOMAIN m = LoaderFields /\ m.st = "hi" /\ m.status = l.status
            /\ m.core = Stored(l.core, addr, data)
<1> DEFINE e == RimEntry(addr, data)
           k == RimFrame(RimFrame(l, addr \div 64 + 64), addr % 64)
           m == RimFrame(RimFrame(k, data \div 64), data % 64)
<1>1. /\ e[1] = addr \div 64 + 64 /\ e[2] = addr % 64
      /\ e[3] = data \div 64 /\ e[4] = data % 64
  BY TwoHalves DEF RimEntry
<1>2. /\ DOMAIN k = LoaderFields /\ k.st = "hi" /\ k.origin = addr
      /\ k.core = l.core /\ k.status = l.status
  BY RimAddress
<1> HIDE DEF e, k
<1>3. /\ DOMAIN m = LoaderFields /\ m.st = "hi"
      /\ m.core = Stored(k.core, k.origin, data) /\ m.status = k.status
  BY <1>2, RimData
<1>4. /\ DOMAIN m = LoaderFields /\ m.st = "hi" /\ m.status = l.status
      /\ m.core = Stored(l.core, addr, data)
  BY <1>2, <1>3
<1> QED BY <1>1, <1>4 DEF e, k, FourFrames

-----------------------------------------------------------------------------
(* The BIN loader with a whole word in hand, which the next character      *)
(* stores; a leader is behind it.                                          *)
Holding(l, wd) == /\ DOMAIN l = LoaderFields /\ l.st = "hi" /\ ~l.rubout
                  /\ l.hi \in 0..63 /\ l.lo \in 0..63 /\ 64 * l.hi + l.lo = wd

FieldTaken(l, g) == [l EXCEPT !.newf = 4096 * g]
CharTaken(l, c) == [BinWord(l) EXCEPT !.hi = c, !.st = "lo"]
SecondTaken(l, c) == [l EXCEPT !.lo = c, !.st = "hi"]

LEMMA BinField ==
  ASSUME NEW l, DOMAIN l = LoaderFields, l.st = "hi", ~l.rubout, NEW g \in 0..7
  PROVE  BinFrame(l, 192 + 8 * g) = FieldTaken(l, g)
<1>1. ((192 + 8 * g) \div 8) % 8 = g /\ 192 + 8 * g \in 129..254 /\ 192 + 8 * g # 255
  OBVIOUS
<1> DEFINE c == 192 + 8 * g
<1>2. (c \div 8) % 8 = g /\ c \in 129..254 /\ c # 255
  BY <1>1
<1> HIDE DEF c
<1>3. BinFrame(l, c) = FieldTaken(l, g)
  BY <1>2 DEF BinFrame, FieldTaken, Loading
<1> QED BY <1>3 DEF c

LEMMA BinHigh ==
  ASSUME NEW l, DOMAIN l = LoaderFields, l.st = "hi", ~l.rubout, NEW c \in 0..127
  PROVE  BinFrame(l, c) = CharTaken(l, c)
<1>1. c # 255 /\ c # 128 /\ c \notin 129..254
  OBVIOUS
<1> QED BY <1>1 DEF BinFrame, BinChar, CharTaken, Loading

LEMMA BinLow ==
  ASSUME NEW l, DOMAIN l = LoaderFields, l.st = "lo", ~l.rubout, NEW c \in 0..127
  PROVE  BinFrame(l, c) = SecondTaken(l, c)
<1>1. c # 255 /\ c # 128 /\ c \notin 129..254
  OBVIOUS
<1> QED BY <1>1 DEF BinFrame, BinChar, SecondTaken, Loading

(* The word in hand is stored by the character after it, in the field that *)
(* was there before the last change.                                       *)
DataKept(l, wd) == [l EXCEPT !.csum = @ + l.hi + l.lo, !.field = l.newf,
                             !.core = Stored(@, l.field + l.origin, wd),
                             !.origin = (@ + 1) % 4096]

WordTaken(l, wd, c) == [DataKept(l, wd) EXCEPT !.hi = c, !.st = "lo"]

LEMMA BinStores ==
  ASSUME NEW wd \in Word, NEW l, Holding(l, wd), NEW c \in 0..127
  PROVE  BinFrame(l, c) = WordTaken(l, wd, c)
<1>1. BinFrame(l, c) = CharTaken(l, c)
  BY BinHigh DEF Holding
<1>2. BinWord(l) = DataKept(l, wd)
  <2>1. 64 * l.hi + l.lo = wd /\ ~(wd > 4095)
    BY DEF Holding, Word
  <2>2. BinWord(l) = DataKept(l, 64 * l.hi + l.lo)
    BY <2>1 DEF BinWord, DataKept
  <2> QED BY <2>1, <2>2
<1>3. CharTaken(l, c) = WordTaken(l, wd, c)
  BY <1>2 DEF CharTaken, WordTaken
<1> QED BY <1>1, <1>3

LEMMA Taken ==
  ASSUME NEW wd, NEW l, DOMAIN l = LoaderFields, NEW c, NEW k, k = WordTaken(l, wd, c)
  PROVE  /\ DOMAIN k = LoaderFields /\ k.st = "lo" /\ k.hi = c /\ k.rubout = l.rubout
         /\ k.core = Stored(l.core, l.field + l.origin, wd)
         /\ k.field = l.newf /\ k.origin = (l.origin + 1) % 4096
<1> DEFINE q == DataKept(l, wd)
<1>1. /\ DOMAIN q = LoaderFields /\ q.rubout = l.rubout
      /\ q.core = Stored(l.core, l.field + l.origin, wd)
      /\ q.field = l.newf /\ q.origin = (l.origin + 1) % 4096
  BY DEF DataKept, LoaderFields
<1>2. k = [q EXCEPT !.hi = c, !.st = "lo"]
  BY DEF WordTaken
<1> HIDE DEF q
<1> QED BY <1>1, <1>2 DEF LoaderFields

(* A change of field between two words of a BIN tape waits for the first:  *)
(* that word is stored in the field before the change and the second, two  *)
(* frames later, at the next address in the field after it, for every two  *)
(* words, every two fields and any character x that follows (pdp8_sys.c:   *)
(* 105-129 and 148-169; palbart punches the frame before it has stored the *)
(* literals of the field it leaves).                                       *)
THEOREM FieldChangeWaits ==
  ASSUME NEW u \in Word, NEW v \in Word, NEW g \in 0..7, NEW x \in 0..127,
         NEW l, Holding(l, u)
  PROVE  LET m == BinFrame(BinFrame(BinFrame(l, 192 + 8 * g), v \div 64), v % 64)
         IN /\ Holding(m, v)
            /\ m.core = Stored(l.core, l.field + l.origin, u)
            /\ BinFrame(m, x).core = Stored(m.core, 4096 * g + ((l.origin + 1) % 4096), v)
<1> DEFINE h == v \div 64
           c == v % 64
           f == BinFrame(l, 192 + 8 * g)
           k == BinFrame(f, h)
           m == BinFrame(k, c)
<1>1. f = FieldTaken(l, g)
  BY BinField DEF Holding
<1>2. /\ Holding(f, u) /\ f.newf = 4096 * g
      /\ f.core = l.core /\ f.field = l.field /\ f.origin = l.origin
  BY <1>1 DEF FieldTaken, Holding, LoaderFields
<1> HIDE DEF f
<1>3. h \in 0..63 /\ c \in 0..63 /\ 64 * h + c = v
  BY TwoHalves
<1> HIDE DEF h, c
<1>4. h \in 0..127 /\ c \in 0..127
  BY <1>3
<1>5. /\ DOMAIN k = LoaderFields /\ k.st = "lo" /\ k.hi = h /\ ~k.rubout
      /\ k.core = Stored(f.core, f.field + f.origin, u)
      /\ k.field = f.newf /\ k.origin = (f.origin + 1) % 4096
  <2>1. k = WordTaken(f, u, h)
    BY <1>2, <1>4, BinStores
  <2>2. DOMAIN f = LoaderFields /\ ~f.rubout
    BY <1>2 DEF Holding
  <2> HIDE DEF k
  <2> QED BY <2>1, <2>2, Taken
<1> HIDE DEF k
<1>6. m = SecondTaken(k, c)
  BY <1>4, <1>5, BinLow
<1>7. /\ DOMAIN m = LoaderFields /\ m.st = "hi" /\ m.rubout = k.rubout /\ m.hi = h
      /\ m.lo = c /\ m.core = k.core /\ m.field = k.field /\ m.origin = k.origin
  BY <1>5, <1>6 DEF SecondTaken, LoaderFields
<1> HIDE DEF m
<1>8. Holding(m, v)
  BY <1>3, <1>5, <1>7 DEF Holding
<1>9. BinFrame(m, x).core = Stored(m.core, m.field + m.origin, v)
  <2> DEFINE y == BinFrame(m, x)
  <2>1. y = WordTaken(m, v, x)
    BY <1>8, BinStores
  <2> HIDE DEF y
  <2>2. y.core = Stored(m.core, m.field + m.origin, v)
    BY <1>7, <1>5, <2>1, Taken
  <2> QED BY <2>2 DEF y
<1>10. m.origin = (l.origin + 1) % 4096 /\ m.field = 4096 * g
  BY <1>2, <1>5, <1>7
<1>11. m.core = Stored(l.core, l.field + l.origin, u)
  BY <1>2, <1>5, <1>7
<1>12. BinFrame(m, x).core = Stored(m.core, 4096 * g + ((l.origin + 1) % 4096), v)
  BY <1>9, <1>10
<1> QED BY <1>8, <1>11, <1>12 DEF f, k, m, h, c

-----------------------------------------------------------------------------
(* What punching reads and changes of palbart's record.                    *)
PunchFields == {"tape", "checksum", "field", "objectfile", "binary_data_output", "rim_mode"}
Frames == 0..255

TapeOf(a) == a.tape
SumOf(a) == a.checksum
On(a) == a.objectfile = TRUE
Off(a) == a.objectfile = FALSE
Bin(a) == a.rim_mode = FALSE
Data(a) == a.binary_data_output = TRUE

Puncher(a) == /\ PunchFields \subseteq DOMAIN a
              /\ TapeOf(a) \in Seq(Frames) /\ SumOf(a) \in Word
              /\ On(a) \/ Off(a)

(* What a frame or more keeps of it.                                       *)
Alike(a, b) == /\ Puncher(b) /\ Data(b) /\ DOMAIN b = DOMAIN a
               /\ (On(a) <=> On(b)) /\ (Off(a) <=> Off(b)) /\ (Bin(a) <=> Bin(b))

Marked(a, t, s) == [a EXCEPT !.tape = t, !.checksum = s, !.binary_data_output = TRUE]

(* What a change of tape and checksum leaves of the record.                *)
LEMMA MarkedFields ==
  ASSUME NEW a, PunchFields \subseteq DOMAIN a, NEW t, NEW s
  PROVE  /\ DOMAIN Marked(a, t, s) = DOMAIN a /\ Data(Marked(a, t, s))
         /\ TapeOf(Marked(a, t, s)) = t /\ SumOf(Marked(a, t, s)) = s
         /\ On(a) <=> On(Marked(a, t, s))
         /\ Off(a) <=> Off(Marked(a, t, s))
         /\ Bin(a) <=> Bin(Marked(a, t, s))
<1> DEFINE b == Marked(a, t, s)
<1>1. /\ DOMAIN b = DOMAIN a /\ b.tape = t /\ b.checksum = s /\ b.binary_data_output = TRUE
      /\ b.objectfile = a.objectfile /\ b.rim_mode = a.rim_mode
  BY DEF Marked, PunchFields
<1> HIDE DEF b
<1>2. /\ Data(b) /\ TapeOf(b) = t /\ SumOf(b) = s
      /\ (On(a) <=> On(b)) /\ (Off(a) <=> Off(b)) /\ (Bin(a) <=> Bin(b))
  BY <1>1 DEF Data, TapeOf, SumOf, On, Off, Bin
<1> QED BY <1>1, <1>2 DEF b

(* A tape with one more frame.                                             *)
LEMMA Longer ==
  ASSUME NEW s \in Seq(Frames), NEW v \in Frames
  PROVE  /\ Append(s, v) \in Seq(Frames) /\ Len(Append(s, v)) = Len(s) + 1
         /\ Append(s, v)[Len(s) + 1] = v /\ Len(s) \in Nat
         /\ \A i \in 1..Len(s) : Append(s, v)[i] = s[i]
  OBVIOUS

(* Sums modulo 4096 may be taken a frame at a time, and undone.            *)
LEMMA Sums ==
  ASSUME NEW s \in Word, NEW v \in Frames, NEW u \in Frames
  PROVE  /\ (s + v) % 4096 \in Word /\ v % 256 = v
         /\ (((s + u) % 4096) + v) % 4096 = (s + u + v) % 4096
         /\ (((s + v) % 4096) - v) % 4096 = s
<1>1. s \in 0..4095 /\ v \in 0..255 /\ u \in 0..255
  BY DEF Word, Frames
<1>2. (s + v) % 4096 \in 0..4095
  BY <1>1
<1>3. v % 256 = v
  BY <1>1
<1>4. (((s + u) % 4096) + v) % 4096 = (s + u + v) % 4096
  BY <1>1
<1>5. (((s + v) % 4096) - v) % 4096 = s
  BY <1>1
<1> QED BY <1>2, <1>3, <1>4, <1>5 DEF Word

(* punchObject puts a frame on the tape and in the checksum, or neither.   *)
LEMMA PunchOne ==
  ASSUME NEW a, Puncher(a), NEW v \in Frames
  PROVE  /\ Alike(a, punchObject(a, v))
         /\ On(a) => /\ TapeOf(punchObject(a, v)) = Append(TapeOf(a), v)
                     /\ SumOf(punchObject(a, v)) = (SumOf(a) + v) % 4096
         /\ Off(a) => /\ TapeOf(punchObject(a, v)) = TapeOf(a)
                      /\ SumOf(punchObject(a, v)) = SumOf(a)
<1> DEFINE b == punchObject(a, v)
           t == IF a.objectfile THEN Append(TapeOf(a), v % 256) ELSE TapeOf(a)
           s == IF a.objectfile THEN (SumOf(a) + (v % 256)) % 4096 ELSE SumOf(a)
<1>1. b = Marked(a, t, s)
  BY DEF punchObject, Marked, TapeOf, SumOf
<1>2. v % 256 = v
  BY DEF Frames
<1>3. On(a) => t = Append(TapeOf(a), v) /\ s = (SumOf(a) + v) % 4096
  BY <1>2 DEF On
<1>4. Off(a) => t = TapeOf(a) /\ s = SumOf(a)
  BY DEF Off
<1> HIDE DEF b, t, s
<1>5. PunchFields \subseteq DOMAIN a /\ TapeOf(a) \in Seq(Frames) /\ SumOf(a) \in Word
      /\ (On(a) \/ Off(a))
  BY DEF Puncher
<1>6. /\ DOMAIN b = DOMAIN a /\ Data(b) /\ TapeOf(b) = t /\ SumOf(b) = s
      /\ (On(a) <=> On(b)) /\ (Off(a) <=> Off(b)) /\ (Bin(a) <=> Bin(b))
  BY <1>1, <1>5, MarkedFields
<1>7. t \in Seq(Frames) /\ s \in Word
  <2>1. Append(TapeOf(a), v) \in Seq(Frames)
    BY <1>5, Longer
  <2>2. (SumOf(a) + v) % 4096 \in Word
    BY <1>5, Sums
  <2> QED BY <1>3, <1>4, <1>5, <2>1, <2>2
<1>8. Alike(a, b)
  BY <1>5, <1>6, <1>7 DEF Alike, Puncher
<1> QED BY <1>3, <1>4, <1>6, <1>8 DEF b

(* A pair of frames; the tape is longer by the two.                        *)
Pair(a, b, h, c) ==
  /\ Alike(a, b)
  /\ On(a) => /\ SumOf(b) = (SumOf(a) + h + c) % 4096
              /\ TapeOf(b) = Append(Append(TapeOf(a), h), c)
              /\ Len(TapeOf(b)) = Len(TapeOf(a)) + 2
              /\ TapeOf(b)[Len(TapeOf(a)) + 1] = h
              /\ TapeOf(b)[Len(TapeOf(a)) + 2] = c
  /\ Off(a) => TapeOf(b) = TapeOf(a) /\ SumOf(b) = SumOf(a)

(* punchPair puts both frames on the tape and in the checksum.             *)
LEMMA PunchTwo ==
  ASSUME NEW a, Puncher(a), NEW h \in Frames, NEW c \in Frames
  PROVE  Pair(a, punchPair(a, h, c), h, c)
<1> DEFINE m == punchObject(a, h)
           b == punchObject(m, c)
<1>1. /\ Alike(a, m)
      /\ On(a) => TapeOf(m) = Append(TapeOf(a), h) /\ SumOf(m) = (SumOf(a) + h) % 4096
      /\ Off(a) => TapeOf(m) = TapeOf(a) /\ SumOf(m) = SumOf(a)
  BY PunchOne
<1>2. Puncher(m) /\ (On(a) <=> On(m)) /\ (Off(a) <=> Off(m))
  BY <1>1 DEF Alike
<1> HIDE DEF m
<1>3. /\ Alike(m, b)
      /\ On(m) => TapeOf(b) = Append(TapeOf(m), c) /\ SumOf(b) = (SumOf(m) + c) % 4096
      /\ Off(m) => TapeOf(b) = TapeOf(m) /\ SumOf(b) = SumOf(m)
  BY <1>2, PunchOne
<1> HIDE DEF b
<1>4. Alike(a, b)
  BY <1>1, <1>3 DEF Alike
<1>5. TapeOf(a) \in Seq(Frames) /\ SumOf(a) \in Word
  BY DEF Puncher
<1>6. ASSUME On(a)
      PROVE  /\ SumOf(b) = (SumOf(a) + h + c) % 4096
             /\ TapeOf(b) = Append(Append(TapeOf(a), h), c)
             /\ Len(TapeOf(b)) = Len(TapeOf(a)) + 2
             /\ TapeOf(b)[Len(TapeOf(a)) + 1] = h
             /\ TapeOf(b)[Len(TapeOf(a)) + 2] = c
  <2>1. /\ TapeOf(m) = Append(TapeOf(a), h) /\ SumOf(m) = (SumOf(a) + h) % 4096
        /\ TapeOf(b) = Append(TapeOf(m), c) /\ SumOf(b) = (SumOf(m) + c) % 4096
    BY <1>1, <1>2, <1>3, <1>6
  <2>2. SumOf(b) = (SumOf(a) + h + c) % 4096
    BY <1>5, <2>1, Sums
  <2>3. /\ TapeOf(m) \in Seq(Frames) /\ Len(TapeOf(m)) = Len(TapeOf(a)) + 1
        /\ TapeOf(m)[Len(TapeOf(a)) + 1] = h /\ Len(TapeOf(a)) \in Nat
    BY <1>5, <2>1, Longer
  <2>4. /\ Len(TapeOf(b)) = Len(TapeOf(m)) + 1 /\ TapeOf(b)[Len(TapeOf(m)) + 1] = c
        /\ \A i \in 1..Len(TapeOf(m)) : TapeOf(b)[i] = TapeOf(m)[i]
    BY <2>1, <2>3, Longer
  <2>5. /\ Len(TapeOf(b)) = Len(TapeOf(a)) + 2
        /\ TapeOf(b)[Len(TapeOf(a)) + 1] = h /\ TapeOf(b)[Len(TapeOf(a)) + 2] = c
    BY <2>3, <2>4
  <2>6. TapeOf(b) = Append(Append(TapeOf(a), h), c)
    BY <2>1
  <2> QED BY <2>2, <2>5, <2>6
<1>7. Off(a) => TapeOf(b) = TapeOf(a) /\ SumOf(b) = SumOf(a)
  BY <1>1, <1>2, <1>3
<1>8. Pair(a, b, h, c)
  BY <1>4, <1>6, <1>7 DEF Pair
<1> QED BY <1>8 DEF punchPair, b, m

(* The frame of a field is on the tape and not in the checksum.            *)
Fielded(m, s, f) == [m EXCEPT !.checksum = s, !.field = f]

LEMMA PunchField ==
  ASSUME NEW a, Puncher(a), NEW g \in 0..7
  PROVE  /\ Alike(a, FieldFrame(a, g)) /\ SumOf(FieldFrame(a, g)) = SumOf(a)
         /\ On(a) => TapeOf(FieldFrame(a, g)) = Append(TapeOf(a), 192 + 8 * g)
         /\ Off(a) => TapeOf(FieldFrame(a, g)) = TapeOf(a)
<1> DEFINE fr == 8 * g + 192
           m == punchObject(a, fr)
           s == IF a.objectfile THEN (SumOf(m) - fr) % 4096 ELSE SumOf(m)
           b == FieldFrame(a, g)
<1>1. b = Fielded(m, s, 4096 * g)
  BY DEF FieldFrame, Fielded, SumOf
<1>2. fr \in Frames /\ fr = 192 + 8 * g
  BY DEF Frames
<1> HIDE DEF fr, b
<1>3. /\ Alike(a, m)
      /\ On(a) => TapeOf(m) = Append(TapeOf(a), fr) /\ SumOf(m) = (SumOf(a) + fr) % 4096
      /\ Off(a) => TapeOf(m) = TapeOf(a) /\ SumOf(m) = SumOf(a)
  BY <1>2, PunchOne
<1> HIDE DEF m
<1>4. SumOf(a) \in Word /\ (On(a) \/ Off(a))
  BY DEF Puncher
<1>5. s = SumOf(a)
  <2>1. CASE On(a)
    <3>1. SumOf(m) = (SumOf(a) + fr) % 4096
      BY <1>3, <2>1
    <3>2. s = (SumOf(m) - fr) % 4096
      BY <2>1 DEF On
    <3> HIDE DEF s
    <3> QED BY <1>2, <1>4, <3>1, <3>2, Sums
  <2>2. CASE Off(a)
    <3>1. s = SumOf(m)
      BY <2>2 DEF Off
    <3> QED BY <1>3, <2>2, <3>1
  <2> QED BY <1>4, <2>1, <2>2
<1> HIDE DEF s
<1>6. /\ DOMAIN m = DOMAIN a /\ PunchFields \subseteq DOMAIN m /\ Data(m)
      /\ TapeOf(m) \in Seq(Frames) /\ (On(a) <=> On(m)) /\ (Off(a) <=> Off(m)) /\ (Bin(a) <=> Bin(m))
  BY <1>3 DEF Alike, Puncher
<1>7. /\ DOMAIN b = DOMAIN m /\ b.tape = m.tape /\ b.checksum = s
      /\ b.objectfile = m.objectfile /\ b.rim_mode = m.rim_mode
      /\ b.binary_data_output = m.binary_data_output
  BY <1>1, <1>6 DEF Fielded, PunchFields
<1>8. /\ TapeOf(b) = TapeOf(m) /\ SumOf(b) = s /\ (Data(b) <=> Data(m))
      /\ (On(b) <=> On(m)) /\ (Off(b) <=> Off(m)) /\ (Bin(b) <=> Bin(m))
  BY <1>7 DEF Data, TapeOf, SumOf, On, Off, Bin
<1>9. Alike(a, b)
  <2>1. DOMAIN b = DOMAIN m /\ DOMAIN b = DOMAIN a /\ PunchFields \subseteq DOMAIN b
    BY <1>6, <1>7
  <2> QED BY <1>4, <1>5, <1>6, <1>8, <2>1 DEF Alike, Puncher
<1>10. /\ SumOf(b) = SumOf(a)
       /\ On(a) => TapeOf(b) = Append(TapeOf(a), 192 + 8 * g)
       /\ Off(a) => TapeOf(b) = TapeOf(a)
  BY <1>2, <1>3, <1>5, <1>8
<1> QED BY <1>9, <1>10 DEF b

-----------------------------------------------------------------------------
(* The loader behind the pair of frames it has read last, which it has not *)
(* stored: once that is done its memory is w and the next word goes to f   *)
(* and p, and the frames it has counted sum to the checksum.               *)
SumsTo(n, sum) == n \in Nat /\ n % 4096 = sum

Char == 0..127
Ready(l) == DOMAIN l = LoaderFields /\ l.st = "hi" /\ ~l.rubout

Follows(l, sum, w, f, p) ==
  /\ DOMAIN l = LoaderFields /\ l.st = "hi" /\ ~l.rubout /\ l.newf = f
  /\ SumsTo(BinWord(l).csum, sum) /\ BinWord(l).core = w /\ BinWord(l).origin = p

(* The loader after it has stored the pair it holds.                       *)
LEMMA WordFields ==
  ASSUME NEW l, DOMAIN l = LoaderFields
  PROVE  /\ DOMAIN BinWord(l) = LoaderFields /\ BinWord(l).rubout = l.rubout
         /\ BinWord(l).field = l.newf /\ BinWord(l).newf = l.newf
         /\ BinWord(l).csum = l.csum + l.hi + l.lo
         /\ 64 * l.hi + l.lo > 4095 => /\ BinWord(l).core = l.core
                                       /\ BinWord(l).origin = (64 * l.hi + l.lo) % 4096
         /\ ~(64 * l.hi + l.lo > 4095) =>
              /\ BinWord(l).core = Stored(l.core, l.field + l.origin, 64 * l.hi + l.lo)
              /\ BinWord(l).origin = (l.origin + 1) % 4096
<1>1. CASE 64 * l.hi + l.lo > 4095
  BY <1>1 DEF BinWord, LoaderFields
<1>2. CASE ~(64 * l.hi + l.lo > 4095)
  BY <1>2 DEF BinWord, LoaderFields
<1> QED BY <1>1, <1>2

Taking(k, h, c, l) ==
  /\ DOMAIN k = LoaderFields /\ k.st = "hi" /\ k.rubout = l.rubout /\ k.hi = h /\ k.lo = c
  /\ k.core = BinWord(l).core /\ k.origin = BinWord(l).origin /\ k.csum = BinWord(l).csum
  /\ k.field = l.newf /\ k.newf = l.newf

(* A pair of frames stores the one before it.                              *)
LEMMA TakesPair ==
  ASSUME NEW l, Ready(l), NEW h \in Char, NEW c \in Char
  PROVE  Taking(BinFrame(BinFrame(l, h), c), h, c, l)
<1> DEFINE q == BinWord(l)
           k == BinFrame(l, h)
           m == BinFrame(k, c)
<1>1. DOMAIN l = LoaderFields /\ l.st = "hi" /\ ~l.rubout /\ h \in 0..127 /\ c \in 0..127
  BY DEF Ready, Char
<1>2. DOMAIN q = LoaderFields /\ q.rubout = l.rubout /\ q.field = l.newf /\ q.newf = l.newf
  BY <1>1, WordFields
<1>3. k = CharTaken(l, h)
  BY <1>1, BinHigh
<1>4. k = [q EXCEPT !.hi = h, !.st = "lo"]
  BY <1>3 DEF CharTaken
<1> HIDE DEF k, q
<1>5. /\ DOMAIN k = LoaderFields /\ k.st = "lo" /\ k.rubout = q.rubout /\ k.hi = h
      /\ k.core = q.core /\ k.origin = q.origin /\ k.csum = q.csum
      /\ k.field = q.field /\ k.newf = q.newf
  BY <1>2, <1>4 DEF LoaderFields
<1>6. ~k.rubout
  BY <1>2, <1>5, <1>1
<1>7. m = SecondTaken(k, c)
  BY <1>5, <1>6, <1>1, BinLow
<1> HIDE DEF m
<1>8. /\ DOMAIN m = LoaderFields /\ m.st = "hi" /\ m.rubout = k.rubout /\ m.hi = h /\ m.lo = c
      /\ m.core = k.core /\ m.origin = k.origin /\ m.csum = k.csum
      /\ m.field = k.field /\ m.newf = k.newf
  BY <1>5, <1>7 DEF SecondTaken, LoaderFields
<1>9. /\ m.rubout = l.rubout /\ m.core = q.core /\ m.origin = q.origin /\ m.csum = q.csum
      /\ m.field = l.newf /\ m.newf = l.newf
  BY <1>2, <1>5, <1>8
<1>10. Taking(m, h, c, l)
  BY <1>8, <1>9 DEF Taking, q
<1> QED BY <1>10 DEF m, k

(* The sum of the frames grows by the pair.                                *)
LEMMA CountedOn ==
  ASSUME NEW n, NEW sum \in Word, SumsTo(n, sum), NEW h \in Char, NEW c \in Char
  PROVE  SumsTo(n + h + c, (sum + h + c) % 4096)
<1>1. n \in Nat /\ sum = n % 4096 /\ h \in Nat /\ c \in Nat
  BY DEF SumsTo, Char
<1>2. n + h + c \in Nat /\ (n + h + c) % 4096 = ((n % 4096) + h + c) % 4096
  BY <1>1
<1> QED BY <1>1, <1>2 DEF SumsTo

(* A word: the loader follows the tape with the word in its memory.        *)
LEMMA FollowsWord ==
  ASSUME NEW l, NEW sum \in Word, NEW w, NEW f, NEW p, Follows(l, sum, w, f, p), NEW v \in Word
  PROVE  Follows(BinFrame(BinFrame(l, v \div 64), v % 64),
                 (sum + (v \div 64) + (v % 64)) % 4096, Stored(w, f + p, v), f, (p + 1) % 4096)
<1> DEFINE h == v \div 64
           c == v % 64
           m == BinFrame(BinFrame(l, h), c)
<1>1. h \in 0..63 /\ c \in 0..63 /\ 64 * h + c = v
  BY TwoHalves
<1>2. v \in Word
  OBVIOUS
<1> HIDE DEF h, c
<1>3. h \in Char /\ c \in Char /\ ~(64 * h + c > 4095)
  BY <1>1 DEF Word, Char
<1>4. /\ DOMAIN l = LoaderFields /\ l.st = "hi" /\ ~l.rubout /\ l.newf = f
      /\ SumsTo(BinWord(l).csum, sum) /\ BinWord(l).core = w /\ BinWord(l).origin = p /\ Ready(l)
  BY DEF Follows, Ready
<1>5. Taking(m, h, c, l)
  BY <1>3, <1>4, TakesPair
<1> HIDE DEF m
<1>6. /\ DOMAIN m = LoaderFields /\ m.st = "hi" /\ m.rubout = l.rubout /\ m.hi = h /\ m.lo = c
      /\ m.core = w /\ m.origin = p /\ m.csum = BinWord(l).csum /\ m.field = f /\ m.newf = f
  BY <1>4, <1>5 DEF Taking
<1>7. /\ BinWord(m).csum = m.csum + m.hi + m.lo
      /\ ~(64 * m.hi + m.lo > 4095) =>
           /\ BinWord(m).core = Stored(m.core, m.field + m.origin, 64 * m.hi + m.lo)
           /\ BinWord(m).origin = (m.origin + 1) % 4096
  BY <1>6, WordFields
<1>8. /\ BinWord(m).csum = BinWord(l).csum + h + c
      /\ BinWord(m).core = Stored(w, f + p, v) /\ BinWord(m).origin = (p + 1) % 4096
  BY <1>1, <1>3, <1>6, <1>7
<1>9. SumsTo(BinWord(m).csum, (sum + h + c) % 4096)
  BY <1>3, <1>4, <1>8, CountedOn
<1>10. ~m.rubout
  BY <1>4, <1>6
<1>11. Follows(m, (sum + h + c) % 4096, Stored(w, f + p, v), f, (p + 1) % 4096)
  BY <1>6, <1>8, <1>9, <1>10 DEF Follows
<1> QED BY <1>11 DEF m, h, c

(* An origin: the next word goes there.                                    *)
LEMMA FollowsOrigin ==
  ASSUME NEW l, NEW sum \in Word, NEW w, NEW f, NEW p, Follows(l, sum, w, f, p), NEW v \in Word
  PROVE  Follows(BinFrame(BinFrame(l, (v \div 64) + 64), v % 64),
                 (sum + ((v \div 64) + 64) + (v % 64)) % 4096, w, f, v)
<1> DEFINE h == (v \div 64) + 64
           c == v % 64
           m == BinFrame(BinFrame(l, h), c)
<1>1. h \in 0..127 /\ c \in 0..63 /\ 64 * h + c = v + 4096
  <2>1. v \div 64 \in 0..63 /\ c \in 0..63 /\ 64 * ((v \div 64) + 64) + c = v + 4096
    BY TwoHalves
  <2> QED BY <2>1
<1>2. (v + 4096) % 4096 = v /\ v + 4096 > 4095
  BY TwoHalves DEF Word
<1> HIDE DEF h, c
<1>3. h \in Char /\ c \in Char
  BY <1>1 DEF Char
<1>4. /\ DOMAIN l = LoaderFields /\ l.st = "hi" /\ ~l.rubout /\ l.newf = f
      /\ SumsTo(BinWord(l).csum, sum) /\ BinWord(l).core = w /\ BinWord(l).origin = p /\ Ready(l)
  BY DEF Follows, Ready
<1>5. Taking(m, h, c, l)
  BY <1>3, <1>4, TakesPair
<1> HIDE DEF m
<1>6. /\ DOMAIN m = LoaderFields /\ m.st = "hi" /\ m.rubout = l.rubout /\ m.hi = h /\ m.lo = c
      /\ m.core = w /\ m.csum = BinWord(l).csum /\ m.newf = f
  BY <1>4, <1>5 DEF Taking
<1>7. /\ BinWord(m).csum = m.csum + m.hi + m.lo
      /\ 64 * m.hi + m.lo > 4095 => /\ BinWord(m).core = m.core
                                    /\ BinWord(m).origin = (64 * m.hi + m.lo) % 4096
  BY <1>6, WordFields
<1>8. /\ BinWord(m).csum = BinWord(l).csum + h + c
      /\ BinWord(m).core = w /\ BinWord(m).origin = v
  BY <1>1, <1>2, <1>6, <1>7
<1>9. SumsTo(BinWord(m).csum, (sum + h + c) % 4096)
  BY <1>3, <1>4, <1>8, CountedOn
<1>10. ~m.rubout
  BY <1>4, <1>6
<1>11. Follows(m, (sum + h + c) % 4096, w, f, v)
  BY <1>6, <1>8, <1>9, <1>10 DEF Follows
<1> QED BY <1>11 DEF m, h, c

(* A change of field waits for the pair.                                   *)
FieldChar(g) == 192 + 8 * g
FieldBase(g) == 4096 * g

LEMMA FollowsField ==
  ASSUME NEW l, NEW sum, NEW w, NEW f, NEW p, Follows(l, sum, w, f, p), NEW g \in 0..7
  PROVE  Follows(BinFrame(l, FieldChar(g)), sum, w, FieldBase(g), p)
<1> DEFINE m == BinFrame(l, 192 + 8 * g)
<1>1. /\ DOMAIN l = LoaderFields /\ l.st = "hi" /\ ~l.rubout /\ l.newf = f
      /\ SumsTo(BinWord(l).csum, sum) /\ BinWord(l).core = w /\ BinWord(l).origin = p
  BY DEF Follows
<1>2. m = FieldTaken(l, g)
  BY <1>1, BinField
<1> HIDE DEF m
<1>3. /\ DOMAIN m = LoaderFields /\ m.st = "hi" /\ m.rubout = l.rubout /\ m.newf = 4096 * g
      /\ m.hi = l.hi /\ m.lo = l.lo /\ m.core = l.core /\ m.csum = l.csum
      /\ m.field = l.field /\ m.origin = l.origin
  BY <1>1, <1>2 DEF FieldTaken, LoaderFields
<1>4. /\ BinWord(m).csum = BinWord(l).csum /\ BinWord(m).core = BinWord(l).core
      /\ BinWord(m).origin = BinWord(l).origin
  <2>1. BinWord(m).csum = BinWord(l).csum
    BY <1>1, <1>3, WordFields
  <2>2. CASE 64 * l.hi + l.lo > 4095
    <3>1. 64 * m.hi + m.lo > 4095
      BY <1>3, <2>2
    <3>2. /\ BinWord(l).core = l.core /\ BinWord(l).origin = (64 * l.hi + l.lo) % 4096
      BY <1>1, <2>2, WordFields
    <3>3. /\ BinWord(m).core = m.core /\ BinWord(m).origin = (64 * m.hi + m.lo) % 4096
      BY <1>3, <3>1, WordFields
    <3> QED BY <1>3, <2>1, <3>2, <3>3
  <2>3. CASE ~(64 * l.hi + l.lo > 4095)
    <3>1. ~(64 * m.hi + m.lo > 4095)
      BY <1>3, <2>3
    <3>2. /\ BinWord(l).core = Stored(l.core, l.field + l.origin, 64 * l.hi + l.lo)
          /\ BinWord(l).origin = (l.origin + 1) % 4096
      BY <1>1, <2>3, WordFields
    <3>3. /\ BinWord(m).core = Stored(m.core, m.field + m.origin, 64 * m.hi + m.lo)
          /\ BinWord(m).origin = (m.origin + 1) % 4096
      BY <1>3, <3>1, WordFields
    <3> QED BY <1>3, <2>1, <3>2, <3>3
  <2> QED BY <2>2, <2>3
<1>5. ~m.rubout /\ SumsTo(BinWord(m).csum, sum) /\ BinWord(m).core = w /\ BinWord(m).origin = p
  BY <1>1, <1>3, <1>4
<1>6. Follows(m, sum, w, 4096 * g, p)
  BY <1>3, <1>5 DEF Follows
<1> QED BY <1>6 DEF m, FieldChar, FieldBase

(* The first origin ends the leader.                                       *)
LEMMA FollowsFirst ==
  ASSUME NEW v \in Word
  PROVE  Follows(BinFrame(BinFrame(Loader, (v \div 64) + 64), v % 64),
                 (((v \div 64) + 64) + (v % 64)) % 4096, Loader.core, 0, v)
<1> DEFINE h == (v \div 64) + 64
           c == v % 64
           k == BinFrame(Loader, h)
           m == BinFrame(k, c)
<1>1. h \in 64..127 /\ c \in 0..63 /\ 64 * h + c = v + 4096
  <2>1. v \div 64 \in 0..63 /\ c \in 0..63 /\ 64 * ((v \div 64) + 64) + c = v + 4096
    BY TwoHalves
  <2> QED BY <2>1
<1>2. (v + 4096) % 4096 = v /\ v + 4096 > 4095
  BY TwoHalves DEF Word
<1> HIDE DEF h, c
<1>3. c \in 0..127 /\ ~IsLeader(h) /\ h # 255 /\ h \notin 129..254
  BY <1>1 DEF IsLeader
<1>4. k = [Loader EXCEPT !.hi = h, !.st = "lo", !.csum = 0, !.origin = 0, !.field = 0, !.newf = 0]
  <2>1. Loader.st = "leader" /\ ~Loader.rubout
    BY DEF Loader
  <2>2. k = BinChar(Loader, h)
    BY <1>3, <2>1 DEF BinFrame, Loading
  <2> HIDE DEF k
  <2> QED BY <1>3, <2>1, <2>2 DEF BinChar
<1>5. /\ DOMAIN k = LoaderFields /\ k.st = "lo" /\ ~k.rubout /\ k.hi = h
      /\ k.core = Loader.core /\ k.csum = 0 /\ k.newf = 0
  <2> HIDE DEF k
  <2> QED BY <1>4 DEF Loader, LoaderFields
<1> HIDE DEF k
<1>6. m = SecondTaken(k, c)
  BY <1>3, <1>5, BinLow
<1> HIDE DEF m
<1>7. /\ DOMAIN m = LoaderFields /\ m.st = "hi" /\ m.rubout = k.rubout /\ m.hi = h /\ m.lo = c
      /\ m.core = k.core /\ m.csum = 0 /\ m.newf = 0
  BY <1>5, <1>6 DEF SecondTaken, LoaderFields
<1>8. /\ BinWord(m).csum = m.csum + m.hi + m.lo
      /\ 64 * m.hi + m.lo > 4095 => /\ BinWord(m).core = m.core
                                    /\ BinWord(m).origin = (64 * m.hi + m.lo) % 4096
  BY <1>7, WordFields
<1>9. /\ BinWord(m).csum = 0 + h + c
      /\ BinWord(m).core = Loader.core /\ BinWord(m).origin = v
  BY <1>1, <1>2, <1>5, <1>7, <1>8
<1>10. SumsTo(BinWord(m).csum, (h + c) % 4096)
  BY <1>1, <1>9 DEF SumsTo
<1>11. ~m.rubout
  BY <1>5, <1>7
<1>12. Follows(m, (h + c) % 4096, Loader.core, 0, v)
  BY <1>7, <1>9, <1>10, <1>11 DEF Follows
<1> QED BY <1>12 DEF m, k, h, c

(* The checksum and the first frame of the trailer: the tape is taken.     *)
LEMMA FollowsEnd ==
  ASSUME NEW l, NEW sum \in Word, NEW w, NEW f, NEW p, Follows(l, sum, w, f, p)
  PROVE  LET e == BinFrame(BinFrame(BinFrame(l, sum \div 64), sum % 64), 128)
         IN e.st = "end" /\ e.status = "OK" /\ e.core = w
<1> DEFINE h == sum \div 64
           c == sum % 64
           m == BinFrame(BinFrame(l, h), c)
           e == BinFrame(m, 128)
<1>1. h \in 0..63 /\ c \in 0..63 /\ 64 * h + c = sum
  BY TwoHalves
<1> HIDE DEF h, c
<1>2. h \in Char /\ c \in Char
  BY <1>1 DEF Char
<1>3. Ready(l) /\ ~l.rubout /\ SumsTo(BinWord(l).csum, sum) /\ BinWord(l).core = w
  BY DEF Follows, Ready
<1>4. Taking(m, h, c, l)
  BY <1>2, <1>3, TakesPair
<1> HIDE DEF m
<1>5. /\ DOMAIN m = LoaderFields /\ m.st = "hi" /\ m.rubout = l.rubout /\ m.hi = h /\ m.lo = c
      /\ m.core = w /\ m.csum = BinWord(l).csum
  BY <1>3, <1>4 DEF Taking
<1>6. ~m.rubout
  BY <1>3, <1>5
<1>7. BinChecksum(m) = "OK"
  <2>1. 64 * m.hi + m.lo = sum
    BY <1>1, <1>5
  <2>2. SumsTo(m.csum, sum)
    BY <1>3, <1>5
  <2>3. \A n : SumsTo(n, sum) => (n - sum) % 4096 = 0
    BY DEF SumsTo, Word
  <2> QED BY <2>1, <2>2, <2>3 DEF BinChecksum
<1>8. e = [m EXCEPT !.st = "end", !.status = "OK"]
  <2>1. m.st # "end" /\ m.st # "leader" /\ m.st # "lo"
    BY <1>5
  <2>2. BinFrame(m, 128) = BinChar(m, 128)
    BY <1>6, <2>1 DEF BinFrame, Loading
  <2>3. BinChar(m, 128) = [m EXCEPT !.st = "end", !.status = BinChecksum(m)]
    BY <1>5, <2>1 DEF BinChar
  <2> QED BY <1>7, <2>2, <2>3
<1> HIDE DEF e
<1>9. e.st = "end" /\ e.status = "OK" /\ e.core = w
  BY <1>5, <1>8 DEF LoaderFields
<1> QED BY <1>9 DEF e, m, h, c

-----------------------------------------------------------------------------
(* The halves of any number are those of its twelve low bits.              *)
LEMMA LowBits ==
  ASSUME NEW n \in Int
  PROVE  /\ n % 4096 \in Word /\ (n \div 64) % 64 = (n % 4096) \div 64
         /\ n % 64 = (n % 4096) % 64
         /\ (n % 4096) \div 64 \in Frames /\ ((n % 4096) \div 64) + 64 \in Frames
         /\ n % 64 \in Frames
<1>1. n % 4096 \in 0..4095 /\ n % 64 \in 0..63
  OBVIOUS
<1>2. (n \div 64) % 64 = (n % 4096) \div 64
  OBVIOUS
<1>3. n % 64 = (n % 4096) % 64
  OBVIOUS
<1>4. (n % 4096) \div 64 \in 0..63
  BY <1>1
<1> QED BY <1>1, <1>2, <1>3, <1>4 DEF Word, Frames

OriginOn(a, b, loc) == Pair(a, b, ((loc % 4096) \div 64) + 64, (loc % 4096) % 64)

(* punchOrigin punches the two halves of twelve bits and bit 12.           *)
LEMMA OriginPair ==
  ASSUME NEW a, Puncher(a), NEW loc \in Int
  PROVE  OriginOn(a, punchOrigin(a, loc), loc)
<1>1. punchOrigin(a, loc) = punchPair(a, ((loc \div 64) % 64) + 64, loc % 64)
  BY DEF punchOrigin
<1>2. (loc \div 64) % 64 = (loc % 4096) \div 64 /\ loc % 64 = (loc % 4096) % 64
  BY LowBits
<1>3. ((loc % 4096) \div 64) + 64 \in Frames /\ (loc % 4096) % 64 \in Frames
  BY LowBits
<1>4. punchOrigin(a, loc) = punchPair(a, ((loc % 4096) \div 64) + 64, (loc % 4096) % 64)
  BY <1>1, <1>2
<1> QED BY <1>3, <1>4, PunchTwo DEF OriginOn

(* punchLocObject punches the two halves of twelve bits.                   *)
LEMMA WordPair ==
  ASSUME NEW a, Puncher(a), Bin(a), NEW loc, NEW val \in Int
  PROVE  Pair(a, punchLocObject(a, loc, val), (val % 4096) \div 64, (val % 4096) % 64)
<1>1. punchLocObject(a, loc, val) = punchPair(a, (val \div 64) % 64, val % 64)
  BY DEF punchLocObject, Bin
<1>2. punchLocObject(a, loc, val) = punchPair(a, (val % 4096) \div 64, (val % 4096) % 64)
  <2>1. (val \div 64) % 64 = (val % 4096) \div 64 /\ val % 64 = (val % 4096) % 64
    BY LowBits
  <2> QED BY <1>1, <2>1
<1>3. (val % 4096) \div 64 \in Frames /\ (val % 4096) % 64 \in Frames
  BY LowBits
<1> QED BY <1>2, <1>3, PunchTwo

(* The loader reads the frames that were punched, if any were.             *)
LEMMA ReadsPair ==
  ASSUME NEW a, NEW b, NEW h, NEW c, Puncher(a), Pair(a, b, h, c), NEW l
  PROVE  /\ On(a) => ReadOn(l, TapeOf(a), TapeOf(b)) = BinFrame(BinFrame(l, h), c)
         /\ Off(a) => ReadOn(l, TapeOf(a), TapeOf(b)) = l
<1>1. Len(TapeOf(a)) \in Nat
  BY DEF Puncher
<1>2. CASE On(a)
  BY <1>1, <1>2 DEF Pair, ReadOn
<1>3. CASE Off(a)
  BY <1>1, <1>3 DEF Pair, ReadOn
<1>4. ~(On(a) /\ Off(a))
  BY DEF On, Off
<1> QED BY <1>2, <1>3, <1>4

-----------------------------------------------------------------------------
(* While the tape is punched the loader follows it; once it is ended the   *)
(* loader has taken it.                                                    *)
TapeInv ==
  /\ Puncher(punch) /\ Bin(punch)
  /\ DOMAIN at = {"field", "loc"}
  /\ reader.st \in {"leader", "hi", "end"}
  /\ reader.st = "leader" => /\ reader = Loader /\ SumOf(punch) = 0 /\ On(punch)
                             /\ written = Loader.core /\ at.field = 0
  /\ reader.st = "hi" => /\ Data(punch)
                         /\ Follows(reader, SumOf(punch), written, at.field, at.loc)
  /\ reader.st = "end" => reader.status = "OK" /\ reader.core = written

(* It holds behind the leader.                                             *)
LEMMA TapeInitially == Init => TapeInv
<1> SUFFICES ASSUME Init PROVE TapeInv
  OBVIOUS
<1>1. punch.tape \in Seq(Frames)
  <2>1. punch.tape = [i \in 1..LeaderFrames |-> 128] /\ LeaderFrames \in Nat /\ 128 \in Frames
    BY FrameCounts DEF Init, Frames
  <2> QED BY <2>1
<1>2. DOMAIN punch = PunchFields /\ punch.checksum = 0 /\ punch.objectfile = TRUE
      /\ punch.rim_mode = FALSE
  BY DEF Init, PunchFields
<1>3. Puncher(punch) /\ Bin(punch) /\ On(punch) /\ SumOf(punch) = 0
  <2>1. On(punch) /\ Bin(punch)
    BY <1>2 DEF On, Bin
  <2>2. TapeOf(punch) \in Seq(Frames) /\ SumOf(punch) \in Word /\ SumOf(punch) = 0
    BY <1>1, <1>2 DEF TapeOf, SumOf, Word
  <2> QED BY <1>2, <2>1, <2>2 DEF Puncher
<1>4. reader = Loader /\ reader.st = "leader"
  BY DEF Init, Loader
<1>5. written = Loader.core /\ DOMAIN at = {"field", "loc"} /\ at.field = 0
  BY DEF Init, Loader
<1> QED BY <1>3, <1>4, <1>5 DEF TapeInv

(* An origin, the first or another.                                        *)
LEMMA OriginStep ==
  ASSUME TapeInv, reader.st \in {"leader", "hi"}, NEW loc \in Int, Origin(loc)
  PROVE  TapeInv'
<1> DEFINE v == loc % 4096
           h == (v \div 64) + 64
           c == v % 64
<1>1. punch' = punchOrigin(punch, loc) /\ reader' = ReadOn(reader, TapeOf(punch), TapeOf(punch'))
      /\ written' = written
  BY DEF Origin, Punch, TapeOf
<1>2. v \in Word
  BY LowBits
<1>3. Puncher(punch) /\ Bin(punch) /\ DOMAIN at = {"field", "loc"}
  BY DEF TapeInv
<1>4. Pair(punch, punch', h, c)
  <2>1. OriginOn(punch, punch', loc)
    BY <1>1, <1>3, OriginPair
  <2> QED BY <2>1 DEF OriginOn
<1>5. Puncher(punch') /\ Bin(punch') /\ Data(punch')
  BY <1>3, <1>4 DEF Pair, Alike
<1>6. /\ On(punch) => at' = [at EXCEPT !.loc = v]
      /\ Off(punch) => at' = at
  BY DEF Origin, On, Off
<1> HIDE DEF v
<1>7. /\ On(punch) => DOMAIN at' = {"field", "loc"} /\ at'.field = at.field /\ at'.loc = v
      /\ Off(punch) => at' = at
  BY <1>3, <1>6
<1> HIDE DEF h, c
<1>8. CASE reader.st = "leader"
  <2>1. reader = Loader /\ SumOf(punch) = 0 /\ On(punch) /\ written = Loader.core /\ at.field = 0
    BY <1>8 DEF TapeInv
  <2>2. reader' = BinFrame(BinFrame(Loader, h), c) /\ SumOf(punch') = (0 + h + c) % 4096
    BY <1>1, <1>3, <1>4, <2>1, ReadsPair DEF Pair
  <2>3. Follows(reader', (h + c) % 4096, Loader.core, 0, v)
    BY <1>2, <2>2, FollowsFirst DEF h, c
  <2>4. h + c = 0 + h + c
    BY <1>2 DEF h, c, Word
  <2>5. Follows(reader', SumOf(punch'), written', at'.field, at'.loc)
    BY <1>1, <1>7, <2>1, <2>2, <2>3, <2>4
  <2>6. reader'.st = "hi"
    BY <2>3 DEF Follows
  <2> QED BY <1>5, <1>7, <2>1, <2>5, <2>6 DEF TapeInv
<1>9. CASE reader.st = "hi" /\ On(punch)
  <2>1. Follows(reader, SumOf(punch), written, at.field, at.loc) /\ SumOf(punch) \in Word
    BY <1>3, <1>9 DEF TapeInv, Puncher
  <2>2. reader' = BinFrame(BinFrame(reader, h), c) /\ SumOf(punch') = (SumOf(punch) + h + c) % 4096
    BY <1>1, <1>3, <1>4, <1>9, ReadsPair DEF Pair
  <2>3. Follows(reader', SumOf(punch'), written, at.field, v)
    BY <1>2, <2>1, <2>2, FollowsOrigin DEF h, c
  <2>4. reader'.st = "hi"
    BY <2>3 DEF Follows
  <2> QED BY <1>1, <1>5, <1>7, <1>9, <2>3, <2>4 DEF TapeInv
<1>10. CASE reader.st = "hi" /\ Off(punch)
  <2>1. Follows(reader, SumOf(punch), written, at.field, at.loc)
    BY <1>10 DEF TapeInv
  <2>2. reader' = reader /\ SumOf(punch') = SumOf(punch)
    <3>1. reader' = reader
      BY <1>1, <1>3, <1>4, <1>10, ReadsPair
    <3> QED BY <1>4, <1>10, <3>1 DEF Pair
  <2>3. Follows(reader', SumOf(punch'), written', at'.field, at'.loc)
    BY <1>1, <1>7, <1>10, <2>1, <2>2
  <2>4. reader'.st = "hi" /\ DOMAIN at' = {"field", "loc"}
    BY <1>3, <1>7, <1>10, <2>2
  <2> QED BY <1>5, <2>3, <2>4 DEF TapeInv
<1> QED BY <1>3, <1>8, <1>9, <1>10 DEF Puncher

(* A word is punched, or would be.                                         *)
LEMMA WordStep ==
  ASSUME TapeInv, NewWord
  PROVE  TapeInv'
<1>1. PICK loc \in Int, val \in Int :
        /\ punch' = punchLocObject(punch, loc, val)
        /\ reader' = ReadOn(reader, TapeOf(punch), TapeOf(punch'))
        /\ written' = IF punch.objectfile
                      THEN Stored(written, at.field + at.loc, val % 4096) ELSE written
  BY DEF NewWord, Punch, TapeOf
<1> DEFINE v == val % 4096
           h == v \div 64
           c == v % 64
<1>2. v \in Word
  BY LowBits
<1>3. Puncher(punch) /\ Bin(punch) /\ DOMAIN at = {"field", "loc"}
  BY DEF TapeInv
<1>4. Pair(punch, punch', h, c)
  BY <1>1, <1>2, <1>3, WordPair
<1>5. Puncher(punch') /\ Bin(punch') /\ Data(punch')
  BY <1>3, <1>4 DEF Pair, Alike
<1>6. /\ On(punch) => /\ at' = [at EXCEPT !.loc = (@ + 1) % 4096]
                      /\ written' = Stored(written, at.field + at.loc, v)
      /\ Off(punch) => at' = at /\ written' = written
  BY <1>1 DEF NewWord, On, Off
<1> HIDE DEF v
<1>7. /\ On(punch) => /\ DOMAIN at' = {"field", "loc"} /\ at'.field = at.field
                      /\ at'.loc = (at.loc + 1) % 4096
  BY <1>3, <1>6
<1> HIDE DEF h, c
<1>8. /\ reader.st = "hi" /\ SumOf(punch) \in Word
      /\ Follows(reader, SumOf(punch), written, at.field, at.loc)
  BY <1>3 DEF NewWord, Underway, TapeInv, Puncher
<1>9. CASE On(punch)
  <2>1. reader' = BinFrame(BinFrame(reader, h), c) /\ SumOf(punch') = (SumOf(punch) + h + c) % 4096
    BY <1>1, <1>3, <1>4, <1>9, ReadsPair DEF Pair
  <2>2. Follows(reader', SumOf(punch'), Stored(written, at.field + at.loc, v), at.field,
                (at.loc + 1) % 4096)
    BY <1>2, <1>8, <2>1, FollowsWord DEF h, c
  <2>3. Follows(reader', SumOf(punch'), written', at'.field, at'.loc)
    BY <1>6, <1>7, <1>9, <2>2
  <2>4. reader'.st = "hi"
    BY <2>3 DEF Follows
  <2> QED BY <1>5, <1>7, <1>9, <2>3, <2>4 DEF TapeInv
<1>10. CASE Off(punch)
  <2>1. reader' = reader /\ SumOf(punch') = SumOf(punch)
    <3>1. reader' = reader
      BY <1>1, <1>3, <1>4, <1>10, ReadsPair
    <3> QED BY <1>4, <1>10, <3>1 DEF Pair
  <2>2. Follows(reader', SumOf(punch'), written', at'.field, at'.loc) /\ reader'.st = "hi"
    BY <1>6, <1>8, <1>10, <2>1
  <2>3. DOMAIN at' = {"field", "loc"}
    BY <1>3, <1>6, <1>10
  <2> QED BY <1>5, <2>2, <2>3 DEF TapeInv
<1> QED BY <1>3, <1>9, <1>10 DEF Puncher

(* FIELD, in either mode.                                                  *)
LEMMA FieldStep ==
  ASSUME TapeInv, NewField
  PROVE  TapeInv'
<1>1. PICK g \in 0..7 :
        /\ punch' = FieldFrame(punch, g)
        /\ reader' = ReadOn(reader, TapeOf(punch), TapeOf(punch'))
        /\ at' = IF punch.objectfile THEN [at EXCEPT !.field = 4096 * g] ELSE at
  BY DEF NewField, Punch, TapeOf
<1>2. g \in 0..7 /\ written' = written
  BY DEF NewField
<1>3. Puncher(punch) /\ Bin(punch) /\ DOMAIN at = {"field", "loc"}
  BY DEF TapeInv
<1>4. /\ Alike(punch, punch') /\ SumOf(punch') = SumOf(punch)
      /\ On(punch) => TapeOf(punch') = Append(TapeOf(punch), 192 + 8 * g)
      /\ Off(punch) => TapeOf(punch') = TapeOf(punch)
  BY <1>1, <1>2, <1>3, PunchField
<1>5. Puncher(punch') /\ Bin(punch') /\ Data(punch')
  BY <1>3, <1>4 DEF Alike
<1>6. /\ On(punch) => at' = [at EXCEPT !.field = 4096 * g]
      /\ Off(punch) => at' = at
  BY <1>1 DEF On, Off
<1>7. /\ On(punch) => DOMAIN at' = {"field", "loc"} /\ at'.field = 4096 * g /\ at'.loc = at.loc
  BY <1>3, <1>6
<1>8. reader.st = "hi" /\ Follows(reader, SumOf(punch), written, at.field, at.loc)
      /\ TapeOf(punch) \in Seq(Frames)
  BY <1>3 DEF NewField, Underway, TapeInv, Puncher
<1>9. CASE On(punch)
  <2>1. 192 + 8 * g \in Frames
    BY <1>2 DEF Frames
  <2>2. reader' = BinFrame(reader, FieldChar(g))
    <3> DEFINE fr == 192 + 8 * g
    <3>1. TapeOf(punch') = Append(TapeOf(punch), fr) /\ fr \in Frames
      BY <1>4, <1>9, <2>1
    <3> HIDE DEF fr
    <3>2. /\ Len(TapeOf(punch')) = Len(TapeOf(punch)) + 1
          /\ TapeOf(punch')[Len(TapeOf(punch)) + 1] = fr /\ Len(TapeOf(punch)) \in Nat
      BY <1>8, <3>1, Longer
    <3>3. reader' = BinFrame(reader, fr)
      BY <1>1, <3>2 DEF ReadOn
    <3> QED BY <3>3 DEF fr, FieldChar
  <2>3. Follows(reader', SumOf(punch), written, FieldBase(g), at.loc)
    BY <1>2, <1>8, <2>2, FollowsField
  <2>4. Follows(reader', SumOf(punch'), written', at'.field, at'.loc)
    BY <1>2, <1>4, <1>7, <1>9, <2>3 DEF FieldBase
  <2>5. reader'.st = "hi"
    BY <2>3 DEF Follows
  <2> QED BY <1>5, <1>7, <1>9, <2>4, <2>5 DEF TapeInv
<1>10. CASE Off(punch)
  <2>1. reader' = reader
    BY <1>1, <1>4, <1>10 DEF ReadOn
  <2>2. Follows(reader', SumOf(punch'), written', at'.field, at'.loc) /\ reader'.st = "hi"
    BY <1>2, <1>4, <1>6, <1>8, <1>10, <2>1
  <2>3. DOMAIN at' = {"field", "loc"}
    BY <1>3, <1>6, <1>10
  <2> QED BY <1>5, <2>2, <2>3 DEF TapeInv
<1> QED BY <1>3, <1>9, <1>10 DEF Puncher

Enabled(a, on) == [a EXCEPT !.objectfile = on]

(* What ENPUNCH and NOPUNCH leave of the record.                           *)
LEMMA EnabledFields ==
  ASSUME NEW a, Puncher(a), NEW on \in BOOLEAN
  PROVE  /\ Puncher(Enabled(a, on)) /\ TapeOf(Enabled(a, on)) = TapeOf(a)
         /\ SumOf(Enabled(a, on)) = SumOf(a) /\ (on = TRUE => On(Enabled(a, on)))
         /\ Bin(a) => Bin(Enabled(a, on))
         /\ Data(a) => Data(Enabled(a, on))
<1> DEFINE b == Enabled(a, on)
<1>1. PunchFields \subseteq DOMAIN a /\ TapeOf(a) \in Seq(Frames) /\ SumOf(a) \in Word
  BY DEF Puncher
<1>2. /\ DOMAIN b = DOMAIN a /\ b.tape = a.tape /\ b.checksum = a.checksum
      /\ b.rim_mode = a.rim_mode /\ b.binary_data_output = a.binary_data_output
      /\ b.objectfile = on
  BY <1>1 DEF Enabled, PunchFields
<1> HIDE DEF b
<1>3. /\ TapeOf(b) = TapeOf(a) /\ SumOf(b) = SumOf(a) /\ (Bin(a) => Bin(b)) /\ (Data(a) => Data(b))
  BY <1>2 DEF TapeOf, SumOf, Bin, Data
<1>4. (On(b) \/ Off(b)) /\ (on = TRUE => On(b))
  BY <1>2 DEF On, Off
<1>5. Puncher(b)
  BY <1>1, <1>2, <1>3, <1>4 DEF Puncher
<1> QED BY <1>3, <1>4, <1>5 DEF b

(* ENPUNCH and NOPUNCH do not touch the tape.                              *)
LEMMA EnableStep ==
  ASSUME TapeInv, EnableOrNot
  PROVE  TapeInv'
<1>1. PICK on \in BOOLEAN : punch' = Enabled(punch, on)
  BY DEF EnableOrNot, Enabled
<1>2. reader' = reader /\ written' = written /\ at' = at /\ reader.st = "hi"
  BY DEF EnableOrNot, Underway
<1>3. /\ Puncher(punch) /\ Bin(punch) /\ Data(punch) /\ DOMAIN at = {"field", "loc"}
      /\ Follows(reader, SumOf(punch), written, at.field, at.loc)
  BY <1>2 DEF TapeInv
<1>4. Puncher(punch') /\ SumOf(punch') = SumOf(punch) /\ Bin(punch') /\ Data(punch')
  BY <1>1, <1>3, EnabledFields
<1> QED BY <1>2, <1>3, <1>4 DEF TapeInv

(* The checksum and the trailer.                                           *)
Closed(p) == [p EXCEPT !.binary_data_output = FALSE, !.checksum = 0]

(* What punchChecksum resets leaves the tape.                              *)
LEMMA ClosedFields ==
  ASSUME NEW p, Puncher(p)
  PROVE  /\ Puncher(Closed(p)) /\ TapeOf(Closed(p)) = TapeOf(p)
         /\ On(p) => On(Closed(p))
         /\ Bin(p) => Bin(Closed(p))
<1> DEFINE b == Closed(p)
<1>1. PunchFields \subseteq DOMAIN p /\ TapeOf(p) \in Seq(Frames) /\ (On(p) \/ Off(p))
  BY DEF Puncher
<1>2. /\ DOMAIN b = DOMAIN p /\ b.tape = p.tape /\ b.checksum = 0
      /\ b.rim_mode = p.rim_mode /\ b.objectfile = p.objectfile
  BY <1>1 DEF Closed, PunchFields
<1> HIDE DEF b
<1>3. TapeOf(b) = TapeOf(p) /\ SumOf(b) = 0
  BY <1>2 DEF TapeOf, SumOf
<1>4. (On(b) <=> On(p)) /\ (Off(b) <=> Off(p)) /\ (Bin(b) <=> Bin(p))
  BY <1>2 DEF On, Off, Bin
<1>5. 0 \in Word
  BY DEF Word
<1>6. Puncher(b)
  BY <1>1, <1>2, <1>3, <1>4, <1>5 DEF Puncher
<1> QED BY <1>3, <1>4, <1>6 DEF b

Ended(p, t) == [p EXCEPT !.tape = t]

(* What the trailer leaves of the record.                                  *)
LEMMA EndedFields ==
  ASSUME NEW p, Puncher(p), NEW t \in Seq(Frames)
  PROVE  /\ Puncher(Ended(p, t)) /\ TapeOf(Ended(p, t)) = t
         /\ Bin(p) => Bin(Ended(p, t))
<1> DEFINE b == Ended(p, t)
<1>1. PunchFields \subseteq DOMAIN p /\ SumOf(p) \in Word /\ (On(p) \/ Off(p))
  BY DEF Puncher
<1>2. /\ DOMAIN b = DOMAIN p /\ b.tape = t /\ b.checksum = p.checksum
      /\ b.rim_mode = p.rim_mode /\ b.objectfile = p.objectfile
  BY <1>1 DEF Ended, PunchFields
<1> HIDE DEF b
<1>3. TapeOf(b) = t /\ SumOf(b) = SumOf(p)
  BY <1>2 DEF TapeOf, SumOf
<1>4. (On(b) <=> On(p)) /\ (Off(b) <=> Off(p)) /\ (Bin(b) <=> Bin(p))
  BY <1>2 DEF On, Off, Bin
<1>5. Puncher(b)
  BY <1>1, <1>2, <1>3, <1>4 DEF Puncher
<1> QED BY <1>3, <1>4, <1>5 DEF b

Trailed(s) == s \o [i \in 1..TrailerFrames |-> \o200]

(* The trailer starts with a leader frame.                                 *)
LEMMA Trailer ==
  ASSUME NEW s \in Seq(Frames)
  PROVE  Trailed(s) \in Seq(Frames) /\ Trailed(s)[Len(s) + 1] = 128
<1> DEFINE e == [i \in 1..TrailerFrames |-> \o200]
<1>1. e \in Seq(Frames) /\ Len(e) = TrailerFrames /\ e[1] = 128
  BY FrameCounts DEF Frames
<1> HIDE DEF e
<1>2. s \o e \in Seq(Frames) /\ (s \o e)[Len(s) + 1] = e[1]
  BY <1>1, FrameCounts
<1> QED BY <1>1, <1>2 DEF e, Trailed

(* The end of the assembly.                                                *)
LEMMA FinishStep ==
  ASSUME TapeInv, Finish
  PROVE  TapeInv' /\ reader'.st = "end"
<1> DEFINE a == Enabled(punch, TRUE)
           sum == SumOf(punch)
           h == sum \div 64
           c == sum % 64
           p == punchLocObject(a, 0, sum)
           closed == Closed(p)
           tape == Trailed(TapeOf(closed))
           ended == Ended(closed, tape)
<1>1. /\ reader.st = "hi" /\ Puncher(punch) /\ Bin(punch) /\ Data(punch)
      /\ DOMAIN at = {"field", "loc"} /\ Follows(reader, sum, written, at.field, at.loc) /\ sum \in Word
  BY DEF Finish, Underway, TapeInv, Puncher
<1>2. /\ Puncher(a) /\ On(a) /\ Bin(a) /\ Data(a) /\ TapeOf(a) = TapeOf(punch) /\ SumOf(a) = sum
  BY <1>1, EnabledFields
<1>3. punchChecksum(a) = closed
  <2> HIDE DEF a
  <2> QED BY <1>2 DEF punchChecksum, Data, Bin, SumOf, Closed
<1>4. sum \in Int /\ sum % 4096 = sum
  <2> HIDE DEF sum
  <2>1. sum % 4096 = sum
    BY <1>1, TwoHalves
  <2> QED BY <1>1, <2>1 DEF Word
<1>5. Pair(a, p, h, c)
  <2> HIDE DEF a, sum
  <2>1. Pair(a, p, (sum % 4096) \div 64, (sum % 4096) % 64)
    BY <1>2, <1>4, WordPair
  <2> QED BY <1>4, <2>1
<1> HIDE DEF a, p, sum
<1>6. Puncher(p) /\ On(p) /\ Bin(p)
  BY <1>2, <1>5 DEF Pair, Alike
<1>7. Puncher(closed) /\ TapeOf(closed) = TapeOf(p) /\ On(closed) /\ Bin(closed)
  BY <1>6, ClosedFields
<1> HIDE DEF closed
<1>8. punchLeader(closed, TrailerFrames) = ended
  BY <1>7 DEF punchLeader, On, Ended, TapeOf, Trailed
<1>9. tape \in Seq(Frames) /\ tape[Len(TapeOf(closed)) + 1] = 128
  <2>1. TapeOf(closed) \in Seq(Frames)
    BY <1>7 DEF Puncher
  <2> QED BY <2>1, Trailer
<1> HIDE DEF tape
<1>10. Puncher(ended) /\ Bin(ended) /\ TapeOf(ended) = tape
  BY <1>7, <1>9, EndedFields
<1> HIDE DEF ended
<1>11. /\ punch' = ended /\ written' = written /\ at' = at
       /\ reader' = BinFrame(ReadOn(reader, TapeOf(punch), TapeOf(closed)),
                             TapeOf(ended)[Len(TapeOf(closed)) + 1])
  BY <1>3, <1>8 DEF Finish, Enabled, TapeOf, a
<1>12. ReadOn(reader, TapeOf(punch), TapeOf(closed)) = BinFrame(BinFrame(reader, h), c)
  BY <1>2, <1>5, <1>7, ReadsPair
<1>13. reader' = BinFrame(BinFrame(BinFrame(reader, h), c), 128)
  BY <1>9, <1>10, <1>11, <1>12
<1>14. reader'.st = "end" /\ reader'.status = "OK" /\ reader'.core = written
  BY <1>1, <1>13, FollowsEnd
<1> QED BY <1>1, <1>10, <1>11, <1>14 DEF TapeInv

(* TapeInv is inductive: one lemma for each of the six actions.            *)
LEMMA TapeInductive == Spec => []TapeInv
<1>1. TapeInv /\ [Next]_tapeVars => TapeInv'
  <2> SUFFICES ASSUME TapeInv, [Next]_tapeVars PROVE TapeInv'
    OBVIOUS
  <2>1. CASE Begin
    <3>1. \o200 \in Int /\ reader.st = "leader" /\ Origin(\o200)
      BY <2>1 DEF Begin
    <3> QED BY <3>1, OriginStep
  <2>2. CASE NewOrigin
    <3>1. PICK loc \in Int : Origin(loc)
      BY <2>2 DEF NewOrigin
    <3>2. reader.st = "hi"
      BY <2>2 DEF NewOrigin, Underway
    <3> QED BY <3>1, <3>2, OriginStep
  <2>3. CASE NewWord
    BY <2>3, WordStep
  <2>4. CASE NewField
    BY <2>4, FieldStep
  <2>5. CASE EnableOrNot
    BY <2>5, EnableStep
  <2>6. CASE Finish
    BY <2>6, FinishStep
  <2>7. CASE UNCHANGED tapeVars
    BY <2>7 DEF tapeVars, TapeInv
  <2> QED BY <2>1, <2>2, <2>3, <2>4, <2>5, <2>6, <2>7 DEF Next
<1> QED BY <1>1, TapeInitially, PTL DEF Spec

(* The loader finds the checksum of every BIN tape right, whatever words,  *)
(* origins and fields palbart was made to punch and to leave out, and      *)
(* however many (palbart.c:2916-2982 and 3825-3834, pdp8_sys.c:148-169).   *)
THEOREM TapesAccepted == Spec => []ChecksumCounted
<1>1. TapeInv => ChecksumCounted
  BY DEF TapeInv, ChecksumCounted
<1> QED BY <1>1, TapeInductive, PTL

(* And it has then in memory what was punched and nothing else, each word  *)
(* where the tape had come to.                                             *)
THEOREM TapesPlaced == Spec => []WordsPlaced
<1>1. TapeInv => WordsPlaced
  BY DEF TapeInv, WordsPlaced
<1> QED BY <1>1, TapeInductive, PTL

-----------------------------------------------------------------------------
(* A pair of frames is on the tape in order.                               *)
LEMMA TwoFrames ==
  ASSUME NEW a, Puncher(a), On(a), NEW h \in Frames, NEW c \in Frames
  PROVE  /\ Puncher(punchPair(a, h, c)) /\ On(punchPair(a, h, c))
         /\ TapeOf(punchPair(a, h, c)) = Append(Append(TapeOf(a), h), c)
<1> DEFINE m == punchObject(a, h)
           b == punchObject(m, c)
<1>1. Puncher(m) /\ On(m) /\ TapeOf(m) = Append(TapeOf(a), h)
  BY PunchOne DEF Alike
<1> HIDE DEF m
<1>2. Alike(m, b) /\ TapeOf(b) = Append(TapeOf(m), c)
  BY <1>1, PunchOne
<1> HIDE DEF b
<1>3. Puncher(b) /\ On(b) /\ TapeOf(b) = Append(Append(TapeOf(a), h), c)
  BY <1>1, <1>2 DEF Alike
<1> QED BY <1>3 DEF punchPair, b, m

Longer4(t, e) == Append(Append(Append(Append(t, e[1]), e[2]), e[3]), e[4])

(* In RIM mode a word is an entry: palbart punches the four frames that    *)
(* rim.c writes and RimEntryLoaded is about, whatever the location and the *)
(* word (palbart.c:3009-3018, rim.c:51-62).                                *)
THEOREM RimEntryPunched ==
  ASSUME NEW a, Puncher(a), On(a), a.rim_mode = TRUE, NEW loc \in Int, NEW val \in Int
  PROVE  TapeOf(punchLocObject(a, loc, val))
           = Longer4(TapeOf(a), RimEntry(loc % 4096, val % 4096))
<1> DEFINE e == RimEntry(loc % 4096, val % 4096)
           h == ((loc \div 64) % 64) + 64
           c == loc % 64
           i == (val \div 64) % 64
           d == val % 64
           m == punchPair(a, h, c)
           b == punchPair(m, i, d)
<1>1. punchLocObject(a, loc, val) = b
  BY DEF punchLocObject, punchOrigin
<1>2. h \in Frames /\ c \in Frames /\ i \in Frames /\ d \in Frames
  <2>1. \A n \in Int : n % 64 \in 0..63
    OBVIOUS
  <2>2. loc \div 64 \in Int /\ val \div 64 \in Int
    OBVIOUS
  <2> QED BY <2>1, <2>2 DEF Frames
<1>3. e[1] = h /\ e[2] = c /\ e[3] = i /\ e[4] = d
  <2>1. \A n \in Int : ((n % 4096) \div 64) % 64 = (n \div 64) % 64 /\ (n % 4096) % 64 = n % 64
    OBVIOUS
  <2>2. /\ e[1] = ((((loc % 4096) \div 64) % 64) + 64) /\ e[2] = (loc % 4096) % 64
        /\ e[3] = ((val % 4096) \div 64) % 64 /\ e[4] = (val % 4096) % 64
    BY DEF RimEntry
  <2> HIDE DEF e
  <2> QED BY <2>1, <2>2
<1> HIDE DEF h, c, i, d
<1>4. Puncher(m) /\ On(m) /\ TapeOf(m) = Append(Append(TapeOf(a), h), c)
  BY <1>2, TwoFrames
<1> HIDE DEF m
<1>5. TapeOf(b) = Append(Append(TapeOf(m), i), d)
  BY <1>2, <1>4, TwoFrames
<1> HIDE DEF b, e
<1>6. TapeOf(b) = Longer4(TapeOf(a), e)
  BY <1>3, <1>4, <1>5 DEF Longer4
<1> QED BY <1>1, <1>6 DEF e

-----------------------------------------------------------------------------
(* What the loader makes of the whole tape: sim_load_bin is a loop over    *)
(* its frames, whose body is BinFrame.                                     *)
Reading(_c, l, e) == BinFrame(l, e)
Settling(g, i, l) == l = IF i = 0 THEN g[1] ELSE g[2]

Reader == INSTANCE Folding WITH Body <- Reading, Good <- Settling

(* sim_load_bin is that loop.                                              *)
LEMMA LoaderLoop ==
  ASSUME NEW tape
  PROVE  sim_load_bin(tape) = Reader!Fold(0, Loader, tape)
  BY DEF sim_load_bin, Reading, Reader!Fold, FoldLeft, MapThenFoldSet, Reader!FoldLeft,
         Reader!MapThenFoldSet, Max, Reader!Max

(* It reads one frame more.                                                *)
LEMMA OneFrameMore ==
  ASSUME NEW t \in Seq(Frames), NEW e \in Frames
  PROVE  sim_load_bin(Append(t, e)) = BinFrame(sim_load_bin(t), e)
<1>1. Reader!Fold(0, Loader, Append(t, e)) = Reading(0, Reader!Fold(0, Loader, t), e)
  BY Reader!FoldAppend
<1> QED BY <1>1, LoaderLoop DEF Reading

(* A loader that one leader frame brings where the next ones leave it is   *)
(* there after any number of them.                                         *)
LEMMA Settled ==
  ASSUME NEW l, NEW m, BinFrame(l, 128) = m, BinFrame(m, 128) = m,
         NEW t \in Seq(Frames), t # <<>>, \A i \in 1..Len(t) : t[i] = 128
  PROVE  Reader!Fold(0, l, t) = m
<1> DEFINE g == <<l, m>>
<1>1. g[1] = l /\ g[2] = m /\ Len(t) \in Nat /\ Len(t) # 0
  OBVIOUS
<1> HIDE DEF g
<1>2. Settling(g, 0, l)
  BY <1>1 DEF Settling
<1>3. ASSUME NEW i \in 1..Len(t), NEW x, Settling(g, i - 1, x)
      PROVE  Settling(g, i, Reading(0, x, t[i]))
  <2>1. x = l \/ x = m
    BY <1>1, <1>3 DEF Settling
  <2>2. Reading(0, x, t[i]) = m
    BY <2>1 DEF Reading
  <2> QED BY <1>1, <2>2 DEF Settling
<1>4. Settling(g, Len(t), Reader!Fold(0, l, t))
  BY <1>2, <1>3, Reader!FoldKeeps
<1> QED BY <1>1, <1>4 DEF Settling

(* A leader, of any length.                                                *)
LEMMA LeaderRead == sim_load_bin([i \in 1..LeaderFrames |-> 128]) = Loader
<1> DEFINE t == [i \in 1..LeaderFrames |-> 128]
<1>1. t \in Seq(Frames) /\ Len(t) = LeaderFrames /\ \A i \in 1..LeaderFrames : t[i] = 128
  BY FrameCounts DEF Frames
<1> HIDE DEF t
<1>2. BinFrame(Loader, 128) = Loader
  <2>1. Loader.st = "leader" /\ Loader.rubout = FALSE
    BY DEF Loader
  <2>2. BinChar(Loader, 128) = Loader
    BY <2>1 DEF BinChar, IsLeader
  <2> QED BY <2>1, <2>2 DEF BinFrame, Loading
<1>3. t # <<>>
  BY <1>1, FrameCounts
<1>4. Reader!Fold(0, Loader, t) = Loader
  BY <1>1, <1>2, <1>3, Settled
<1> QED BY <1>4, LoaderLoop DEF t

(* The frames that ReadOn reads are those of the longer tape.              *)
LEMMA ReadOnPair ==
  ASSUME NEW a, Puncher(a), NEW h \in Frames, NEW c \in Frames, NEW b, Pair(a, b, h, c)
  PROVE  ReadOn(sim_load_bin(TapeOf(a)), TapeOf(a), TapeOf(b)) = sim_load_bin(TapeOf(b))
<1> DEFINE l == sim_load_bin(TapeOf(a))
<1>1. TapeOf(a) \in Seq(Frames) /\ (On(a) \/ Off(a))
  BY DEF Puncher
<1>2. CASE On(a)
  <2>1. ReadOn(l, TapeOf(a), TapeOf(b)) = BinFrame(BinFrame(l, h), c)
    <3> HIDE DEF l
    <3> QED BY <1>2, ReadsPair
  <2>2. Append(TapeOf(a), h) \in Seq(Frames)
    BY <1>1
  <2>3. sim_load_bin(Append(TapeOf(a), h)) = BinFrame(l, h)
    BY <1>1, OneFrameMore
  <2>4. sim_load_bin(Append(Append(TapeOf(a), h), c)) = BinFrame(BinFrame(l, h), c)
    BY <2>2, <2>3, OneFrameMore
  <2>5. TapeOf(b) = Append(Append(TapeOf(a), h), c)
    BY <1>2 DEF Pair
  <2> QED BY <2>1, <2>4, <2>5
<1>3. CASE Off(a)
  <2>1. ReadOn(l, TapeOf(a), TapeOf(b)) = l
    <3> HIDE DEF l
    <3> QED BY <1>3, ReadsPair
  <2> QED BY <1>3, <2>1 DEF Pair
<1> QED BY <1>1, <1>2, <1>3

(* The loader that reads each frame as it is punched is where sim_load_bin *)
(* gets on the tape punched so far.                                        *)
Caught == reader = sim_load_bin(TapeOf(punch))

(* Neither an origin nor a word loses it.                                  *)
LEMMA CaughtUp ==
  ASSUME Caught, Puncher(punch), NEW h \in Frames, NEW c \in Frames, Pair(punch, punch', h, c),
         reader' = ReadOn(reader, TapeOf(punch), TapeOf(punch'))
  PROVE  Caught'
  BY ReadOnPair DEF Caught

LEMMA OriginCaught ==
  ASSUME TapeInv, Caught, NEW loc \in Int, Origin(loc)
  PROVE  Caught'
<1> DEFINE v == loc % 4096
           h == (v \div 64) + 64
           c == v % 64
<1>1. punch' = punchOrigin(punch, loc) /\ reader' = ReadOn(reader, TapeOf(punch), TapeOf(punch'))
  BY DEF Origin, Punch, TapeOf
<1>2. Puncher(punch)
  BY DEF TapeInv
<1>3. Pair(punch, punch', h, c)
  <2>1. OriginOn(punch, punch', loc)
    BY <1>1, <1>2, OriginPair
  <2> QED BY <2>1 DEF OriginOn
<1>4. h \in Frames /\ c \in Frames
  <2>1. v \in 0..4095
    BY LowBits DEF Word
  <2> HIDE DEF v
  <2> QED BY <2>1 DEF Frames
<1> HIDE DEF h, c
<1> QED BY <1>1, <1>2, <1>3, <1>4, CaughtUp

LEMMA WordCaught ==
  ASSUME TapeInv, Caught, NewWord
  PROVE  Caught'
<1>1. PICK loc \in Int, val \in Int :
        /\ punch' = punchLocObject(punch, loc, val)
        /\ reader' = ReadOn(reader, TapeOf(punch), TapeOf(punch'))
  BY DEF NewWord, Punch, TapeOf
<1> DEFINE v == val % 4096
           h == v \div 64
           c == v % 64
<1>2. Puncher(punch) /\ Bin(punch)
  BY DEF TapeInv
<1>3. Pair(punch, punch', h, c)
  BY <1>1, <1>2, WordPair
<1>4. h \in Frames /\ c \in Frames
  <2>1. v \in 0..4095
    BY LowBits DEF Word
  <2> HIDE DEF v
  <2> QED BY <2>1 DEF Frames
<1> HIDE DEF h, c
<1> QED BY <1>1, <1>2, <1>3, <1>4, CaughtUp

LEMMA FieldCaught ==
  ASSUME TapeInv, Caught, NewField
  PROVE  Caught'
<1>1. PICK g \in 0..7 :
        /\ punch' = FieldFrame(punch, g)
        /\ reader' = ReadOn(reader, TapeOf(punch), TapeOf(punch'))
  BY DEF NewField, Punch, TapeOf
<1>2. Puncher(punch) /\ TapeOf(punch) \in Seq(Frames) /\ (On(punch) \/ Off(punch))
  BY DEF TapeInv, Puncher
<1> DEFINE fr == 192 + 8 * g
<1>3. /\ On(punch) => TapeOf(punch') = Append(TapeOf(punch), fr)
      /\ Off(punch) => TapeOf(punch') = TapeOf(punch)
  BY <1>1, <1>2, PunchField
<1>4. fr \in Frames
  BY DEF Frames
<1> HIDE DEF fr
<1>5. CASE On(punch)
  <2>1. /\ Len(TapeOf(punch')) = Len(TapeOf(punch)) + 1
        /\ TapeOf(punch')[Len(TapeOf(punch)) + 1] = fr /\ Len(TapeOf(punch)) \in Nat
    BY <1>2, <1>3, <1>4, <1>5, Longer
  <2>2. reader' = BinFrame(reader, fr)
    BY <1>1, <2>1 DEF ReadOn
  <2> QED BY <1>2, <1>3, <1>4, <1>5, <2>2, OneFrameMore DEF Caught
<1>6. CASE Off(punch)
  <2>1. reader' = reader
    BY <1>1, <1>3, <1>6 DEF ReadOn
  <2> QED BY <1>3, <1>6, <2>1 DEF Caught
<1> QED BY <1>2, <1>5, <1>6

(* The loader that has ended looks at nothing more: the rest of a trailer  *)
(* leaves it as the first frame did.                                       *)
LEMMA TrailerRead ==
  ASSUME NEW t \in Seq(Frames), BinFrame(sim_load_bin(t), 128).st = "end"
  PROVE  sim_load_bin(Trailed(t)) = BinFrame(sim_load_bin(t), 128)
<1> DEFINE e == [i \in 1..TrailerFrames |-> \o200]
           l == BinFrame(sim_load_bin(t), 128)
<1>1. e \in Seq(Frames) /\ Len(e) = TrailerFrames /\ \A i \in 1..TrailerFrames : e[i] = 128
  BY FrameCounts DEF Frames
<1>2. Trailed(t) = t \o e
  BY DEF Trailed
<1> HIDE DEF e
<1>3. e # <<>>
  BY <1>1, FrameCounts
<1>4. BinFrame(l, 128) = l
  <2> HIDE DEF l
  <2>1. l.st = "end"
    BY DEF l
  <2> QED BY <2>1 DEF BinFrame, Loading
<1>5. Reader!Fold(0, sim_load_bin(t), e) = l
  BY <1>1, <1>3, <1>4, Settled
<1>6. sim_load_bin(t \o e) = Reader!Fold(0, sim_load_bin(t), e)
  <2>1. Reader!Fold(0, Loader, t \o e) = Reader!Fold(0, Reader!Fold(0, Loader, t), e)
    BY <1>1, Reader!FoldConcat
  <2> QED BY <2>1, LoaderLoop
<1> QED BY <1>2, <1>5, <1>6

(* The end of the assembly.                                                *)
LEMMA FinishCaught ==
  ASSUME TapeInv, Caught, Finish
  PROVE  Caught'
<1> DEFINE a == Enabled(punch, TRUE)
           sum == SumOf(punch)
           h == sum \div 64
           c == sum % 64
           p == punchLocObject(a, 0, sum)
           closed == Closed(p)
           tape == Trailed(TapeOf(closed))
           ended == Ended(closed, tape)
           l == sim_load_bin(TapeOf(closed))
<1>1. /\ reader.st = "hi" /\ Puncher(punch) /\ Bin(punch) /\ Data(punch) /\ sum \in Word
  BY DEF Finish, Underway, TapeInv, Puncher
<1>2. /\ Puncher(a) /\ On(a) /\ Bin(a) /\ Data(a) /\ TapeOf(a) = TapeOf(punch) /\ SumOf(a) = sum
  BY <1>1, EnabledFields
<1>3. punchChecksum(a) = closed
  <2> HIDE DEF a
  <2> QED BY <1>2 DEF punchChecksum, Data, Bin, SumOf, Closed
<1>4. sum \in Int /\ sum % 4096 = sum /\ h \in Frames /\ c \in Frames
  <2> HIDE DEF sum
  <2>1. sum % 4096 = sum /\ h \in 0..63 /\ c \in 0..63
    BY <1>1, TwoHalves
  <2> QED BY <1>1, <2>1 DEF Word, Frames
<1>5. Pair(a, p, h, c)
  <2> HIDE DEF a, sum
  <2>1. Pair(a, p, (sum % 4096) \div 64, (sum % 4096) % 64)
    BY <1>2, <1>4, WordPair
  <2> QED BY <1>4, <2>1
<1> HIDE DEF a, p, sum, h, c
<1>6. Puncher(p) /\ On(p) /\ Bin(p)
  BY <1>2, <1>5 DEF Pair, Alike
<1>7. Puncher(closed) /\ TapeOf(closed) = TapeOf(p) /\ On(closed) /\ Bin(closed)
  BY <1>6, ClosedFields
<1> HIDE DEF closed
<1>8. punchLeader(closed, TrailerFrames) = ended
  BY <1>7 DEF punchLeader, On, Ended, TapeOf, Trailed
<1>9. TapeOf(closed) \in Seq(Frames) /\ tape[Len(TapeOf(closed)) + 1] = 128
      /\ tape \in Seq(Frames)
  <2>1. TapeOf(closed) \in Seq(Frames)
    BY <1>7 DEF Puncher
  <2> QED BY <2>1, Trailer
<1> HIDE DEF tape
<1>10. TapeOf(ended) = tape
  BY <1>7, <1>9, EndedFields
<1> HIDE DEF ended, l
<1>11. /\ punch' = ended
       /\ reader' = BinFrame(ReadOn(reader, TapeOf(punch), TapeOf(closed)),
                             TapeOf(ended)[Len(TapeOf(closed)) + 1])
  BY <1>3, <1>8 DEF Finish, Enabled, TapeOf, a
<1>12. ReadOn(reader, TapeOf(punch), TapeOf(closed)) = l
  <2>1. ReadOn(sim_load_bin(TapeOf(a)), TapeOf(a), TapeOf(p)) = sim_load_bin(TapeOf(p))
    BY <1>2, <1>4, <1>5, ReadOnPair
  <2> QED BY <1>2, <1>7, <2>1 DEF Caught, l
<1>13. reader' = BinFrame(l, 128)
  BY <1>9, <1>10, <1>11, <1>12
<1>14. reader'.st = "end"
  BY FinishStep
<1>15. sim_load_bin(tape) = BinFrame(l, 128)
  <2>1. BinFrame(l, 128).st = "end"
    BY <1>13, <1>14
  <2> QED BY <1>9, <2>1, TrailerRead DEF tape, l
<1> QED BY <1>10, <1>11, <1>13, <1>15 DEF Caught

(* It never loses it.                                                      *)
LEMMA CaughtAlways == Spec => [](TapeInv /\ Caught)
<1>1. Init => Caught
  <2> SUFFICES ASSUME Init PROVE Caught
    OBVIOUS
  <2>1. TapeOf(punch) = [i \in 1..LeaderFrames |-> 128] /\ reader = Loader
    BY DEF Init, TapeOf
  <2> QED BY <2>1, LeaderRead DEF Caught
<1>2. TapeInv /\ Caught /\ [Next]_tapeVars => Caught'
  <2> SUFFICES ASSUME TapeInv, Caught, [Next]_tapeVars PROVE Caught'
    OBVIOUS
  <2>1. CASE Begin
    <3>1. \o200 \in Int /\ Origin(\o200)
      BY <2>1 DEF Begin
    <3> QED BY <3>1, OriginCaught
  <2>2. CASE NewOrigin
    <3>1. PICK loc \in Int : Origin(loc)
      BY <2>2 DEF NewOrigin
    <3> QED BY <3>1, OriginCaught
  <2>3. CASE NewWord
    BY <2>3, WordCaught
  <2>4. CASE NewField
    BY <2>4, FieldCaught
  <2>5. CASE EnableOrNot
    <3>1. PICK on \in BOOLEAN : punch' = Enabled(punch, on)
      BY <2>5 DEF EnableOrNot, Enabled
    <3>2. TapeOf(punch') = TapeOf(punch)
      BY <3>1, EnabledFields DEF TapeInv
    <3> QED BY <2>5, <3>2 DEF EnableOrNot, Caught
  <2>6. CASE Finish
    BY <2>6, FinishCaught
  <2>7. CASE UNCHANGED tapeVars
    BY <2>7 DEF tapeVars, Caught
  <2> QED BY <2>1, <2>2, <2>3, <2>4, <2>5, <2>6, <2>7 DEF Next
<1> QED BY <1>1, <1>2, TapeInductive, PTL DEF Spec

(* The finished tape, leader, trailer and all, through sim_load_bin in one *)
(* go: it is accepted, and memory is what was punched (palbart.c:2916-2982 *)
(* and 3825-3834, pdp8_sys.c:109-169).                                     *)
LoadedWhole == reader.st = "end" => /\ sim_load_bin(punch.tape).status = "OK"
                                    /\ sim_load_bin(punch.tape).core = written

THEOREM FinishedTapeLoads == Spec => []LoadedWhole
<1>1. TapeInv /\ Caught => LoadedWhole
  BY DEF TapeInv, Caught, LoadedWhole, TapeOf
<1> QED BY <1>1, CaughtAlways, PTL

-----------------------------------------------------------------------------
(* A whole table through rim.c and sim_load_rim, whose loop is a fold too. *)
RimReading(_c, l, e) == RimFrame(l, e)
Whatever(_g, _i, _l) == TRUE

RimReader == INSTANCE Folding WITH Body <- RimReading, Good <- Whatever

LEMMA RimLoop ==
  ASSUME NEW tape
  PROVE  sim_load_rim(tape) = RimReader!Fold(0, Loader, tape)
  BY DEF sim_load_rim, RimReading, RimReader!Fold, FoldLeft, MapThenFoldSet,
         RimReader!FoldLeft, RimReader!MapThenFoldSet, Max, RimReader!Max

(* Four frames are read one after another.                                 *)
LEMMA FourRead ==
  ASSUME NEW l, NEW e \in Seq(Frames), Len(e) = 4
  PROVE  RimReader!Fold(0, l, e) = FourFrames(l, e)
<1>1. PICK f : RimReader!Steps(f, 0, l, e) /\ RimReader!Fold(0, l, e) = f[Len(e)]
  BY RimReader!FoldSteps
<1>2. f[0] = l /\ \A i \in 1..4 : f[i] = RimFrame(f[i - 1], e[i])
  BY <1>1 DEF RimReader!Steps, RimReading
<1>3. /\ f[1] = RimFrame(f[0], e[1]) /\ f[2] = RimFrame(f[1], e[2])
      /\ f[3] = RimFrame(f[2], e[3]) /\ f[4] = RimFrame(f[3], e[4])
  BY <1>2
<1> QED BY <1>1, <1>2, <1>3 DEF FourFrames

(* The entries of a table, one behind the other.                           *)
Joined(f, s) == f[1] = s[1] /\ \A i \in 2..Len(s) : f[i] = f[i - 1] \o s[i]

IsFlat(f, s, n) == f = [i \in 1..n |-> IF i = 1 THEN s[i] ELSE f[i - 1] \o s[i]]

LEMMA FlatExists ==
  ASSUME NEW s, NEW n \in Nat
  PROVE  \E f : IsFlat(f, s, n)
<1> DEFINE S == {k \in Nat : \E f : IsFlat(f, s, k)}
<1>1. 0 \in S
  <2> DEFINE f == [i \in 1..0 |-> 0]
  <2>1. f = [i \in 1..0 |-> IF i = 1 THEN s[i] ELSE f[i - 1] \o s[i]]
    OBVIOUS
  <2> HIDE DEF f
  <2> QED BY <2>1 DEF IsFlat
<1>2. ASSUME NEW k \in S PROVE k + 1 \in S
  <2>1. k \in Nat /\ \E f : IsFlat(f, s, k)
    BY <1>2
  <2>2. PICK f : IsFlat(f, s, k)
    BY <2>1
  <2> DEFINE g == [i \in 1..(k + 1) |->
                     IF i = 1 THEN s[i] ELSE f[i - 1] \o s[i]]
  <2>3. ASSUME NEW i \in 1..k PROVE g[i] = f[i]
    <3>1. g[i] = IF i = 1 THEN s[i] ELSE f[i - 1] \o s[i]
      BY <2>1
    <3>2. f[i] = IF i = 1 THEN s[i] ELSE f[i - 1] \o s[i]
      BY <2>2 DEF IsFlat
    <3> QED BY <3>1, <3>2
  <2>4. ASSUME NEW i \in 1..(k + 1)
        PROVE  g[i] = IF i = 1 THEN s[i] ELSE g[i - 1] \o s[i]
    <3>1. CASE i = 1
      BY <3>1
    <3>2. CASE i # 1
      <4>1. i - 1 \in 1..k
        BY <2>1, <3>2
      <4>2. g[i - 1] = f[i - 1]
        BY <2>3, <4>1
      <4>3. g[i] = f[i - 1] \o s[i]
        BY <3>2
      <4> QED BY <3>2, <4>2, <4>3
    <3> QED BY <3>1, <3>2
  <2>5. g = [i \in 1..(k + 1) |-> g[i]]
    OBVIOUS
  <2> HIDE DEF g
  <2>6. IsFlat(g, s, k + 1)
    BY <2>4, <2>5 DEF IsFlat
  <2> QED BY <2>1, <2>6
<1>3. S \in SUBSET Nat
  OBVIOUS
<1> HIDE DEF S
<1>4. n \in S
  BY <1>1, <1>2, <1>3, Reader!AllNaturals
<1> QED BY <1>4 DEF S

LEMMA Flattened ==
  ASSUME NEW T, NEW s \in Seq(T), s # <<>>
  PROVE  \E f : Joined(f, s) /\ FlattenSeq(s) = f[Len(s)]
<1> DEFINE n == Len(s)
           f == CHOOSE h : IsFlat(h, s, n)
<1>1. n \in Nat /\ n # 0
  OBVIOUS
<1>2. IsFlat(f, s, n)
  BY <1>1, FlatExists
<1>3. FlattenSeq(s) = f[n]
  BY <1>1 DEF FlattenSeq, IsFlat
<1> HIDE DEF f
<1>4. \A i \in 1..n : f[i] = IF i = 1 THEN s[i] ELSE f[i - 1] \o s[i]
  BY <1>2 DEF IsFlat
<1>5. f[1] = s[1] /\ \A i \in 2..n : f[i] = f[i - 1] \o s[i]
  <2>1. 1 \in 1..n
    BY <1>1
  <2>2. \A i \in 2..n : i \in 1..n /\ i # 1
    BY <1>1
  <2> QED BY <1>4, <2>1, <2>2
<1> QED BY <1>3, <1>5 DEF Joined

(* Memory after the first i entries: the last one for an address counts.   *)
Entries == Int \X Int
AddressOf(e) == e[1] % 4096
WordOf(e) == e[2] % 4096

HoldsTable(core, table, n) ==
  /\ DOMAIN core = {AddressOf(table[i]) : i \in 1..n}
  /\ \A i \in 1..n : (\A j \in (i + 1)..n : AddressOf(table[j]) # AddressOf(table[i]))
                       => core[AddressOf(table[i])] = WordOf(table[i])

(* One entry more.                                                         *)
LEMMA OneEntryMore ==
  ASSUME NEW core, NEW table, NEW n \in Nat, HoldsTable(core, table, n), NEW new,
         new = Stored(core, AddressOf(table[n + 1]), WordOf(table[n + 1]))
  PROVE  HoldsTable(new, table, n + 1)
<1> DEFINE k == AddressOf(table[n + 1])
           w == WordOf(table[n + 1])
           A(i) == AddressOf(table[i])
<1>1. DOMAIN new = DOMAIN core \cup {k} /\ new[k] = w
      /\ \A j \in DOMAIN core : j # k => new[j] = core[j]
  BY DEF Stored
<1>2. 1..(n + 1) = (1..n) \cup {n + 1}
  OBVIOUS
<1>3. DOMAIN new = {A(i) : i \in 1..(n + 1)}
  BY <1>1, <1>2 DEF HoldsTable
<1>4. ASSUME NEW i \in 1..(n + 1), \A j \in (i + 1)..(n + 1) : A(j) # A(i)
      PROVE  new[A(i)] = WordOf(table[i])
  <2>1. CASE i = n + 1
    BY <1>1, <2>1
  <2>2. CASE i # n + 1
    <3>1. i \in 1..n /\ n + 1 \in (i + 1)..(n + 1) /\ (i + 1)..n \subseteq (i + 1)..(n + 1)
      BY <2>2
    <3>2. A(i) # k /\ A(i) \in DOMAIN core
      BY <1>4, <3>1 DEF HoldsTable
    <3>3. core[A(i)] = WordOf(table[i])
      BY <1>4, <3>1 DEF HoldsTable
    <3> QED BY <1>1, <3>2, <3>3
  <2> QED BY <2>1, <2>2
<1> QED BY <1>3, <1>4 DEF HoldsTable

(* An entry is four frames, of the twelve bits of its address and word.    *)
LEMMA EntryKeepsBits ==
  ASSUME NEW addr \in Int, NEW data \in Int
  PROVE  RimEntry(addr, data) = RimEntry(addr % 4096, data % 4096)
<1>1. \A x \in Int : ((x % 4096) \div 64) % 64 = (x \div 64) % 64 /\ (x % 4096) % 64 = x % 64
  OBVIOUS
<1> QED BY <1>1 DEF RimEntry

LEMMA EntryFrames ==
  ASSUME NEW addr \in Int, NEW data \in Int
  PROVE  RimEntry(addr, data) \in Seq(Frames) /\ Len(RimEntry(addr, data)) = 4
<1>1. \A x \in Int : x % 64 \in 0..63
  OBVIOUS
<1>2. addr \div 64 \in Int /\ data \div 64 \in Int
  OBVIOUS
<1> DEFINE a == ((addr \div 64) % 64) + \o100
           b == addr % 64
           c == (data \div 64) % 64
           d == data % 64
<1>3. a \in Frames /\ b \in Frames /\ c \in Frames /\ d \in Frames
  BY <1>1, <1>2 DEF Frames
<1>4. RimEntry(addr, data) = <<a, b, c, d>>
  BY DEF RimEntry
<1> HIDE DEF a, b, c, d
<1>5. <<a, b, c, d>> \in Seq(Frames) /\ Len(<<a, b, c, d>>) = 4
  BY <1>3
<1> QED BY <1>4, <1>5

(* The loader reads the frames of one entry.                               *)
LEMMA EntryRead ==
  ASSUME NEW addr \in Int, NEW data \in Int,
         NEW l, DOMAIN l = LoaderFields, l.st \in {"leader", "hi"}, NEW m,
         m = RimReader!Fold(0, l, RimEntry(addr, data))
  PROVE  /\ DOMAIN m = LoaderFields /\ m.st = "hi"
         /\ m.core = Stored(l.core, addr % 4096, data % 4096)
<1> DEFINE a == addr % 4096
           d == data % 4096
           e == RimEntry(a, d)
           r == FourFrames(l, e)
<1>1. a \in Word /\ d \in Word /\ a \in Int /\ d \in Int
  <2>1. \A x \in Int : x % 4096 \in 0..4095
    OBVIOUS
  <2> QED BY <2>1 DEF Word
<1>2. RimEntry(addr, data) = e
  BY EntryKeepsBits
<1> HIDE DEF a, d
<1>3. e \in Seq(Frames) /\ Len(e) = 4
  BY <1>1, EntryFrames
<1>4. DOMAIN r = LoaderFields /\ r.st = "hi" /\ r.core = Stored(l.core, a, d)
  BY <1>1, RimEntryLoaded
<1> HIDE DEF e
<1>5. RimReader!Fold(0, l, e) = r
  BY <1>3, FourRead
<1> HIDE DEF r
<1>6. m = r
  BY <1>2, <1>5
<1> QED BY <1>4, <1>6 DEF a, d

(* Whatever table rim.c is given, sim_load_rim makes of its tape the       *)
(* memory that has at each address the word of the last entry for it, and  *)
(* nothing anywhere else; entries keep twelve bits (rim.c:51-62,           *)
(* pdp8_sys.c:57-97).                                                      *)
THEOREM RimTableLoaded ==
  ASSUME NEW table \in Seq(Entries)
  PROVE  HoldsTable(sim_load_rim(RimFrames(table)).core, table, Len(table))
<1> DEFINE n == Len(table)
           s == [i \in DOMAIN table |-> RimEntry(table[i][1], table[i][2])]
<1>1. n \in Nat /\ DOMAIN table = 1..n /\ \A i \in 1..n : table[i] \in Entries
  OBVIOUS
<1>2. \A i \in 1..n : table[i][1] \in Int /\ table[i][2] \in Int
  BY <1>1 DEF Entries
<1>3. ASSUME NEW i \in 1..n
      PROVE  s[i] = RimEntry(table[i][1], table[i][2]) /\ s[i] \in Seq(Frames)
  <2>1. s[i] = RimEntry(table[i][1], table[i][2])
    BY <1>1
  <2> HIDE DEF s
  <2>2. table[i][1] \in Int /\ table[i][2] \in Int
    BY <1>2
  <2>3. RimEntry(table[i][1], table[i][2]) \in Seq(Frames)
    BY <2>2, EntryFrames
  <2> QED BY <2>1, <2>3
<1>4. s \in Seq(Seq(Frames)) /\ Len(s) = n
  BY <1>1, <1>3
<1>5. RimFrames(table) = FlattenSeq(s)
  BY DEF RimFrames
<1> HIDE DEF s
<1>6. CASE n = 0
  <2>1. FlattenSeq(s) = s /\ s = <<>>
    BY <1>4, <1>6 DEF FlattenSeq
  <2>2. sim_load_rim(RimFrames(table)) = Loader
    BY <1>5, <2>1, RimLoop, RimReader!FoldNothing
  <2>3. DOMAIN Loader.core = {}
    BY DEF Loader
  <2> QED BY <1>6, <2>2, <2>3 DEF HoldsTable
<1>7. CASE n # 0
  <2>1. s # <<>>
    BY <1>4, <1>7
  <2>2. PICK f : Joined(f, s) /\ FlattenSeq(s) = f[n]
    BY <1>4, <2>1, Flattened
  <2> DEFINE Ok(i) == LET l == RimReader!Fold(0, Loader, f[i]) IN
                      /\ f[i] \in Seq(Frames) /\ DOMAIN l = LoaderFields /\ l.st = "hi"
                      /\ HoldsTable(l.core, table, i)
             S == {i \in Nat : i + 1 <= n => Ok(i + 1)}
  <2>3. 0 \in S
    <3> DEFINE l == RimReader!Fold(0, Loader, f[1])
    <3>1. 1 \in 1..n /\ f[1] = s[1]
      BY <1>1, <1>7, <2>2 DEF Joined
    <3>2. f[1] = RimEntry(table[1][1], table[1][2]) /\ f[1] \in Seq(Frames)
      BY <1>3, <3>1
    <3>3. DOMAIN Loader = LoaderFields /\ Loader.st = "leader" /\ DOMAIN Loader.core = {}
      BY DEF Loader, LoaderFields
    <3>4. /\ DOMAIN l = LoaderFields /\ l.st = "hi"
          /\ l.core = Stored(Loader.core, AddressOf(table[1]), WordOf(table[1]))
      BY <1>2, <3>1, <3>2, <3>3, EntryRead DEF AddressOf, WordOf
    <3>5. HoldsTable(Loader.core, table, 0)
      BY <3>3 DEF HoldsTable
    <3> HIDE DEF l
    <3>6. HoldsTable(l.core, table, 0 + 1)
      BY <3>4, <3>5, OneEntryMore
    <3>7. Ok(1)
      BY <3>2, <3>4, <3>6 DEF l
    <3> HIDE DEF Ok
    <3> QED BY <3>7
  <2>4. ASSUME NEW i \in S PROVE i + 1 \in S
    <3> SUFFICES ASSUME i + 2 <= n PROVE i + 1 \in S
      OBVIOUS
    <3> DEFINE k == i + 1
               l == RimReader!Fold(0, Loader, f[k])
               m == RimReader!Fold(0, Loader, f[k + 1])
    <3>1. i \in Nat /\ k \in Nat /\ Ok(k) /\ k + 1 \in 2..n /\ k + 1 \in 1..n /\ (k + 1) - 1 = k
      BY <1>1, <2>4
    <3> HIDE DEF k, S
    <3>2. f[k + 1] = f[k] \o s[k + 1]
      BY <1>4, <2>2, <3>1 DEF Joined
    <3>3. s[k + 1] = RimEntry(table[k + 1][1], table[k + 1][2]) /\ s[k + 1] \in Seq(Frames)
      BY <1>3, <3>1
    <3>4. f[k] \in Seq(Frames) /\ f[k + 1] \in Seq(Frames)
      BY <3>1, <3>2, <3>3
    <3>5. m = RimReader!Fold(0, l, s[k + 1])
      BY <3>2, <3>3, <3>4, RimReader!FoldConcat
    <3>6. DOMAIN l = LoaderFields /\ l.st = "hi" /\ HoldsTable(l.core, table, k)
      BY <3>1
    <3> HIDE DEF Ok, l, m
    <3>7. /\ DOMAIN m = LoaderFields /\ m.st = "hi"
          /\ m.core = Stored(l.core, AddressOf(table[k + 1]), WordOf(table[k + 1]))
      <4>1. table[k + 1][1] \in Int /\ table[k + 1][2] \in Int
        BY <1>2, <3>1
      <4>2. m = RimReader!Fold(0, l, RimEntry(table[k + 1][1], table[k + 1][2]))
        BY <3>3, <3>5
      <4>3. l.st \in {"leader", "hi"}
        BY <3>6
      <4>4. /\ DOMAIN m = LoaderFields /\ m.st = "hi"
            /\ m.core = Stored(l.core, table[k + 1][1] % 4096, table[k + 1][2] % 4096)
        BY <3>6, <4>1, <4>2, <4>3, EntryRead
      <4> QED BY <4>4 DEF AddressOf, WordOf
    <3>8. HoldsTable(m.core, table, k + 1)
      BY <3>1, <3>6, <3>7, OneEntryMore
    <3>9. Ok(k + 1)
      BY <3>4, <3>7, <3>8 DEF Ok, m
    <3> QED BY <3>1, <3>9 DEF S, k
  <2>5. S \in SUBSET Nat
    OBVIOUS
  <2>6. n - 1 \in Nat /\ (n - 1) + 1 = n
    BY <1>1, <1>7
  <2> HIDE DEF Ok
  <2>7. n - 1 \in S
    <3> HIDE DEF S
    <3> QED BY <2>3, <2>4, <2>5, <2>6, Reader!AllNaturals
  <2>8. Ok(n)
    BY <2>6, <2>7
  <2> QED BY <1>5, <2>2, <2>8, RimLoop DEF Ok
<1> QED BY <1>6, <1>7

-----------------------------------------------------------------------------
(* Any tape at all, once, and any table.                                   *)
ImagesNext == (\E tape, rim : Generate(tape, rim)) \/ Merge
ImagesSpec == ImagesInit /\ [][ImagesNext]_imageVars

Meeting(in1, in2) == \E k \in Locations : WordAt(in1, k) # 0 /\ WordAt(in2, k) # 0

(* The image of field 0 is what was loaded; a merge follows a load, and    *)
(* its second file is its table.                                           *)
MergeInv ==
  /\ Loaded => \A k \in Locations : WordAt(image, k) = WordAt(loader.core, k)
  /\ merged.done =>
       /\ Loaded
       /\ \A k \in Locations : WordAt(other, k) = Tabled(merged.table, k)
       /\ merged.collision <=> Meeting(image, other)
       /\ ~merged.collision => merged.image = Merged(image, other)

(* Both generators print the words of field 0 as they are in core.         *)
LEMMA ImageWords ==
  ASSUME NEW l, NEW size \in {4096, 8192}, NEW k \in Locations
  PROVE  WordAt(Image(l, size), k) = WordAt(l.core, k)
<1>1. k \in 0..(size - 1)
  BY DEF Locations
<1> QED BY <1>1 DEF Image, WordAt

(* What rim.c and the RIM loader make of a table is the table.             *)
LEMMA TableWords ==
  ASSUME NEW table \in Seq(Int \X Int), NEW k \in Locations
  PROVE  WordAt(mem_gen(RimFrames(table)), k) = Tabled(table, k)
<1> DEFINE n == Len(table)
           S == EntriesFor(table, k)
           core == sim_load_rim(RimFrames(table)).core
<1>1. n \in Nat /\ S \in SUBSET (1..n) /\ S = {i \in 1..n : AddressOf(table[i]) = k}
  BY DEF EntriesFor, AddressOf
<1>2. HoldsTable(core, table, n)
  BY RimTableLoaded DEF Entries
<1>3. WordAt(mem_gen(RimFrames(table)), k) = WordAt(core, k)
  BY ImageWords DEF mem_gen, RIM_CORE
<1> HIDE DEF core, n, S
<1>4. CASE S = {}
  <2>1. k \notin DOMAIN core
    BY <1>1, <1>2, <1>4 DEF HoldsTable
  <2> QED BY <1>3, <1>4, <2>1 DEF WordAt, Tabled, S
<1>5. CASE S # {}
  <2> DEFINE last == Max(S)
  <2>1. last \in S /\ \A i \in S : last >= i
    BY <1>1, <1>5, Reader!Greatest DEF Max, Reader!Max
  <2> HIDE DEF last
  <2>2. last \in 1..n /\ AddressOf(table[last]) = k
    BY <1>1, <2>1
  <2>3. \A j \in (last + 1)..n : AddressOf(table[j]) # AddressOf(table[last])
    <3> SUFFICES ASSUME NEW j \in (last + 1)..n, AddressOf(table[j]) = k PROVE FALSE
      BY <2>2
    <3>1. j \in 1..n /\ last \in Nat /\ j \in Int /\ ~(last >= j)
      BY <1>1, <2>2
    <3> QED BY <1>1, <2>1, <3>1
  <2>4. k \in DOMAIN core /\ core[k] = WordOf(table[last])
    BY <1>2, <2>2, <2>3 DEF HoldsTable
  <2>5. Tabled(table, k) = WordOf(table[last])
    BY <1>5 DEF Tabled, WordOf, S, last
  <2> QED BY <1>3, <2>4, <2>5 DEF WordAt
<1> QED BY <1>4, <1>5

LEMMA MergedWords ==
  ASSUME NEW in1, NEW in2
  PROVE  /\ DOMAIN Merged(in1, in2) \subseteq Locations
         /\ \A k \in Locations :
              WordAt(Merged(in1, in2), k) =
                IF WordAt(in1, k) = 0 THEN WordAt(in2, k) ELSE WordAt(in1, k)
         /\ Collisions(in1, in2) # {} <=> Meeting(in1, in2)
<1> DEFINE both == Merged(in1, in2)
<1>1. \A core, k : /\ k \in DOMAIN core => WordAt(core, k) = core[k]
                   /\ k \notin DOMAIN core => WordAt(core, k) = 0
  BY DEF WordAt
<1>2. DOMAIN both = Locations \cap (DOMAIN in1 \cup DOMAIN in2)
  BY DEF Merged
<1>3. \A k \in DOMAIN both :
        both[k] = IF WordAt(in1, k) = 0 THEN WordAt(in2, k) ELSE WordAt(in1, k)
  BY DEF Merged
<1> HIDE DEF both
<1>4. ASSUME NEW k \in Locations
      PROVE  WordAt(both, k) = IF WordAt(in1, k) = 0 THEN WordAt(in2, k) ELSE WordAt(in1, k)
  <2>1. CASE k \in DOMAIN both
    BY <1>1, <1>3, <2>1
  <2>2. CASE k \notin DOMAIN both
    <3>1. k \notin DOMAIN in1 /\ k \notin DOMAIN in2
      BY <1>2, <2>2
    <3> QED BY <1>1, <2>2, <3>1
  <2> QED BY <2>1, <2>2
<1>5. Collisions(in1, in2) # {} <=> Meeting(in1, in2)
  BY <1>1 DEF Collisions, Meeting
<1> QED BY <1>2, <1>4, <1>5 DEF both

LEMMA GenerateStep ==
  ASSUME NEW tape, NEW rim, Generate(tape, rim)
  PROVE  \A k \in Locations : WordAt(image', k) = WordAt(loader'.core, k)
<1>1. CASE rim
  <2>1. image' = Image(loader', 4096)
    BY <1>1 DEF Generate, mem_gen, RIM_CORE
  <2> QED BY <2>1, ImageWords
<1>2. CASE ~rim
  <2>1. image' = Image(loader', 8192)
    BY <1>2 DEF Generate, mem_gen_bin, BIN_CORE
  <2> QED BY <2>1, ImageWords
<1> QED BY <1>1, <1>2

(* For every first tape, in either format and with words in any field, and *)
(* every table: mem_merge reports a collision exactly if the loader and    *)
(* the table both have a word for an address of field 0, and otherwise     *)
(* writes field 0 as the two of them give it.  What the first tape loads   *)
(* into field 1 and the generator prints is not in the output, collision   *)
(* or not (mem_merge.c:86-112, mem_gen_bin.c, rim.c, pdp8_sys.c).          *)
THEOREM MergesFieldZero == ImagesSpec => []MergeKeepsFieldZero
<1>1. ImagesInit => MergeInv
  BY DEF ImagesInit, MergeInv, NotMerged, Loaded
<1>2. MergeInv /\ [ImagesNext]_imageVars => MergeInv'
  <2> SUFFICES ASSUME MergeInv, [ImagesNext]_imageVars PROVE MergeInv'
    OBVIOUS
  <2>1. CASE \E tape, rim : Generate(tape, rim)
    <3>1. PICK tape, rim : Generate(tape, rim)
      BY <2>1
    <3>2. ~merged'.done
      BY <3>1 DEF Generate, MergeInv
    <3> QED BY <3>1, <3>2, GenerateStep DEF MergeInv
  <2>2. CASE Merge
    <3>1. PICK t \in Tables :
            /\ other' = mem_gen(RimFrames(t))
            /\ merged' = [done |-> TRUE, collision |-> Collisions(image, other') # {},
                          table |-> t,
                          image |-> IF Collisions(image, other') # {} THEN Nothing
                                    ELSE Merged(image, other')]
      BY <2>2 DEF Merge
    <3>2. \A k \in Locations : WordAt(other', k) = Tabled(merged'.table, k)
      BY <3>1, TablesAssumption, TableWords
    <3>3. Loaded /\ Loaded' /\ image' = image /\ loader' = loader
      BY <2>2 DEF Merge, Loaded
    <3>4. /\ merged'.collision <=> Meeting(image, other')
          /\ ~merged'.collision => merged'.image = Merged(image, other')
      BY <3>1, MergedWords
    <3> QED BY <3>2, <3>3, <3>4 DEF MergeInv, Meeting
  <2>3. CASE UNCHANGED imageVars
    BY <2>3 DEF imageVars, MergeInv, Loaded, Meeting
  <2> QED BY <2>1, <2>2, <2>3 DEF ImagesNext
<1>3. MergeInv => MergeKeepsFieldZero
  <2> SUFFICES ASSUME MergeInv, merged.done PROVE MergeKeepsFieldZero
    BY DEF MergeKeepsFieldZero
  <2>1. merged.collision <=>
          \E k \in Locations : ~(WordAt(loader.core, k) = 0 \/ Tabled(merged.table, k) = 0)
    BY DEF MergeInv, Meeting
  <2>2. ASSUME ~merged.collision
        PROVE  /\ DOMAIN merged.image \subseteq Locations
               /\ \A k \in Locations : WordAt(merged.image, k) =
                    IF WordAt(loader.core, k) = 0 THEN Tabled(merged.table, k)
                    ELSE WordAt(loader.core, k)
    BY <2>2, MergedWords DEF MergeInv
  <2> QED BY <2>1, <2>2 DEF MergeKeepsFieldZero
<1> QED BY <1>1, <1>2, <1>3, PTL DEF ImagesSpec
=============================================================================
