------------------------------ MODULE Folding ------------------------------
(***************************************************************************)
(* Induction over the natural numbers and over the elements of a sequence, *)
(* for the loops of the tools: a loop is a fold of the community modules,  *)
(* FoldLeft, and what a fold keeps or adds up to holds for every length.   *)
(*                                                                         *)
(* The body of the loop and what it keeps are operator constants, which a  *)
(* module that proves something of a loop gives their values.              *)
(***************************************************************************)
EXTENDS Integers, Sequences, SequencesExt, WellFoundedInduction, TLAPS

CONSTANTS Body(_, _, _),   \* what is fixed in the loop, the value, the element
          Good(_, _, _)    \* what is fixed, the elements taken, the value

Fold(c, base, s) == FoldLeft(LAMBDA x, e : Body(c, x, e), base, s)

-----------------------------------------------------------------------------
(* Every set of naturals with an element has a least one.                  *)
LEMMA LeastElement ==
  ASSUME NEW T \in SUBSET Nat, T # {}
  PROVE  \E m \in T : \A y \in T : m <= y
<1>1. T \subseteq Nat
  OBVIOUS
<1>2. PICK m \in T : \A y \in T : ~(<<y, m>> \in OpToRel(<, Nat))
  BY <1>1, NatLessThanWellFounded, WFMin
<1>3. \A y \in T : ~(y < m)
  BY <1>1, <1>2 DEF OpToRel
<1> QED BY <1>1, <1>3

(* Induction, said of a set.                                               *)
LEMMA AllNaturals ==
  ASSUME NEW S \in SUBSET Nat, 0 \in S, \A n \in S : n + 1 \in S
  PROVE  Nat \subseteq S
<1> SUFFICES ASSUME ~(Nat \subseteq S) PROVE FALSE
  OBVIOUS
<1>1. Nat \ S \in SUBSET Nat /\ Nat \ S # {}
  OBVIOUS
<1>2. PICK m \in Nat \ S : \A y \in Nat \ S : m <= y
  BY <1>1, LeastElement
<1>3. m - 1 \in Nat /\ m - 1 \notin Nat \ S
  BY <1>2
<1>4. (m - 1) + 1 \in S /\ (m - 1) + 1 = m
  BY <1>2, <1>3
<1> QED BY <1>2, <1>4

(* A set with elements of 1..m has a greatest one.                         *)
LEMMA Greatest ==
  ASSUME NEW m \in Nat, NEW S \in SUBSET (1..m), S # {}
  PROVE  Max(S) \in S /\ \A y \in S : Max(S) >= y
<1> DEFINE B == {k \in Nat : \A y \in S : y <= k}
<1>1. m \in B /\ B \in SUBSET Nat
  OBVIOUS
<1>2. PICK k \in B : \A j \in B : k <= j
  BY <1>1, LeastElement
<1>3. k \in Nat /\ \A y \in S : y <= k
  BY <1>2
<1>4. k \in S
  <2> SUFFICES ASSUME k \notin S PROVE FALSE
    OBVIOUS
  <2>1. PICK y \in S : TRUE
    OBVIOUS
  <2>2. k - 1 \in Nat /\ \A z \in S : z <= k - 1
    BY <1>3, <2>1
  <2>3. k - 1 \in B
    BY <2>2
  <2> QED BY <1>2, <1>3, <2>3
<1>5. \E x \in S : \A y \in S : x >= y
  BY <1>3, <1>4
<1> QED BY <1>5 DEF Max

-----------------------------------------------------------------------------
(* The function a fold is defined by, on the sets of positions 1..m.       *)
IsIter(f, c, base, s, m) ==
  f = [S \in SUBSET (1..m) |->
         IF S = {} THEN base ELSE Body(c, f[S \ {Max(S)}], s[Max(S)])]

LEMMA IterExtended ==
  ASSUME NEW c, NEW base, NEW s, NEW m \in Nat, NEW f, IsIter(f, c, base, s, m)
  PROVE  \E g : IsIter(g, c, base, s, m + 1)
<1> DEFINE g == [S \in SUBSET (1..(m + 1)) |->
                   IF m + 1 \in S THEN Body(c, f[S \ {m + 1}], s[m + 1]) ELSE f[S]]
<1>1. ASSUME NEW S \in SUBSET (1..(m + 1)), m + 1 \in S
      PROVE  g[S] = IF S = {} THEN base ELSE Body(c, g[S \ {Max(S)}], s[Max(S)])
  <2>1. Max(S) = m + 1
    <3>1. S # {} /\ m + 1 \in Nat
      BY <1>1
    <3>2. Max(S) \in S /\ Max(S) >= m + 1
      BY <1>1, <3>1, Greatest
    <3> DEFINE k == Max(S)
    <3>3. k \in 1..(m + 1) /\ k >= m + 1
      BY <3>2
    <3> HIDE DEF k
    <3>4. k = m + 1
      BY <3>3
    <3> QED BY <3>4 DEF k
  <2>2. /\ S \ {m + 1} \in SUBSET (1..(m + 1)) /\ m + 1 \notin S \ {m + 1}
        /\ S # {}
    BY <1>1
  <2>3. g[S \ {m + 1}] = f[S \ {m + 1}]
    BY <2>2
  <2>4. g[S] = Body(c, f[S \ {m + 1}], s[m + 1])
    BY <1>1
  <2> QED BY <2>1, <2>2, <2>3, <2>4
<1>2. ASSUME NEW S \in SUBSET (1..(m + 1)), m + 1 \notin S
      PROVE  g[S] = IF S = {} THEN base ELSE Body(c, g[S \ {Max(S)}], s[Max(S)])
  <2>1. S \in SUBSET (1..m) /\ g[S] = f[S]
    BY <1>2
  <2>2. f[S] = IF S = {} THEN base ELSE Body(c, f[S \ {Max(S)}], s[Max(S)])
    BY <2>1 DEF IsIter
  <2>3. /\ S \ {Max(S)} \in SUBSET (1..(m + 1)) /\ m + 1 \notin S \ {Max(S)}
    BY <1>2
  <2>4. g[S \ {Max(S)}] = f[S \ {Max(S)}]
    BY <2>3
  <2> QED BY <2>1, <2>2, <2>4
<1>3. g = [S \in SUBSET (1..(m + 1)) |->
             IF S = {} THEN base ELSE Body(c, g[S \ {Max(S)}], s[Max(S)])]
  <2>1. \A S \in SUBSET (1..(m + 1)) :
          g[S] = IF S = {} THEN base ELSE Body(c, g[S \ {Max(S)}], s[Max(S)])
    BY <1>1, <1>2
  <2>2. g = [S \in SUBSET (1..(m + 1)) |-> g[S]]
    OBVIOUS
  <2> HIDE DEF g
  <2> QED BY <2>1, <2>2
<1> HIDE DEF g
<1>4. IsIter(g, c, base, s, m + 1)
  BY <1>3 DEF IsIter
<1> QED BY <1>4

LEMMA IterExists ==
  ASSUME NEW c, NEW base, NEW s, NEW m \in Nat
  PROVE  \E f : IsIter(f, c, base, s, m)
<1> DEFINE S == {k \in Nat : \E f : IsIter(f, c, base, s, k)}
<1>1. 0 \in S
  <2> DEFINE f == [T \in SUBSET (1..0) |-> base]
  <2>1. \A T \in SUBSET (1..0) : T = {}
    OBVIOUS
  <2>2. f = [T \in SUBSET (1..0) |->
               IF T = {} THEN base ELSE Body(c, f[T \ {Max(T)}], s[Max(T)])]
    BY <2>1
  <2> HIDE DEF f
  <2>3. IsIter(f, c, base, s, 0)
    BY <2>2 DEF IsIter
  <2> QED BY <2>3
<1>2. \A k \in S : k + 1 \in S
  BY IterExtended
<1>3. S \in SUBSET Nat
  OBVIOUS
<1> HIDE DEF S
<1>4. m \in S
  BY <1>1, <1>2, <1>3, AllNaturals
<1> QED BY <1>4 DEF S

(* The values a loop goes through.                                         *)
Steps(f, c, base, s) == /\ f[0] = base
                        /\ \A i \in 1..Len(s) : f[i] = Body(c, f[i - 1], s[i])

(* A fold goes through them and ends with the last.                        *)
LEMMA FoldSteps ==
  ASSUME NEW c, NEW base, NEW T, NEW s \in Seq(T)
  PROVE  \E f : Steps(f, c, base, s) /\ Fold(c, base, s) = f[Len(s)]
<1> DEFINE n == Len(s)
           it == CHOOSE f : IsIter(f, c, base, s, n)
           f == [i \in 0..n |-> it[1..i]]
<1>1. n \in Nat /\ DOMAIN s = 1..n
  OBVIOUS
<1>2. IsIter(it, c, base, s, n)
  <2>1. \E h : IsIter(h, c, base, s, n)
    BY <1>1, IterExists
  <2> QED BY <2>1
<1>3. Fold(c, base, s) = it[1..n]
  <2>1. Fold(c, base, s) =
          (CHOOSE h : h = [S \in SUBSET DOMAIN s |->
             IF S = {} THEN base ELSE Body(c, h[S \ {Max(S)}], s[Max(S)])])[DOMAIN s]
    BY DEF Fold, FoldLeft, MapThenFoldSet
  <2>2. it = CHOOSE h : h = [S \in SUBSET (1..n) |->
             IF S = {} THEN base ELSE Body(c, h[S \ {Max(S)}], s[Max(S)])]
    BY DEF IsIter
  <2> HIDE DEF it
  <2>3. DOMAIN s = 1..n
    BY <1>1
  <2> QED BY <2>1, <2>2, <2>3
<1> HIDE DEF it, n
<1>4. it[1..0] = base
  BY <1>1, <1>2 DEF IsIter
<1>5. ASSUME NEW i \in 1..n
      PROVE  it[1..i] = Body(c, it[1..(i - 1)], s[i])
  <2>1. 1..i \in SUBSET (1..n) /\ 1..i # {} /\ i \in 1..i /\ i \in Nat
    BY <1>1
  <2>2. Max(1..i) = i
    <3>1. Max(1..i) \in 1..i /\ Max(1..i) >= i
      BY <1>1, <2>1, Greatest
    <3> QED BY <2>1, <3>1
  <2>3. (1..i) \ {i} = 1..(i - 1)
    BY <2>1
  <2>4. it[1..i] = Body(c, it[(1..i) \ {Max(1..i)}], s[Max(1..i)])
    BY <1>2, <2>1 DEF IsIter
  <2> QED BY <2>2, <2>3, <2>4
<1>6. Steps(f, c, base, s)
  <2>1. f[0] = base
    BY <1>1, <1>4
  <2>2. \A i \in 1..n : f[i] = it[1..i] /\ f[i - 1] = it[1..(i - 1)]
    BY <1>1
  <2> QED BY <1>5, <2>1, <2>2 DEF Steps, n
<1>7. f[n] = it[1..n]
  BY <1>1
<1> QED BY <1>3, <1>6, <1>7 DEF n

(* What holds before a loop and is kept by its body holds after it.        *)
LEMMA FoldKeeps ==
  ASSUME NEW c, NEW base, NEW T, NEW s \in Seq(T), NEW g, Good(g, 0, base),
         \A i \in 1..Len(s) : \A x : Good(g, i - 1, x) => Good(g, i, Body(c, x, s[i]))
  PROVE  Good(g, Len(s), Fold(c, base, s))
<1>1. PICK f : Steps(f, c, base, s) /\ Fold(c, base, s) = f[Len(s)]
  BY FoldSteps
<1> DEFINE S == {i \in Nat : i <= Len(s) => Good(g, i, f[i])}
<1>2. Len(s) \in Nat
  OBVIOUS
<1>3. 0 \in S
  BY <1>1 DEF Steps
<1>4. ASSUME NEW i \in S PROVE i + 1 \in S
  <2> SUFFICES ASSUME i + 1 <= Len(s) PROVE Good(g, i + 1, f[i + 1])
    BY <1>4
  <2>1. i \in Nat /\ i + 1 \in 1..Len(s) /\ (i + 1) - 1 = i /\ Good(g, i, f[i])
    BY <1>2, <1>4
  <2>2. f[i + 1] = Body(c, f[i], s[i + 1])
    BY <1>1, <2>1 DEF Steps
  <2> QED BY <2>1, <2>2
<1>5. S \in SUBSET Nat
  OBVIOUS
<1> HIDE DEF S
<1>6. Len(s) \in S
  BY <1>2, <1>3, <1>4, <1>5, AllNaturals
<1> QED BY <1>1, <1>2, <1>6 DEF S

(* A loop goes through one sequence of values.                             *)
LEMMA OneSteps ==
  ASSUME NEW c, NEW base, NEW T, NEW s \in Seq(T), NEW f, NEW h,
         Steps(f, c, base, s), Steps(h, c, base, s), NEW k \in 0..Len(s)
  PROVE  f[k] = h[k]
<1> DEFINE S == {i \in Nat : i <= Len(s) => f[i] = h[i]}
<1>1. 0 \in S
  BY DEF Steps
<1>2. ASSUME NEW i \in S PROVE i + 1 \in S
  <2> SUFFICES ASSUME i + 1 <= Len(s) PROVE f[i + 1] = h[i + 1]
    BY <1>2
  <2>1. i \in Nat /\ i + 1 \in 1..Len(s) /\ (i + 1) - 1 = i /\ f[i] = h[i]
    BY <1>2
  <2> QED BY <2>1 DEF Steps
<1>3. S \in SUBSET Nat
  OBVIOUS
<1> HIDE DEF S
<1>4. k \in S
  BY <1>1, <1>2, <1>3, AllNaturals
<1> QED BY <1>4 DEF S

LEMMA FoldOf ==
  ASSUME NEW c, NEW base, NEW T, NEW s \in Seq(T), NEW f, Steps(f, c, base, s)
  PROVE  Fold(c, base, s) = f[Len(s)]
<1>1. PICK h : Steps(h, c, base, s) /\ Fold(c, base, s) = h[Len(s)]
  BY FoldSteps
<1>2. Len(s) \in 0..Len(s)
  OBVIOUS
<1> QED BY <1>1, <1>2, OneSteps

(* A loop over nothing, and over one element more.                         *)
LEMMA FoldNothing ==
  ASSUME NEW c, NEW base
  PROVE  Fold(c, base, <<>>) = base
<1>1. <<>> \in Seq({}) /\ Len(<<>>) = 0
  OBVIOUS
<1> DEFINE none == <<>>
<1>2. PICK f : Steps(f, c, base, none) /\ Fold(c, base, none) = f[Len(none)]
  BY <1>1, FoldSteps
<1> QED BY <1>1, <1>2 DEF Steps

LEMMA FoldAppend ==
  ASSUME NEW c, NEW base, NEW T, NEW s \in Seq(T), NEW e \in T
  PROVE  Fold(c, base, Append(s, e)) = Body(c, Fold(c, base, s), e)
<1> DEFINE t == Append(s, e)
<1>1. /\ t \in Seq(T) /\ Len(t) = Len(s) + 1 /\ t[Len(s) + 1] = e /\ Len(s) \in Nat
      /\ \A i \in 1..Len(s) : t[i] = s[i]
  OBVIOUS
<1> HIDE DEF t
<1>2. PICK f : Steps(f, c, base, t) /\ Fold(c, base, t) = f[Len(t)]
  BY <1>1, FoldSteps
<1>3. \A i \in 1..Len(s) : f[i] = Body(c, f[i - 1], s[i])
  BY <1>1, <1>2 DEF Steps
<1>4. Steps(f, c, base, s)
  BY <1>2, <1>3 DEF Steps
<1>5. Fold(c, base, s) = f[Len(s)]
  BY <1>4, FoldOf
<1>6. f[Len(s) + 1] = Body(c, f[Len(s)], e)
  <2>1. Len(s) + 1 \in 1..Len(t) /\ (Len(s) + 1) - 1 = Len(s)
    BY <1>1
  <2> QED BY <1>1, <1>2, <2>1 DEF Steps
<1> QED BY <1>1, <1>2, <1>5, <1>6 DEF t

(* A loop over one sequence and then another.                              *)
LEMMA FoldConcat ==
  ASSUME NEW c, NEW base, NEW T, NEW s \in Seq(T), NEW t \in Seq(T)
  PROVE  Fold(c, base, s \o t) = Fold(c, Fold(c, base, s), t)
<1> DEFINE u == s \o t
           n == Len(s)
<1>1. /\ u \in Seq(T) /\ Len(u) = n + Len(t) /\ n \in Nat /\ Len(t) \in Nat
      /\ \A i \in 1..n : u[i] = s[i]
      /\ \A i \in 1..Len(t) : u[n + i] = t[i]
  OBVIOUS
<1> HIDE DEF u
<1>2. PICK f : Steps(f, c, base, u) /\ Fold(c, base, u) = f[Len(u)]
  <2>1. u \in Seq(T)
    BY <1>1
  <2> QED BY <2>1, FoldSteps
<1>3. Steps(f, c, base, s)
  <2>1. ASSUME NEW i \in 1..n PROVE f[i] = Body(c, f[i - 1], s[i])
    <3>1. i \in 1..Len(u) /\ u[i] = s[i]
      BY <1>1
    <3> QED BY <1>2, <3>1 DEF Steps
  <2> QED BY <1>2, <2>1 DEF Steps
<1>4. Fold(c, base, s) = f[n]
  BY <1>3, FoldOf
<1> DEFINE h == [i \in 0..Len(t) |-> f[n + i]]
<1>5. h[0] = f[n] /\ h[Len(t)] = f[n + Len(t)]
  BY <1>1
<1>6. ASSUME NEW i \in 1..Len(t) PROVE h[i] = Body(c, h[i - 1], t[i])
  <2>1. h[i] = f[n + i] /\ h[i - 1] = f[n + (i - 1)]
    BY <1>1
  <2>2. n + i \in 1..Len(u) /\ (n + i) - 1 = n + (i - 1) /\ u[n + i] = t[i]
    BY <1>1
  <2> QED BY <1>2, <2>1, <2>2 DEF Steps
<1> HIDE DEF h
<1>7. Steps(h, c, f[n], t)
  BY <1>5, <1>6 DEF Steps
<1>8. Fold(c, f[n], t) = h[Len(t)]
  BY <1>7, FoldOf
<1> QED BY <1>1, <1>2, <1>4, <1>5, <1>8 DEF u
=============================================================================
