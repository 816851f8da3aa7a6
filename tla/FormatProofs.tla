---------------------------- MODULE FormatProofs ----------------------------
(***************************************************************************)
(* What holds of vprintf and sprintf (Format) for every width of the       *)
(* integers, every set of items and calls of any length: the lengths they  *)
(* return, the text of vprintf, and that sprintf writes the same.          *)
(***************************************************************************)
EXTENDS Format, Division, WellFoundedInduction, SequenceTheorems, TLAPS

-----------------------------------------------------------------------------
(* Induction and recursion.  The premises of the library's theorems about  *)
(* them are operators; these are sets and functions.                       *)

LEMMA LeastNatural ==
    ASSUME NEW S, S \subseteq Nat, S # {}
    PROVE  \E x \in S : \A y \in S : x <= y
<1> DEFINE R == OpToRel(<, Nat)
<1>1. IsWellFoundedOn(R, Nat)
  BY NatLessThanWellFounded, Zenon
<1>2. R = {ss \in Nat \X Nat : ss[1] < ss[2]}
  BY Zenon DEF OpToRel
<1> HIDE DEF R
<1>3. PICK x \in S : \A y \in S : <<y, x>> \notin R
  BY <1>1, WFMin
<1>4. \A y \in Nat, z \in Nat : y < z => <<y, z>> \in R
  BY <1>2
<1>5. \A y \in S : ~(y < x)
  BY <1>3, <1>4
<1> QED
  BY <1>5

LEMMA Induction ==
    ASSUME NEW S, 0 \in S, \A n \in Nat : n \in S => n + 1 \in S
    PROVE  Nat \subseteq S
<1> SUFFICES ASSUME Nat \ S # {} PROVE FALSE
  OBVIOUS
<1>1. PICK x \in Nat \ S : \A y \in Nat \ S : x <= y
  BY LeastNatural
<1>2. x # 0 /\ x - 1 \in Nat /\ x - 1 \in S
  BY <1>1
<1> QED
  BY <1>1, <1>2

\* A recursive definition on S: on Base its value is that of base, elsewhere it
\* comes from the value at next, where the measure m is smaller; values are in V.
Descends(S, V, m, next, Base, base, Step) ==
    /\ m \in [S -> Nat] /\ next \in [S -> S]
    /\ base \in [S -> V] /\ Step \in [S \X V -> V]
    /\ \A x \in S \ Base : m[next[x]] < m[x]

Solves(f, S, V, next, Base, base, Step) ==
    \A x \in S :
        x \in Base \/ f[next[x]] \in V =>
            f[x] = IF x \in Base THEN base[x] ELSE Step[<<x, f[next[x]]>>]

\* There is such a function.
LEMMA Recursion ==
    ASSUME NEW S, NEW V, NEW m, NEW next, NEW Base, NEW base, NEW Step,
           Descends(S, V, m, next, Base, base, Step)
    PROVE  \E f \in [S -> V] : Solves(f, S, V, next, Base, base, Step)
<1> DEFINE Up(k)      == {x \in S : m[x] <= k}
           Fits(f, k) == \A x \in Up(k) :
                            f[x] = IF x \in Base THEN base[x] ELSE Step[<<x, f[next[x]]>>]
           Good       == {k \in Nat : \E f \in [S -> V] : Fits(f, k)}
<1> USE DEF Descends
<1>1. 0 \in Good
  <2>1. \A x \in Up(0) : x \in Base
    OBVIOUS
  <2> QED
    BY <2>1
<1>2. ASSUME NEW k \in Nat, k \in Good
      PROVE  k + 1 \in Good
  <2>1. PICK f \in [S -> V] : Fits(f, k)
    BY <1>2
  <2> DEFINE g == [x \in S |-> IF x \in Up(k) THEN f[x]
                               ELSE IF x \in Base THEN base[x] ELSE Step[<<x, f[next[x]]>>]]
  <2>2. g \in [S -> V]
    OBVIOUS
  <2>3. ASSUME NEW x \in Up(k + 1), x \notin Base
        PROVE  next[x] \in S /\ g[next[x]] = f[next[x]]
    <3>1. next[x] \in Up(k)
      BY <2>3
    <3> QED
      BY <3>1
  <2>4. Fits(g, k + 1)
    BY <2>1, <2>3
  <2> HIDE DEF g, Fits
  <2> QED
    BY <2>2, <2>4
<1>3. Nat \subseteq Good
  <2> HIDE DEF Good
  <2> QED
    BY ONLY <1>1, <1>2, Induction
<1> DEFINE F(k) == CHOOSE f \in [S -> V] : Fits(f, k)
<1>4. \A k \in Nat : F(k) \in [S -> V] /\ Fits(F(k), k)
  BY <1>3
<1> HIDE DEF F
<1>5. ASSUME NEW k \in Nat, NEW j \in Nat, k <= j
      PROVE  \A x \in Up(k) : F(k)[x] = F(j)[x]
  <2> DEFINE Bad == {m[x] : x \in {y \in Up(k) : F(k)[y] # F(j)[y]}}
  <2>1. SUFFICES ASSUME Bad # {} PROVE FALSE
    OBVIOUS
  <2>2. PICK n \in Bad : \A l \in Bad : n <= l
    <3>1. Bad \subseteq Nat
      OBVIOUS
    <3> HIDE DEF Bad
    <3> QED
      BY <3>1, <2>1, LeastNatural
  <2>3. PICK x \in Up(k) : m[x] = n /\ F(k)[x] # F(j)[x]
    BY <2>2
  <2>4. x \in Up(j)
    BY <1>5
  <2>5. F(k)[x] = IF x \in Base THEN base[x] ELSE Step[<<x, F(k)[next[x]]>>]
    BY <1>4
  <2>6. F(j)[x] = IF x \in Base THEN base[x] ELSE Step[<<x, F(j)[next[x]]>>]
    BY <1>4, <2>4
  <2>7. x \notin Base /\ F(k)[next[x]] # F(j)[next[x]]
    BY <2>3, <2>5, <2>6
  <2>8. next[x] \in Up(k) /\ m[next[x]] < n /\ m[next[x]] \in Nat /\ n \in Nat
    BY <2>3, <2>7
  <2>9. m[next[x]] \in Bad
    BY <2>7, <2>8
  <2> HIDE DEF Bad
  <2> QED
    BY ONLY <2>2, <2>8, <2>9
<1> DEFINE h == [x \in S |-> F(m[x])[x]]
<1>6. h \in [S -> V]
  BY <1>4
<1>7. ASSUME NEW x \in S
      PROVE  h[x] = IF x \in Base THEN base[x] ELSE Step[<<x, h[next[x]]>>]
  <2>1. x \in Up(m[x]) /\ m[x] \in Nat
    OBVIOUS
  <2>2. h[x] = IF x \in Base THEN base[x] ELSE Step[<<x, F(m[x])[next[x]]>>]
    BY <1>4, <2>1
  <2>3. ASSUME x \notin Base PROVE h[next[x]] = F(m[x])[next[x]]
    <3>1. next[x] \in S /\ m[next[x]] \in Nat /\ m[next[x]] <= m[x] /\ next[x] \in Up(m[next[x]])
      BY <2>3
    <3> QED
      BY <1>5, <2>1, <3>1
  <2> QED
    BY <2>2, <2>3
<1> QED
  BY <1>6, <1>7 DEF Solves

\* Its values are in V.
LEMMA RecursionType ==
    ASSUME NEW S, NEW V, NEW m, NEW next, NEW Base, NEW base, NEW Step, NEW f,
           Descends(S, V, m, next, Base, base, Step),
           Solves(f, S, V, next, Base, base, Step)
    PROVE  \A x \in S : f[x] \in V
<1> DEFINE Bad == {m[x] : x \in {y \in S : f[y] \notin V}}
<1> USE DEF Descends, Solves
<1>1. SUFFICES ASSUME Bad # {} PROVE FALSE
  OBVIOUS
<1>2. PICK n \in Bad : \A l \in Bad : n <= l
  <2>1. Bad \subseteq Nat
    OBVIOUS
  <2> HIDE DEF Bad
  <2> QED
    BY <2>1, <1>1, LeastNatural
<1>3. PICK x \in S : m[x] = n /\ f[x] \notin V
  BY <1>2
<1>4. x \notin Base
  BY <1>3
<1>5. next[x] \in S /\ f[next[x]] \in V
  <2>1. next[x] \in S /\ m[next[x]] < n /\ m[next[x]] \in Nat /\ n \in Nat
    BY <1>3, <1>4
  <2>2. m[next[x]] \notin Bad
    <3> HIDE DEF Bad
    <3> QED
      BY ONLY <1>2, <2>1
  <2> QED
    BY <2>1, <2>2
<1> QED
  BY <1>3, <1>4, <1>5

-----------------------------------------------------------------------------
(* Powers *)

LEMMA PowIs ==
    ASSUME NEW b \in Nat
    PROVE  /\ Pow(b, 0) = 1
           /\ \A n \in Nat : Pow(b, n) \in Nat /\ Pow(b, n + 1) = b * Pow(b, n)
<1> DEFINE Def(f) == [k \in Nat |-> IF k = 0 THEN 1 ELSE b * f[k - 1]]
           p      == CHOOSE f : f = Def(f)
           m      == [k \in Nat |-> k]
           next   == [k \in Nat |-> IF k = 0 THEN 0 ELSE k - 1]
           base   == [k \in Nat |-> 1]
           Step   == [y \in Nat \X Nat |-> b * y[2]]
<1>1. Descends(Nat, Nat, m, next, {0}, base, Step)
  BY DEF Descends
<1>2. ASSUME NEW f, NEW k \in Nat, k = 0 \/ f[next[k]] \in Nat
      PROVE  (IF k \in {0} THEN base[k] ELSE Step[<<k, f[next[k]]>>])
                = IF k = 0 THEN 1 ELSE b * f[k - 1]
  BY <1>2
<1>3. \E f : f = Def(f)
  <2>1. PICK f \in [Nat -> Nat] : Solves(f, Nat, Nat, next, {0}, base, Step)
    <3> HIDE DEF m, next, base, Step
    <3> QED
      BY <1>1, Recursion
  <2>2. \A k \in Nat : f[k] = IF k = 0 THEN 1 ELSE b * f[k - 1]
    <3>1. \A k \in Nat : next[k] \in Nat
      OBVIOUS
    <3> HIDE DEF next, base, Step
    <3> QED
      BY <1>2, <2>1, <3>1 DEF Solves
  <2>3. f = Def(f)
    BY <2>2
  <2> QED
    BY <2>3
<1>4. p = Def(p)
  <2> HIDE DEF Def
  <2> QED
    BY <1>3
<1>5. \A n \in Nat : Pow(b, n) = p[n]
  BY DEF Pow
<1> HIDE DEF p
<1>6. \A k \in Nat : p[k] = IF k = 0 THEN 1 ELSE b * p[k - 1]
  BY <1>4
<1>7. \A k \in Nat : p[k] \in Nat
  <2>1. Solves(p, Nat, Nat, next, {0}, base, Step)
    <3> HIDE DEF next, base, Step
    <3> QED
      BY <1>2, <1>6 DEF Solves
  <2> HIDE DEF m, next, base, Step
  <2> QED
    BY <1>1, <2>1, RecursionType
<1> QED
  BY <1>5, <1>6, <1>7

-----------------------------------------------------------------------------
(* Digits *)

\* The characters that sprintf copies.
Plain == Chars \ {"%"}

LEMMA Values10 ==
    /\ \A d \in -9..9 : Digit(d) \in Plain
    /\ \A d \in 0..9 : Digit(d) = "0" <=> d = 0
<1> DEFINE Ten   == {"0", "1", "2", "3", "4", "5", "6", "7", "8", "9"}
           Below == {"'", "(", ")", "*", "+", ",", "-", ".", "/"}
           T     == <<"'", "(", ")", "*", "+", ",", "-", ".", "/",
                      "0", "1", "2", "3", "4", "5", "6", "7", "8", "9">>
<1>1. \A d \in -9..9 : Digit(d) = T[d + 10]
  BY DEF Digit
<1>2. /\ T[1] \in Below /\ T[2] \in Below /\ T[3] \in Below /\ T[4] \in Below /\ T[5] \in Below
      /\ T[6] \in Below /\ T[7] \in Below /\ T[8] \in Below /\ T[9] \in Below
  OBVIOUS
<1>3. /\ T[10] = "0" /\ T[11] = "1" /\ T[12] = "2" /\ T[13] = "3" /\ T[14] = "4"
      /\ T[15] = "5" /\ T[16] = "6" /\ T[17] = "7" /\ T[18] = "8" /\ T[19] = "9"
  OBVIOUS
<1> HIDE DEF T
<1>4. \A d \in -9..9 : Digit(d) \in Ten \cup Below
  <2>1. \A k \in 10..19 : T[k] \in Ten
    BY <1>3
  <2>2. \A k \in 1..9 : T[k] \in Below
    <3> HIDE DEF Below
    <3> QED
      BY <1>2
  <2> HIDE DEF Ten, Below
  <2> QED
    BY <1>1, <2>1, <2>2
<1>5. "%" \notin Ten \cup Below
  OBVIOUS
<1>6. \A d \in -9..9 : Digit(d) \in Chars
  BY FormatAssumption
<1>7. \A d \in 0..9 : Digit(d) = "0" <=> d = 0
  BY <1>1, <1>3
<1> HIDE DEF Ten, Below
<1> QED
  BY <1>4, <1>5, <1>6, <1>7 DEF Plain

LEMMA Values16 ==
    ASSUME NEW d \in 0..15, NEW u \in BOOLEAN
    PROVE  HexDigit(d, u) \in Plain /\ (HexDigit(d, u) = "0" <=> d = 0)
<1>1. HexDigit(d, u) \in Chars
  BY FormatAssumption
<1>2. CASE d < 10
  BY <1>2, Values10 DEF HexDigit
<1>3. CASE d >= 10
  <2>1. d - 9 \in 1..6 /\ ~(d < 10)
    BY <1>3
  <2>2. /\ <<"A", "B", "C", "D", "E", "F">>[d - 9] \in {"A", "B", "C", "D", "E", "F"}
        /\ <<"a", "b", "c", "d", "e", "f">>[d - 9] \in {"a", "b", "c", "d", "e", "f"}
    BY <2>1
  <2>3. HexDigit(d, u) \in {"A", "B", "C", "D", "E", "F", "a", "b", "c", "d", "e", "f"}
    BY <2>1, <2>2 DEF HexDigit
  <2> QED
    BY <1>1, <1>3, <2>3 DEF Plain
<1> QED
  BY <1>2, <1>3

LEMMA Tenths ==
    ASSUME NEW n \in Int
    PROVE  /\ Tenth(n) \in Int /\ LastDigit(n) \in -9..9
           /\ n > 0 => Tenth(n) >= 0 /\ Tenth(n) < n
           /\ n < 0 => Tenth(n) <= 0 /\ Tenth(n) > n
           /\ n >= 0 => Tenth(n) = n \div 10 /\ LastDigit(n) = n % 10
  BY DEF Tenth, LastDigit

\* What Decimal computes, and what it is made of.
LEMMA DecimalIs ==
    /\ Decimal[0] = <<>>
    /\ \A n \in Int \ {0} : Decimal[n] = Append(Decimal[Tenth(n)], Digit(LastDigit(n)))
    /\ \A n \in Int : Decimal[n] \in Seq(Plain)
<1> DEFINE Def(f) == [n \in Int |-> IF n = 0 THEN <<>> ELSE Append(f[Tenth(n)], Digit(LastDigit(n)))]
           V      == Seq(Plain)
           m      == [n \in Int |-> IF n < 0 THEN -n ELSE n]
           next   == [n \in Int |-> Tenth(n)]
           base   == [n \in Int |-> <<>>]
           Step   == [y \in Int \X V |-> Append(y[2], Digit(LastDigit(y[1])))]
<1>1. Descends(Int, V, m, next, {0}, base, Step)
  <2>1. Step \in [Int \X V -> V]
    <3>1. ASSUME NEW y \in Int \X V PROVE Append(y[2], Digit(LastDigit(y[1]))) \in V
      <4>1. Digit(LastDigit(y[1])) \in Plain
        BY Values10, Tenths
      <4> QED
        BY <4>1, AppendProperties
    <3> QED
      BY <3>1
  <2>2. m \in [Int -> Nat] /\ next \in [Int -> Int] /\ base \in [Int -> V]
    BY Tenths
  <2>3. \A n \in Int \ {0} : m[next[n]] < m[n]
    <3>1. ASSUME NEW n \in Int, n > 0 PROVE m[next[n]] < m[n]
      BY <3>1, Tenths
    <3>2. ASSUME NEW n \in Int, n < 0 PROVE m[next[n]] < m[n]
      <4>1. Tenth(n) \in Int /\ Tenth(n) <= 0 /\ Tenth(n) > n
        BY <3>2, Tenths
      <4>2. m[n] = -n /\ m[Tenth(n)] = -Tenth(n)
        BY <3>2, <4>1
      <4> QED
        BY <3>2, <4>1, <4>2
    <3> HIDE DEF m, next
    <3> QED
      BY <3>1, <3>2
  <2> HIDE DEF m, next, base, Step, V
  <2> QED
    BY <2>1, <2>2, <2>3 DEF Descends
<1>2. ASSUME NEW f, NEW n \in Int, n = 0 \/ f[next[n]] \in V
      PROVE  (IF n \in {0} THEN base[n] ELSE Step[<<n, f[next[n]]>>])
                = IF n = 0 THEN <<>> ELSE Append(f[Tenth(n)], Digit(LastDigit(n)))
  <2> HIDE DEF V
  <2> QED
    BY <1>2
<1>3. \E f : f = Def(f)
  <2>1. PICK f \in [Int -> V] : Solves(f, Int, V, next, {0}, base, Step)
    <3> HIDE DEF m, next, base, Step, V
    <3> QED
      BY <1>1, Recursion
  <2>2. \A n \in Int : f[n] = IF n = 0 THEN <<>> ELSE Append(f[Tenth(n)], Digit(LastDigit(n)))
    <3>1. \A n \in Int : next[n] \in Int
      BY Tenths
    <3> HIDE DEF next, base, Step, V
    <3> QED
      BY <1>2, <2>1, <3>1 DEF Solves
  <2>3. f = Def(f)
    BY <2>2
  <2> QED
    BY <2>3
<1>4. Decimal = Def(Decimal)
  <2>1. Decimal = CHOOSE f : f = Def(f)
    BY DEF Decimal
  <2> HIDE DEF Def
  <2> QED
    BY <1>3, <2>1
<1>5. \A n \in Int : Decimal[n] = IF n = 0 THEN <<>> ELSE Append(Decimal[Tenth(n)], Digit(LastDigit(n)))
  BY <1>4
<1>6. \A n \in Int : Decimal[n] \in Seq(Plain)
  <2>1. Solves(Decimal, Int, V, next, {0}, base, Step)
    <3> HIDE DEF next, base, Step, V
    <3> QED
      BY <1>2, <1>5 DEF Solves
  <2>2. \A n \in Int : Decimal[n] \in V
    <3> HIDE DEF m, next, base, Step, V
    <3> QED
      BY <1>1, <2>1, RecursionType
  <2> QED
    BY <2>2
<1> HIDE DEF Def, V, m, next, base, Step
<1>7. Decimal[0] = <<>>
  BY ONLY <1>5, 0 \in Int
<1>8. \A n \in Int \ {0} : Decimal[n] = Append(Decimal[Tenth(n)], Digit(LastDigit(n)))
  BY <1>5
<1> QED
  BY <1>6, <1>7, <1>8

-----------------------------------------------------------------------------
(* The parts of a text that has been put together from several             *)

\* The first k texts in a row, and those behind them.
First(ss, k) ==
    LET flatten[i \in 1..Len(ss)] == IF i = 1 THEN ss[i] ELSE flatten[i - 1] \o ss[i]
    IN  IF k = 0 THEN <<>> ELSE flatten[k]

Rest(ss, k) == SubSeq(FlattenSeq(ss), Len(First(ss, k)) + 1, Len(FlattenSeq(ss)))

\* What is behind the beginning of a text.
LEMMA Behead ==
    ASSUME NEW S, NEW f \in Seq(S), NEW r \in Seq(S)
    PROVE  SubSeq(f \o r, Len(f) + 1, Len(f \o r)) = r
<1>1. f \o r \in Seq(S) /\ Len(f \o r) = Len(f) + Len(r)
      /\ \A i \in 1..(Len(f) + Len(r)) : (f \o r)[i] = IF i <= Len(f) THEN f[i] ELSE r[i - Len(f)]
  BY ConcatProperties
<1>2. Len(f) \in Nat /\ Len(r) \in Nat
  OBVIOUS
<1> DEFINE c == f \o r
           t == SubSeq(c, Len(f) + 1, Len(c))
<1> HIDE DEF c
<1>3. c \in Seq(S) /\ Len(c) = Len(f) + Len(r)
      /\ \A i \in 1..Len(r) : c[Len(f) + i] = r[i]
  <2>1. \A i \in 1..Len(r) : Len(f) + i \in 1..(Len(f) + Len(r)) /\ ~(Len(f) + i <= Len(f)) /\ Len(f) + i - Len(f) = i
    BY <1>2
  <2> QED
    BY <1>1, <2>1 DEF c
<1>4. t \in Seq(S) /\ Len(t) = Len(r) /\ \A i \in 1..Len(r) : t[i] = r[i]
  BY <1>2, <1>3
<1> HIDE DEF t
<1>5. t = r
  BY <1>4, SeqEqual
<1> QED
  BY <1>5 DEF t, c

LEMMA ConcatLeft ==
    ASSUME NEW S, NEW f \in Seq(S), NEW r \in Seq(S), NEW t \in Seq(S), f \o r = f \o t
    PROVE  r = t
<1>1. SubSeq(f \o r, Len(f) + 1, Len(f \o r)) = r
  BY Behead
<1>2. SubSeq(f \o t, Len(f) + 1, Len(f \o t)) = t
  BY Behead
<1> QED
  BY <1>1, <1>2

LEMMA FirstIs ==
    ASSUME NEW S, NEW ss \in Seq(Seq(S))
    PROVE  /\ First(ss, 0) = <<>>
           /\ \A k \in 0..(Len(ss) - 1) : First(ss, k + 1) = First(ss, k) \o ss[k + 1]
           /\ \A k \in 0..Len(ss) : First(ss, k) \in Seq(S)
           /\ FlattenSeq(ss) = First(ss, Len(ss))
<1> DEFINE n      == Len(ss)
           D      == 1..n
           V      == Seq(S)
           Def(f) == [i \in D |-> IF i = 1 THEN ss[i] ELSE f[i - 1] \o ss[i]]
           p      == CHOOSE f : f = Def(f)
           m      == [i \in D |-> i]
           next   == [i \in D |-> IF i = 1 THEN i ELSE i - 1]
           base   == [i \in D |-> ss[i]]
           Step   == [y \in D \X V |-> y[2] \o ss[y[1]]]
<1>1. n \in Nat /\ \A i \in D : ss[i] \in V
  OBVIOUS
<1>2. Descends(D, V, m, next, {1}, base, Step)
  <2>1. m \in [D -> Nat] /\ next \in [D -> D] /\ base \in [D -> V]
        /\ \A i \in D \ {1} : m[next[i]] < m[i]
    BY <1>1
  <2>2. Step \in [D \X V -> V]
    <3>1. ASSUME NEW y \in D \X V PROVE y[2] \o ss[y[1]] \in V
      BY <1>1, ConcatProperties
    <3> QED
      BY <3>1
  <2> HIDE DEF n, D, V, m, next, base, Step
  <2> QED
    BY <2>1, <2>2 DEF Descends
<1>3. ASSUME NEW f, NEW i \in D, i = 1 \/ f[next[i]] \in V
      PROVE  (IF i \in {1} THEN base[i] ELSE Step[<<i, f[next[i]]>>])
                = IF i = 1 THEN ss[i] ELSE f[i - 1] \o ss[i]
  <2> HIDE DEF V
  <2> QED
    BY <1>3
<1>4. \A i \in D : next[i] \in D
  OBVIOUS
<1>5. \E f : f = Def(f)
  <2>1. PICK f \in [D -> V] : Solves(f, D, V, next, {1}, base, Step)
    <3> HIDE DEF n, D, V, m, next, base, Step
    <3> QED
      BY <1>2, Recursion
  <2>2. \A i \in D : f[i] = IF i = 1 THEN ss[i] ELSE f[i - 1] \o ss[i]
    <3> HIDE DEF n, D, V, next, base, Step
    <3> QED
      BY <1>3, <1>4, <2>1 DEF Solves
  <2>3. f = Def(f)
    BY <2>2
  <2> QED
    BY <2>3
<1>6. p = Def(p)
  <2> HIDE DEF Def
  <2> QED
    BY <1>5
<1>7. \A k : First(ss, k) = IF k = 0 THEN <<>> ELSE p[k]
  BY DEF First
<1>8. n # 0 => FlattenSeq(ss) = p[n]
  BY DEF FlattenSeq
<1> HIDE DEF p
<1>9. \A i \in D : p[i] = IF i = 1 THEN ss[i] ELSE p[i - 1] \o ss[i]
  <2> HIDE DEF D
  <2> QED
    BY <1>6
<1>10. \A i \in D : p[i] \in V
  <2>1. Solves(p, D, V, next, {1}, base, Step)
    <3> HIDE DEF n, D, V, next, base, Step, Def
    <3> QED
      BY <1>3, <1>4, <1>9 DEF Solves
  <2> HIDE DEF n, D, V, m, next, base, Step
  <2> QED
    BY <1>2, <2>1, RecursionType
<1>11. First(ss, 0) = <<>>
  BY <1>7
<1>12. ASSUME NEW k \in 1..n PROVE First(ss, k) = First(ss, k - 1) \o ss[k]
  <2> HIDE DEF n
  <2>1. k \in D /\ k # 0 /\ ss[k] \in Seq(S)
    BY <1>1
  <2>2. CASE k = 1
    <3>1. ss[k] = <<>> \o ss[k]
      BY ONLY <2>1, ConcatEmptySeq
    <3>2. First(ss, k) = ss[k]
      BY ONLY <1>7, <1>9, <2>1, <2>2
    <3>3. k - 1 = 0
      BY <2>2
    <3> QED
      BY ONLY <1>11, <3>1, <3>2, <3>3
  <2>3. CASE k # 1
    <3>1. k - 1 # 0
      BY <1>1, <2>3
    <3> QED
      BY ONLY <1>7, <1>9, <2>1, <2>3, <3>1
  <2> QED
    BY <2>2, <2>3
<1>13. ASSUME NEW k \in 0..n PROVE First(ss, k) \in Seq(S)
  <2>1. k # 0 => k \in D
    BY <1>1
  <2>2. <<>> \in Seq(S)
    OBVIOUS
  <2> QED
    BY ONLY <1>7, <1>10, <2>1, <2>2
<1>14. FlattenSeq(ss) = First(ss, n)
  <2>1. CASE n = 0
    <3>1. FlattenSeq(ss) = ss /\ ss = <<>>
      BY <2>1 DEF FlattenSeq
    <3> QED
      BY <1>11, <2>1, <3>1
  <2> QED
    BY <1>1, <1>7, <1>8, <2>1
<1>15. ASSUME NEW k \in 0..(n - 1) PROVE First(ss, k + 1) = First(ss, k) \o ss[k + 1]
  <2> DEFINE j == k + 1
  <2>1. j \in 1..n /\ k = j - 1
    BY <1>1
  <2> HIDE DEF j, n
  <2>2. First(ss, j) = First(ss, k) \o ss[j]
    BY ONLY <1>12, <2>1
  <2> QED
    BY <2>2 DEF j
<1> HIDE DEF D, V, Def, m, next, base, Step
<1> QED
  BY <1>11, <1>13, <1>14, <1>15

\* Every text begins with its first parts.
LEMMA FirstRest ==
    ASSUME NEW S, NEW ss \in Seq(Seq(S))
    PROVE  /\ \A k \in 0..Len(ss) :
                 Rest(ss, k) \in Seq(S) /\ First(ss, k) \o Rest(ss, k) = FlattenSeq(ss)
           /\ Rest(ss, 0) = FlattenSeq(ss)
           /\ Rest(ss, Len(ss)) = <<>>
           /\ \A k \in 0..(Len(ss) - 1) : Rest(ss, k) = ss[k + 1] \o Rest(ss, k + 1)
<1> DEFINE n    == Len(ss)
           flat == FlattenSeq(ss)
           Good == {j \in Nat : j <= n => \E r \in Seq(S) : First(ss, n - j) \o r = flat}
<1>1. n \in Nat /\ \A k \in 1..n : ss[k] \in Seq(S)
  OBVIOUS
<1>2. /\ First(ss, 0) = <<>>
      /\ \A k \in 0..(n - 1) : First(ss, k + 1) = First(ss, k) \o ss[k + 1]
      /\ \A k \in 0..n : First(ss, k) \in Seq(S)
      /\ flat = First(ss, n)
  BY FirstIs
<1> HIDE DEF n, flat
<1>3. flat \in Seq(S) /\ <<>> \in Seq(S) /\ n \in 0..n
  BY <1>1, <1>2
<1>4. 0 \in Good
  <2>1. First(ss, n) \o <<>> = flat
    BY ONLY <1>2, <1>3, ConcatEmptySeq
  <2>2. n - 0 = n /\ 0 \in Nat
    BY <1>1
  <2> QED
    BY ONLY <1>3, <2>1, <2>2
<1>5. ASSUME NEW j \in Nat, j \in Good PROVE j + 1 \in Good
  <2>1. ASSUME j + 1 <= n PROVE \E r \in Seq(S) : First(ss, n - (j + 1)) \o r = flat
    <3>1. j <= n
      BY <1>1, <2>1
    <3>2. PICK r \in Seq(S) : First(ss, n - j) \o r = flat
      BY <1>5, <3>1
    <3> DEFINE k == n - (j + 1)
    <3>3. k \in 0..(n - 1) /\ k \in 0..n /\ k + 1 \in 1..n /\ n - j = k + 1
      BY <1>1, <2>1
    <3> HIDE DEF k
    <3>4. First(ss, k) \in Seq(S) /\ ss[k + 1] \in Seq(S)
      BY <1>1, <1>2, <3>3
    <3>5. (First(ss, k) \o ss[k + 1]) \o r = First(ss, k) \o (ss[k + 1] \o r)
      <4> DEFINE a == First(ss, k)
                 b == ss[k + 1]
      <4> HIDE DEF a, b
      <4>1. a \in Seq(S) /\ b \in Seq(S) /\ r \in Seq(S)
        BY <3>2, <3>4 DEF a, b
      <4>2. (a \o b) \o r = a \o (b \o r)
        BY ONLY <4>1, ConcatAssociative, SMTT(30)
      <4> QED
        BY <4>2 DEF a, b
    <3>6. ss[k + 1] \o r \in Seq(S)
      BY <3>4, ConcatProperties
    <3>7. First(ss, k) \o (ss[k + 1] \o r) = flat
      BY ONLY <1>2, <3>2, <3>3, <3>5
    <3> QED
      BY ONLY <3>6, <3>7 DEF k
  <2>2. j + 1 \in Nat
    OBVIOUS
  <2> QED
    BY ONLY <2>1, <2>2
<1>6. Nat \subseteq Good
  <2> HIDE DEF Good
  <2> QED
    BY <1>4, <1>5, Induction
<1>7. ASSUME NEW k \in 0..n
      PROVE  Rest(ss, k) \in Seq(S) /\ First(ss, k) \o Rest(ss, k) = flat
  <2>1. PICK r \in Seq(S) : First(ss, k) \o r = flat
    <3>1. n - k \in Nat /\ n - k <= n /\ n - (n - k) = k
      BY <1>1
    <3> QED
      BY <1>6, <3>1
  <2> DEFINE f == First(ss, k)
  <2>2. f \in Seq(S) /\ f \o r = flat
    BY <1>2, <2>1
  <2>3. Rest(ss, k) = SubSeq(flat, Len(f) + 1, Len(flat))
    BY DEF Rest, flat
  <2> HIDE DEF f
  <2>4. Rest(ss, k) = r
    BY ONLY <2>2, <2>3, r \in Seq(S), Behead
  <2> QED
    BY <2>1, <2>4
<1>8. Rest(ss, 0) = flat
  <2>1. First(ss, 0) = <<>> /\ 0 \in 0..n
    BY <1>1, <1>2
  <2>2. Rest(ss, 0) \in Seq(S) /\ <<>> \o Rest(ss, 0) = flat
    BY ONLY <1>7, <2>1
  <2> QED
    BY ONLY <2>2, ConcatEmptySeq
<1>9. Rest(ss, n) = <<>>
  <2>1. Rest(ss, n) = SubSeq(flat, Len(flat) + 1, Len(flat))
    BY <1>2 DEF Rest, flat
  <2> QED
    BY ONLY <2>1, <1>3, SubSeqEmpty
<1>10. ASSUME NEW k \in 0..(n - 1) PROVE Rest(ss, k) = ss[k + 1] \o Rest(ss, k + 1)
  <2> DEFINE f == First(ss, k)
             s == ss[k + 1]
             r == Rest(ss, k)
             t == Rest(ss, k + 1)
  <2>1. k \in 0..n /\ k + 1 \in 1..n /\ k + 1 \in 0..n
    BY <1>1
  <2>2. f \in Seq(S) /\ s \in Seq(S) /\ r \in Seq(S) /\ t \in Seq(S)
    BY ONLY <1>1, <1>2, <1>7, <2>1
  <2>3. f \o r = (f \o s) \o t
    BY ONLY <1>2, <1>7, <2>1
  <2> HIDE DEF f, s, r, t
  <2>4. (f \o s) \o t = f \o (s \o t) /\ s \o t \in Seq(S)
    <3>1. (f \o s) \o t = f \o (s \o t)
      BY ONLY <2>2, ConcatAssociative, SMTT(30)
    <3>2. s \o t \in Seq(S)
      BY ONLY <2>2, ConcatProperties
    <3> QED
      BY <3>1, <3>2
  <2>5. r = s \o t
    BY ONLY <2>2, <2>3, <2>4, ConcatLeft
  <2> QED
    BY <2>5 DEF r, s, t
<1> QED
  BY <1>7, <1>8, <1>9, <1>10 DEF n, flat

-----------------------------------------------------------------------------
(* The texts of arguments *)

LEMMA PowPositive ==
    ASSUME NEW b \in Nat \ {0}
    PROVE  \A n \in Nat : Pow(b, n) \in Nat \ {0}
<1> DEFINE S == {n \in Nat : Pow(b, n) # 0}
<1>1. /\ b \in Nat /\ Pow(b, 0) = 1
      /\ \A n \in Nat : Pow(b, n) \in Nat /\ Pow(b, n + 1) = b * Pow(b, n)
  BY PowIs
<1>2. 0 \in S
  BY <1>1
<1>3. ASSUME NEW n \in Nat, n \in S PROVE n + 1 \in S
  <2>1. \A x \in Nat : x # 0 => b * x # 0
    OBVIOUS
  <2>2. Pow(b, n) \in Nat /\ Pow(b, n) # 0 /\ Pow(b, n + 1) = b * Pow(b, n)
    BY <1>1, <1>3
  <2>3. b * Pow(b, n) # 0
    BY ONLY <2>1, <2>2
  <2> QED
    BY ONLY <2>2, <2>3, n + 1 \in Nat
<1>4. Nat \subseteq S
  <2> HIDE DEF S
  <2> QED
    BY ONLY <1>2, <1>3, Induction
<1> QED
  BY <1>1, <1>4

LEMMA Moduli == IntMod \in Nat \ {0} /\ LongMod \in Nat \ {0} /\ Unit \in Nat \ {0}
<1>1. IntDigits \in Nat /\ LongDigits \in Nat /\ FloatDigits \in Nat
  BY FormatAssumption
<1> QED
  BY <1>1, PowPositive DEF IntMod, LongMod, Unit

LEMMA PlainIs ==
    /\ Plain \subseteq Chars
    /\ {"0", "-", ".", "x"} \subseteq Plain
    /\ Seq(Plain) \subseteq Seq(Chars)
<1>1. "0" \in Plain
  <2>1. Digit(0) = "0" /\ Digit(0) \in Plain
    BY Values10
  <2> QED
    BY <2>1
<1>2. {"-", ".", "x"} \subseteq Plain
  BY FormatAssumption DEF Plain
<1>3. Plain \subseteq Chars
  BY DEF Plain
<1> QED
  BY <1>1, <1>2, <1>3

LEMMA utoaType ==
    ASSUME NEW n \in Int
    PROVE  utoa(n) \in Seq(Plain)
BY PlainIs, DecimalIs DEF utoa

LEMMA itoaType ==
    ASSUME NEW n \in Int
    PROVE  itoa(n) \in Seq(Plain)
<1>1. Wrap(-n) \in Int
  BY Moduli DEF Wrap, Signed
<1>2. <<"0">> \in Seq(Plain) /\ <<"-">> \in Seq(Plain)
  BY PlainIs
<1>3. Decimal[n] \in Seq(Plain) /\ Decimal[Wrap(-n)] \in Seq(Plain)
  BY <1>1, DecimalIs
<1>4. <<"-">> \o Decimal[Wrap(-n)] \in Seq(Plain)
  BY <1>2, <1>3, ConcatProperties
<1> QED
  BY <1>2, <1>3, <1>4 DEF itoa

LEMMA NibblesType ==
    ASSUME NEW num \in Nat, NEW n \in Nat, NEW u \in BOOLEAN
    PROVE  /\ Nibbles(num, n, u) \in Seq(Plain)
           /\ Len(Nibbles(num, n, u)) = n
           /\ \A i \in 1..n : Nibbles(num, n, u)[i] = HexDigit((num \div Pow(16, n - i)) % 16, u)
<1>1. ASSUME NEW i \in 1..n PROVE HexDigit((num \div Pow(16, n - i)) % 16, u) \in Plain
  <2>1. n - i \in Nat /\ 16 \in Nat \ {0}
    OBVIOUS
  <2>2. Pow(16, n - i) \in Nat \ {0}
    BY ONLY <2>1, PowPositive
  <2>3. \A p \in Nat \ {0} : (num \div p) % 16 \in 0..15
    OBVIOUS
  <2> QED
    BY <2>2, <2>3, Values16
<1> QED
  BY <1>1 DEF Nibbles

LEMMA MinIs ==
    ASSUME NEW S, S \subseteq Nat, S # {}
    PROVE  Min(S) \in S /\ \A y \in S : Min(S) <= y
<1>1. \E x \in S : \A y \in S : x <= y
  BY LeastNatural
<1> QED
  BY <1>1 DEF Min

LEMMA StrippedType ==
    ASSUME NEW s \in Seq(Plain), s # <<>>
    PROVE  Stripped(s) \in Seq(Plain)
<1> DEFINE keep == {i \in 1..Len(s) : s[i] # "0"} \cup {Len(s)}
<1>1. keep \subseteq 1..Len(s) /\ keep \subseteq Nat /\ keep # {}
  OBVIOUS
<1> HIDE DEF keep
<1>2. Min(keep) \in 1..Len(s)
  BY <1>1, MinIs
<1>3. SubSeq(s, Min(keep), Len(s)) \in Seq(Plain)
  BY <1>2
<1> QED
  BY <1>3 DEF Stripped, keep

LEMMA itohType ==
    ASSUME NEW n \in Nat, NEW u \in BOOLEAN
    PROVE  itoh(n, u) \in Seq(Plain)
<1>1. LongDigits \in Nat /\ LongDigits # 0
  BY FormatAssumption
<1> DEFINE s == Nibbles(n, LongDigits, u)
<1>2. s \in Seq(Plain) /\ Len(s) = LongDigits
  BY <1>1, NibblesType
<1> HIDE DEF s
<1>3. s # <<>>
  BY <1>1, <1>2
<1> QED
  BY <1>2, <1>3, StrippedType DEF itoh, s

LEMMA ptoaType ==
    ASSUME NEW n \in Nat
    PROVE  ptoa(n) \in Seq(Plain)
<1>1. IntDigits \in Nat
  BY FormatAssumption
<1>2. <<"0", "x">> \in Seq(Plain)
  BY PlainIs
<1> QED
  BY <1>1, <1>2, NibblesType, ConcatProperties DEF ptoa

\* The division by ten that makes a large number small: what is left of it, and
\* how often.
LEMMA ShrunkType ==
    ASSUME NEW n \in Nat
    PROVE  Shrunk[n] \in Nat \X Nat
<1> DEFINE Def(f) == [num \in Nat |-> IF num <= 10 * Unit THEN <<num, 0>>
                                      ELSE LET less == f[num \div 10] IN <<less[1], less[2] + 1>>]
           V      == Nat \X Nat
           m      == [num \in Nat |-> num]
           next   == [num \in Nat |-> num \div 10]
           Base   == {num \in Nat : num <= 10 * Unit}
           base   == [num \in Nat |-> <<num, 0>>]
           Step   == [y \in Nat \X V |-> <<y[2][1], y[2][2] + 1>>]
<1>1. Descends(Nat, V, m, next, Base, base, Step)
  <2>1. m \in [Nat -> Nat] /\ next \in [Nat -> Nat] /\ base \in [Nat -> V] /\ Step \in [Nat \X V -> V]
    OBVIOUS
  <2>2. \A num \in Nat \ Base : m[next[num]] < m[num]
    BY Moduli
  <2> HIDE DEF V, m, next, Base, base, Step
  <2> QED
    BY <2>1, <2>2 DEF Descends
<1>2. ASSUME NEW f, NEW num \in Nat, num \in Base \/ f[next[num]] \in V
      PROVE  (IF num \in Base THEN base[num] ELSE Step[<<num, f[next[num]]>>])
                = IF num <= 10 * Unit THEN <<num, 0>>
                  ELSE LET less == f[num \div 10] IN <<less[1], less[2] + 1>>
  <2>1. num \in Base <=> num <= 10 * Unit
    OBVIOUS
  <2>2. base[num] = <<num, 0>> /\ next[num] = num \div 10
    OBVIOUS
  <2>3. \A y \in V : Step[<<num, y>>] = <<y[1], y[2] + 1>>
    OBVIOUS
  <2> HIDE DEF V, next, Base, base, Step
  <2> QED
    BY <1>2, <2>1, <2>2, <2>3
<1>3. \A num \in Nat : next[num] \in Nat
  OBVIOUS
<1>4. \E f : f = Def(f)
  <2>1. PICK f \in [Nat -> V] : Solves(f, Nat, V, next, Base, base, Step)
    <3> HIDE DEF m, next, Base, base, Step, V
    <3> QED
      BY <1>1, Recursion
  <2>2. \A num \in Nat : f[num] = IF num <= 10 * Unit THEN <<num, 0>>
                                  ELSE LET less == f[num \div 10] IN <<less[1], less[2] + 1>>
    <3> HIDE DEF next, Base, base, Step, V
    <3> QED
      BY <1>2, <1>3, <2>1 DEF Solves
  <2>3. f = Def(f)
    BY <2>2
  <2> QED
    BY <2>3
<1>5. Shrunk = Def(Shrunk)
  <2>1. Shrunk = CHOOSE f : f = Def(f)
    BY DEF Shrunk
  <2> HIDE DEF Def
  <2> QED
    BY <1>4, <2>1
<1>6. \A num \in Nat : Shrunk[num] = IF num <= 10 * Unit THEN <<num, 0>>
                                     ELSE LET less == Shrunk[num \div 10] IN <<less[1], less[2] + 1>>
  BY <1>5
<1>7. Solves(Shrunk, Nat, V, next, Base, base, Step)
  <2> HIDE DEF next, Base, base, Step, V
  <2> QED
    BY <1>2, <1>3, <1>6 DEF Solves
<1>8. \A num \in Nat : Shrunk[num] \in V
  <2> HIDE DEF m, next, Base, base, Step, V
  <2> QED
    BY <1>1, <1>7, RecursionType
<1> QED
  BY <1>8

LEMMA ftoaType ==
    ASSUME NEW num \in Int
    PROVE  ftoa(num) \in Seq(Plain)
<1> DEFINE abs == IF num < 0 THEN -num ELSE num
           exp == IF abs <= (LongMod - 1) * Unit THEN <<abs, 0>> ELSE Shrunk[abs]
<1>1. abs \in Nat
  OBVIOUS
<1> HIDE DEF abs
<1>2. exp \in Nat \X Nat
  BY <1>1, ShrunkType
<1> HIDE DEF exp
<1> DEFINE sign  == IF num < 0 THEN <<"-">> ELSE <<>>
           whole == utoa(exp[1] \div Unit)
           part  == utoa(exp[1] % Unit)
           mark  == IF exp[2] > 0 THEN itoa(exp[2]) ELSE <<>>
<1>3. sign \in Seq(Plain) /\ <<".">> \in Seq(Plain)
  BY PlainIs
<1>4. exp[1] \div Unit \in Int /\ exp[1] % Unit \in Int /\ exp[2] \in Int
  BY <1>2, Moduli
<1>5. whole \in Seq(Plain) /\ part \in Seq(Plain) /\ mark \in Seq(Plain)
  <2>1. utoa(exp[1] \div Unit) \in Seq(Plain) /\ utoa(exp[1] % Unit) \in Seq(Plain)
    BY ONLY <1>4, utoaType
  <2>2. itoa(exp[2]) \in Seq(Plain)
    BY ONLY <1>4, itoaType
  <2>3. <<>> \in Seq(Plain)
    OBVIOUS
  <2> QED
    BY <2>1, <2>2, <2>3
<1>6. ftoa(num) = sign \o whole \o <<".">> \o part \o mark
  BY DEF ftoa, abs, exp
<1> HIDE DEF sign, whole, part, mark
<1> QED
  BY <1>3, <1>5, <1>6, ConcatProperties

-----------------------------------------------------------------------------
(* Directives *)

LEMMA Tables ==
    /\ DOMAIN Short = {"c", "d", "f", "p", "s", "u", "X", "x"}
    /\ DOMAIN Long = {"d", "u", "X", "x"}
    /\ DOMAIN Wide = {"d", "u", "X", "x"}
    /\ Short["c"] = "c" /\ Short["d"] = "d" /\ Short["f"] = "f" /\ Short["p"] = "p"
    /\ Short["s"] = "s" /\ Short["u"] = "u" /\ Short["X"] = "X" /\ Short["x"] = "x"
    /\ Long["d"] = "ld" /\ Long["u"] = "lu" /\ Long["X"] = "lX" /\ Long["x"] = "lx"
    /\ Wide["d"] = "lld" /\ Wide["u"] = "llu" /\ Wide["X"] = "llX" /\ Wide["x"] = "llx"
BY DEF Short, Long, Wide

\* The conversions that take an argument.
Convs == {"c", "d", "f", "p", "s", "u", "X", "x", "ld", "lu", "lX", "lx", "lld", "llu", "llX", "llx"}

LEMMA ConvsIs ==
    /\ \A c \in DOMAIN Short : Short[c] \in Convs
    /\ \A c \in DOMAIN Long : Long[c] \in Convs
    /\ \A c \in DOMAIN Wide : Wide[c] \in Convs
    /\ \A conv \in Convs : TakesArgument(conv) /\ conv # "lit"
<1>1. "lit" \notin Convs /\ "%" \notin Convs /\ "none" \notin Convs
  BY DEF Convs
<1> QED
  BY <1>1, Tables DEF Convs, TakesArgument

\* What a format that begins with a spelled directive is taken for.
LEMMA DirectiveIs ==
    ASSUME NEW f
    PROVE  /\ f[2] = "%" => Directive(f) = [conv |-> "%", used |-> 2]
           /\ f[2] \notin {"%", "l"} => Directive(f) = [conv |-> Known(Short, f[2]), used |-> 2]
           /\ f[2] = "l" /\ f[3] \in DOMAIN Long => Directive(f) = [conv |-> Long[f[3]], used |-> 3]
           /\ f[2] = "l" /\ f[3] \notin DOMAIN Long => Directive(f) = [conv |-> Known(Wide, f[4]), used |-> 4]
BY Zenon DEF Directive

LEMMA PowMonotone ==
    ASSUME NEW b \in Nat \ {0}, NEW n \in Nat
    PROVE  \A k \in Nat : Pow(b, n) <= Pow(b, n + k)
<1> DEFINE S == {k \in Nat : Pow(b, n) <= Pow(b, n + k)}
<1>1. \A k \in Nat : /\ Pow(b, k) \in Nat
                     /\ Pow(b, k + 1) = b * Pow(b, k)
  BY b \in Nat, PowIs
<1>2. \A x \in Nat : x <= b * x
  OBVIOUS
<1>3. 0 \in S
  BY <1>1
<1>4. ASSUME NEW k \in Nat, k \in S PROVE k + 1 \in S
  <2>1. n + k \in Nat /\ n + (k + 1) = (n + k) + 1
    OBVIOUS
  <2>2. Pow(b, n + k) \in Nat /\ Pow(b, n + (k + 1)) = b * Pow(b, n + k)
    BY ONLY <1>1, <2>1
  <2>3. Pow(b, n) \in Nat /\ Pow(b, n) <= Pow(b, n + k)
    BY <1>1, <1>4
  <2>4. Pow(b, n + k) <= b * Pow(b, n + k)
    BY ONLY <1>2, <2>2
  <2>5. Pow(b, n) <= Pow(b, n + (k + 1))
    <3>1. \A x, y \in Nat : x <= y /\ y <= b * y => x <= b * y
      OBVIOUS
    <3> QED
      BY ONLY <2>2, <2>3, <2>4, <3>1
  <2> QED
    BY <2>5
<1>5. Nat \subseteq S
  <2> HIDE DEF S
  <2> QED
    BY ONLY <1>3, <1>4, Induction
<1> QED
  BY <1>5

\* A long long holds twice every int.
LEMMA LongIsLonger == 2 * IntMod <= LongMod
<1> DEFINE I == IntDigits
           k == LongDigits - (IntDigits + 1)
<1>1. I \in Nat /\ k \in Nat /\ LongDigits = (I + 1) + k
  BY FormatAssumption
<1>2. Pow(16, I) \in Nat /\ Pow(16, I + 1) = 16 * Pow(16, I)
  BY <1>1, 16 \in Nat, PowIs
<1>3. Pow(16, I + 1) <= Pow(16, (I + 1) + k)
  BY <1>1, I + 1 \in Nat, 16 \in Nat \ {0}, PowMonotone
<1>4. Pow(16, (I + 1) + k) \in Nat
  BY <1>1, (I + 1) + k \in Nat, 16 \in Nat, PowIs
<1>5. IntMod = Pow(16, I) /\ LongMod = Pow(16, (I + 1) + k)
  BY <1>1 DEF IntMod, LongMod
<1> HIDE DEF I, k
<1> QED
  BY <1>2, <1>3, <1>4, <1>5

LEMMA ValuesAre ==
    /\ \A conv \in {"d", "ld", "lld", "f"} : Values(conv) \subseteq Int
    /\ \A conv \in {"u", "lu", "llu", "x", "lx", "llx", "X", "lX", "llX", "p"} :
          Values(conv) \subseteq Nat
    /\ Values("c") = Chars
    /\ \A s \in Values("s") : s \in Seq(Chars) /\ Harmless(s)
<1>1. /\ Values("d") \subseteq Int /\ Values("ld") \subseteq Int
      /\ Values("lld") \subseteq Int /\ Values("f") \subseteq Int
  BY DEF Values
<1>2. IntMod \in Nat /\ LongMod \in Nat
  BY Moduli
<1>3. /\ Values("u") = 0..(IntMod - 1) /\ Values("lu") = 0..(IntMod - 1)
      /\ Values("x") = 0..(IntMod - 1) /\ Values("lx") = 0..(IntMod - 1)
      /\ Values("X") = 0..(IntMod - 1) /\ Values("lX") = 0..(IntMod - 1)
      /\ Values("p") = 0..(IntMod - 1)
      /\ Values("llu") = 0..(LongMod - 1) /\ Values("llx") = 0..(LongMod - 1)
      /\ Values("llX") = 0..(LongMod - 1)
  BY DEF Values
<1>4. Values("c") = Chars
  BY DEF Values
<1>5. Values("s") = {s \in Seq(Chars) : Harmless(s)}
  BY DEF Values
<1>6. 0..(IntMod - 1) \subseteq Nat /\ 0..(LongMod - 1) \subseteq Nat
  BY <1>2
<1> QED
  BY <1>1, <1>3, <1>4, <1>5, <1>6

LEMMA PlainHarmless ==
    ASSUME NEW s \in Seq(Plain)
    PROVE  Harmless(s)
<1> DEFINE places == 1..(Len(s) + 1)
<1>1. 1 \in places /\ places \in SUBSET (1..(Len(s) + 1))
  OBVIOUS
<1>2. \A i \in places \ {Len(s) + 1} : s[i] # "%" /\ i + 1 \in places
  BY DEF Plain
<1> HIDE DEF places
<1> QED
  BY <1>1, <1>2, Zenon DEF Harmless

\* What an argument is turned into is printed in characters, and sprintf can
\* take it for a format without arguments.
LEMMA TextType ==
    ASSUME NEW conv \in Convs \ {"c"}, NEW v \in Values(conv)
    PROVE  /\ Text(conv, v) \in Seq(Chars)
           /\ TextInMemory(conv, v) \in Seq(Chars) /\ Harmless(TextInMemory(conv, v))
           /\ conv # "s" => TextInMemory(conv, v) \in Seq(Plain)
<1>1. CASE conv \in {"d", "ld", "lld"}
  <2>1. Text(conv, v) = itoa(v) /\ TextInMemory(conv, v) = itoa(v)
    BY <1>1 DEF Text, TextInMemory
  <2>2. v \in Int
    BY <1>1, ValuesAre
  <2> QED
    BY <2>1, <2>2, itoaType, PlainIs, PlainHarmless
<1>2. CASE conv \in {"u", "lu", "llu"}
  <2>1. Text(conv, v) = utoa(v)
    BY <1>2 DEF Text
  <2>2. v \in Int /\ Signed(v) \in Int
    BY <1>2, ValuesAre, Moduli DEF Signed
  <2>3. TextInMemory(conv, v) \in {utoa(v), itoa(Signed(v))}
    BY <2>1 DEF TextInMemory
  <2>4. utoa(v) \in Seq(Plain) /\ itoa(Signed(v)) \in Seq(Plain)
    BY <2>2, utoaType, itoaType
  <2> QED
    BY <2>1, <2>3, <2>4, PlainIs, PlainHarmless
<1>3. CASE conv \in {"x", "lx", "llx", "X", "lX", "llX"}
  <2>1. Text(conv, v) \in {itoh(v, FALSE), itoh(v, TRUE)} /\ TextInMemory(conv, v) = Text(conv, v)
    BY <1>3 DEF Text, TextInMemory
  <2>2. v \in Nat
    BY <1>3, ValuesAre
  <2>3. itoh(v, FALSE) \in Seq(Plain) /\ itoh(v, TRUE) \in Seq(Plain)
    BY <2>2, itohType
  <2> QED
    BY <2>1, <2>3, PlainIs, PlainHarmless
<1>4. CASE conv = "p"
  <2>1. Text(conv, v) = ptoa(v) /\ TextInMemory(conv, v) = ptoa(v)
    BY <1>4 DEF Text, TextInMemory
  <2>2. v \in Nat
    BY <1>4, ValuesAre
  <2> QED
    BY <2>1, <2>2, ptoaType, PlainIs, PlainHarmless
<1>5. CASE conv = "f"
  <2>1. Text(conv, v) = ftoa(v) /\ TextInMemory(conv, v) = ftoa(v)
    BY <1>5 DEF Text, TextInMemory
  <2>2. v \in Int
    BY <1>5, ValuesAre
  <2> QED
    BY <2>1, <2>2, ftoaType, PlainIs, PlainHarmless
<1>6. CASE conv = "s"
  <2>1. Text(conv, v) = v /\ TextInMemory(conv, v) = v
    BY <1>6 DEF Text, TextInMemory
  <2> QED
    BY <1>6, <2>1, ValuesAre
<1> QED
  BY <1>1, <1>2, <1>3, <1>4, <1>5, <1>6 DEF Convs

\* For what is writable it is the same text in memory as on the screen, and no
\* percent sign is in it.
LEMMA TextWritable ==
    ASSUME NEW conv \in Convs \ {"c"}, NEW v \in Values(conv),
           conv = "llu" => 2 * v < LongMod, conv = "s" => ~Contains(v, "%")
    PROVE  TextInMemory(conv, v) = Text(conv, v) /\ TextInMemory(conv, v) \in Seq(Plain)
<1>1. CASE conv = "s"
  <2>1. TextInMemory(conv, v) = v /\ Text(conv, v) = v
    BY <1>1 DEF Text, TextInMemory
  <2>2. v \in Seq(Chars) /\ \A i \in 1..Len(v) : v[i] # "%"
    BY <1>1, ValuesAre DEF Contains
  <2>3. \A i \in 1..Len(v) : v[i] \in Plain
    BY <2>2 DEF Plain
  <2> QED
    BY <2>1, <2>2, <2>3
<1>2. CASE conv \in {"u", "llu"}
  <2>1. v \in Nat /\ 2 * v < LongMod
    <3>1. CASE conv = "llu"
      BY <3>1, ValuesAre
    <3>2. CASE conv = "u"
      <4>1. v \in 0..(IntMod - 1) /\ IntMod \in Nat
        BY <3>2, Moduli DEF Values
      <4>2. 2 * IntMod <= LongMod
        BY LongIsLonger
      <4> QED
        BY <4>1, <4>2, Moduli
    <3> QED
      BY <1>2, <3>1, <3>2
  <2>2. Signed(v) = v
    BY <2>1, Moduli DEF Signed
  <2>3. Text(conv, v) = utoa(v) /\ TextInMemory(conv, v) = itoa(v)
    BY <1>2, <2>2 DEF Text, TextInMemory
  <2>4. itoa(v) = utoa(v)
    BY <2>1 DEF itoa, utoa
  <2> QED
    BY <2>1, <2>3, <2>4, utoaType
<1>3. CASE conv \notin {"s", "u", "llu"}
  BY <1>3, TextType DEF TextInMemory
<1> QED
  BY <1>1, <1>2, <1>3

LEMMA SubSubSeq ==
    ASSUME NEW S, NEW f \in Seq(S), NEW j \in 1..(Len(f) + 1), NEW i \in 1..(Len(f) - j + 2)
    PROVE  LET s == SubSeq(f, j, Len(f))
           IN  /\ s \in Seq(S) /\ Len(s) = Len(f) - j + 1
               /\ \A l \in 1..Len(s) : s[l] = f[l + j - 1]
               /\ SubSeq(s, i, Len(s)) = SubSeq(f, i + j - 1, Len(f))
<1> DEFINE s == SubSeq(f, j, Len(f))
           a == SubSeq(s, i, Len(s))
           b == SubSeq(f, i + j - 1, Len(f))
<1>1. Len(f) \in Nat /\ j \in Nat /\ i \in Nat
  OBVIOUS
<1>2. s \in Seq(S) /\ Len(s) = Len(f) - j + 1 /\ \A l \in 1..Len(s) : s[l] = f[l + j - 1]
  OBVIOUS
<1> HIDE DEF s
<1>3. a \in Seq(S) /\ Len(a) = Len(s) - i + 1 /\ \A l \in 1..Len(a) : a[l] = s[l + i - 1]
  <2>1. i \in 1..(Len(s) + 1) /\ Len(s) \in Nat
    BY <1>1, <1>2
  <2>2. s \in Seq(S)
    BY <1>2
  <2> QED
    BY ONLY <2>1, <2>2
<1>4. b \in Seq(S) /\ Len(b) = Len(f) - (i + j - 1) + 1 /\ \A l \in 1..Len(b) : b[l] = f[l + (i + j - 1) - 1]
  BY <1>1
<1> HIDE DEF a, b
<1>5. Len(a) = Len(b)
  BY <1>1, <1>2, <1>3, <1>4
<1>6. ASSUME NEW l \in 1..Len(a) PROVE a[l] = b[l]
  <2>1. /\ Len(s) \in Nat /\ Len(a) = Len(s) - i + 1 /\ Len(b) = Len(a)
        /\ i \in Nat /\ i # 0 /\ j \in Nat
    <3>1. i \in Nat /\ i # 0 /\ j \in Nat
      BY <1>1
    <3>2. Len(s) \in Nat /\ Len(b) = Len(a)
      BY <1>2, <1>5
    <3>3. Len(a) = Len(s) - i + 1
      BY <1>3
    <3> QED
      BY ONLY <3>1, <3>2, <3>3
  <2>2. l \in Nat /\ 1 <= l /\ l <= Len(s) - i + 1
    BY <2>1
  <2>3. l + i - 1 \in 1..Len(s) /\ l \in 1..Len(b) /\ (l + i - 1) + j - 1 = l + (i + j - 1) - 1
    BY ONLY <2>1, <2>2
  <2> QED
    BY <1>2, <1>3, <1>4, <2>3
<1>7. a = b
  BY <1>3, <1>4, <1>5, <1>6, SeqEqual
<1> QED
  BY <1>2, <1>7 DEF s, a, b

\* sprintf reads a harmless text on as one.
LEMMA HarmlessStep ==
    ASSUME NEW f \in Seq(Chars), f # <<>>, Harmless(f)
    PROVE  /\ Head(f) # "%" => Harmless(Tail(f))
           /\ Head(f) = "%" => /\ Complete(f) /\ ~TakesArgument(Directive(f).conv)
                               /\ 1 + Directive(f).used \in 1..(Len(f) + 1)
                               /\ Harmless(SubSeq(f, Directive(f).used + 1, Len(f)))
<1> DEFINE Ok(s, places) ==
        /\ 1 \in places
        /\ \A i \in places \ {Len(s) + 1} :
              IF s[i] # "%" THEN i + 1 \in places
              ELSE /\ Complete(SubSeq(s, i, Len(s)))
                   /\ ~TakesArgument(Directive(SubSeq(s, i, Len(s))).conv)
                   /\ i + Directive(SubSeq(s, i, Len(s))).used \in places
<1>1. \A s : Harmless(s) <=> \E places \in SUBSET (1..(Len(s) + 1)) : Ok(s, places)
  BY DEF Harmless
<1>2. PICK places \in SUBSET (1..(Len(f) + 1)) : Ok(f, places)
  BY <1>1
<1>3. Len(f) \in Nat /\ Len(f) # 0 /\ Head(f) = f[1] /\ SubSeq(f, 1, Len(f)) = f
      /\ SubSeq(f, 2, Len(f)) = Tail(f)
  OBVIOUS
<1>4. ASSUME NEW j \in places
      PROVE  Harmless(SubSeq(f, j, Len(f)))
  <2> DEFINE s      == SubSeq(f, j, Len(f))
             behind == {i \in 1..(Len(s) + 1) : i + j - 1 \in places}
  <2>1. j \in 1..(Len(f) + 1)
    OBVIOUS
  <2>2. Len(s) = Len(f) - j + 1 /\ \A l \in 1..Len(s) : s[l] = f[l + j - 1]
    BY <1>3, <2>1, SubSubSeq
  <2>3. \A i \in 1..(Len(s) + 1) : SubSeq(s, i, Len(s)) = SubSeq(f, i + j - 1, Len(f))
    BY <1>3, <2>1, <2>2, SubSubSeq
  <2> HIDE DEF s
  <2>4. 1 \in behind /\ behind \in SUBSET (1..(Len(s) + 1))
    BY <1>3, <2>1, <2>2
  <2>5. ASSUME NEW i \in behind, i # Len(s) + 1
        PROVE  IF s[i] # "%" THEN i + 1 \in behind
               ELSE /\ Complete(SubSeq(s, i, Len(s)))
                    /\ ~TakesArgument(Directive(SubSeq(s, i, Len(s))).conv)
                    /\ i + Directive(SubSeq(s, i, Len(s))).used \in behind
    <3> DEFINE l == i + j - 1
               g == SubSeq(s, i, Len(s))
               u == Directive(g).used
    <3>1. i \in 1..Len(s) /\ l \in places /\ l # Len(f) + 1
      BY <1>3, <2>1, <2>2, <2>5
    <3>2. s[i] = f[l] /\ g = SubSeq(f, l, Len(f))
      BY <2>2, <2>3, <2>5, <3>1
    <3> HIDE DEF l, g, u
    <3>3. IF s[i] # "%" THEN l + 1 \in places
          ELSE Complete(g) /\ ~TakesArgument(Directive(g).conv) /\ l + u \in places
      BY <1>2, <3>1, <3>2 DEF u
    <3>4. l + 1 \in places => i + 1 \in behind
      BY <1>3, <2>1, <2>2, <3>1 DEF l
    <3>5. ASSUME l + u \in places, Complete(g) PROVE i + u \in behind
      <4>1. u \in {2, 3, 4}
        BY DEF u, Directive
      <4> QED
        BY <1>3, <2>1, <2>2, <3>1, <3>5, <4>1 DEF l
    <3> QED
      BY <3>3, <3>4, <3>5 DEF g, u
  <2> HIDE DEF behind
  <2>6. Ok(s, behind)
    BY <2>4, <2>5
  <2> HIDE DEF Ok
  <2> QED
    BY <1>1, <2>4, <2>6 DEF s
<1>5. 1 \in places \ {Len(f) + 1}
  BY <1>2, <1>3
<1>6. ASSUME Head(f) # "%" PROVE Harmless(Tail(f))
  <2>1. 2 \in places
    BY <1>2, <1>3, <1>5, <1>6
  <2> QED
    BY <1>3, <1>4, <2>1
<1>7. ASSUME Head(f) = "%"
      PROVE  /\ Complete(f) /\ ~TakesArgument(Directive(f).conv)
             /\ 1 + Directive(f).used \in places
  BY <1>2, <1>3, <1>5, <1>7
<1>8. Directive(f).used \in {2, 3, 4}
  BY DEF Directive
<1>9. ASSUME Head(f) = "%" PROVE Harmless(SubSeq(f, Directive(f).used + 1, Len(f)))
  <2>1. Directive(f).used + 1 \in places
    BY <1>7, <1>8, <1>9
  <2> QED
    BY <1>4, <2>1
<1> QED
  BY <1>6, <1>7, <1>9

LEMMA HeadTailOfOne ==
    ASSUME NEW S, NEW x \in S, NEW r \in Seq(S)
    PROVE  Head(<<x>> \o r) = x /\ Tail(<<x>> \o r) = r
<1>1. <<x>> \in Seq(S) /\ Len(<<x>>) = 1 /\ <<x>>[1] = x
  OBVIOUS
<1> DEFINE c == <<x>> \o r
<1>2. c \in Seq(S) /\ Len(c) = 1 + Len(r) /\ c[1] = x
  <2>1. /\ c \in Seq(S) /\ Len(c) = 1 + Len(r)
        /\ \A i \in 1..(1 + Len(r)) : c[i] = IF i <= 1 THEN <<x>>[i] ELSE r[i - 1]
    BY <1>1, ConcatProperties
  <2> QED
    BY <1>1, <2>1
<1>3. SubSeq(c, 1 + 1, Len(c)) = r
  BY <1>1, Behead
<1> HIDE DEF c
<1>4. Head(c) = x /\ Tail(c) = r
  BY <1>2, <1>3
<1> QED
  BY <1>4 DEF c

-----------------------------------------------------------------------------
(* Items *)

LEMMA ItemIs ==
    ASSUME NEW item \in Items
    PROVE  \/ item.conv = "lit" /\ item.args = <<>> /\ \E c \in Chars \ {"%"} : item.spelled = <<c>>
           \/ item.conv = "%" /\ item.args = <<>> /\ item.spelled = <<"%", "%">>
           \/ /\ item.conv = "none" /\ item.args = <<>>
              /\ \/ \E c \in Chars \ (DOMAIN Short \cup {"%", "l"}) : item.spelled = <<"%", c>>
                 \/ \E c \in Chars \ DOMAIN Long, d \in Chars \ DOMAIN Wide : item.spelled = <<"%", "l", c, d>>
           \/ /\ item.conv \in Convs
              /\ item.args = <<item.args[1]>> /\ item.args[1] \in Values(item.conv)
              /\ \/ \E c \in DOMAIN Short : Short[c] = item.conv /\ item.spelled = <<"%", c>>
                 \/ \E c \in DOMAIN Long : Long[c] = item.conv /\ item.spelled = <<"%", "l", c>>
                 \/ \E c \in DOMAIN Wide : Wide[c] = item.conv /\ item.spelled = <<"%", "l", "l", c>>
<1>1. LegalItem(item)
  BY FormatAssumption
<1>2. ASSUME item.spelled \in Spellings(item.conv)
      PROVE  \/ \E c \in DOMAIN Short : Short[c] = item.conv /\ item.spelled = <<"%", c>>
             \/ \E c \in DOMAIN Long : Long[c] = item.conv /\ item.spelled = <<"%", "l", c>>
             \/ \E c \in DOMAIN Wide : Wide[c] = item.conv /\ item.spelled = <<"%", "l", "l", c>>
  BY <1>2, Zenon DEF Spellings
<1>3. ASSUME item.spelled \in Spellings(item.conv) PROVE item.conv \in Convs
  BY <1>2, <1>3, ConvsIs
<1> QED
  BY <1>1, <1>2, <1>3 DEF LegalItem

\* The arguments items have.
Args == {item.args[1] : item \in Items}

\* The text printed for an item.
ItemText(item) ==
    CASE item.conv = "lit"  -> item.spelled
      [] item.conv = "%"    -> <<"%">>
      [] item.conv = "none" -> <<>>
      [] item.conv = "c"    -> <<item.args[1]>>
      [] OTHER              -> Text(item.conv, item.args[1])

LEMMA ItemType ==
    ASSUME NEW item \in Items
    PROVE  /\ item.spelled \in Seq(Chars) /\ item.spelled # <<>>
           /\ item.args \in Seq(Args)
           /\ ItemText(item) \in Seq(Chars)
<1>1. item.args[1] \in Args
  BY DEF Args
<1>2. {"%", "l"} \subseteq Chars /\ DOMAIN Short \subseteq Chars /\ DOMAIN Long \subseteq Chars /\ DOMAIN Wide \subseteq Chars
  BY FormatAssumption
<1>3. item.spelled \in Seq(Chars) /\ item.spelled # <<>> /\ item.args \in Seq(Args)
  <2>1. \A x \in Args : <<x>> \in Seq(Args)
    OBVIOUS
  <2>2. \A c, d, e, g \in Chars : /\ <<c>> \in Seq(Chars) /\ <<c, d>> \in Seq(Chars)
                                 /\ <<c, d, e>> \in Seq(Chars) /\ <<c, d, e, g>> \in Seq(Chars)
    OBVIOUS
  <2>3. <<>> \in Seq(Args)
    OBVIOUS
  <2>4. item.args = <<>> \/ item.args = <<item.args[1]>>
    BY ItemIs
  <2>5. item.args \in Seq(Args)
    BY ONLY <1>1, <2>1, <2>3, <2>4
  <2>6. \/ \E c \in Chars : item.spelled = <<c>>
        \/ \E c, d \in Chars : item.spelled = <<c, d>>
        \/ \E c, d, e \in Chars : item.spelled = <<c, d, e>>
        \/ \E c, d, e, g \in Chars : item.spelled = <<c, d, e, g>>
    BY <1>2, ItemIs, Zenon
  <2>7. item.spelled # <<>>
    BY ONLY <2>6
  <2> QED
    BY ONLY <2>2, <2>5, <2>6, <2>7
<1>4. ItemText(item) \in Seq(Chars)
  <2>1. CASE item.conv \in {"lit", "%", "none"}
    BY <1>2, <1>3, <2>1 DEF ItemText
  <2>2. CASE item.conv \notin {"lit", "%", "none"}
    <3>1. item.conv \in Convs /\ item.args[1] \in Values(item.conv)
      BY <2>2, ItemIs
    <3>2. CASE item.conv = "c"
      BY <3>1, <3>2, ValuesAre DEF ItemText
    <3>3. CASE item.conv # "c"
      <4>1. ItemText(item) = Text(item.conv, item.args[1])
        BY <2>2, <3>3 DEF ItemText
      <4> QED
        BY <3>1, <3>3, <4>1, TextType
    <3> QED
      BY <3>2, <3>3
  <2> QED
    BY <2>1, <2>2
<1> QED
  BY <1>3, <1>4

\* A format that begins with an item goes on behind it, with the arguments
\* behind those of the item.
LEMMA ItemStep ==
    ASSUME NEW item \in Items, NEW rest \in Seq(Chars), NEW others \in Seq(Args)
    PROVE  LET f == item.spelled \o rest
               a == item.args \o others
           IN  /\ f # <<>>
               /\ item.conv = "lit" <=> Head(f) # "%"
               /\ item.conv = "lit" => ItemText(item) = <<Head(f)>> /\ Tail(f) = rest /\ a = others
               /\ item.conv # "lit" =>
                     /\ Directive(f).conv = item.conv
                     /\ SubSeq(f, Directive(f).used + 1, Len(f)) = rest
                     /\ IF TakesArgument(item.conv)
                        THEN /\ item.conv \in Convs /\ Head(a) = item.args[1] /\ Tail(a) = others
                             /\ Head(a) \in Values(item.conv)
                        ELSE item.conv \in {"%", "none"} /\ a = others
<1> DEFINE s == item.spelled
           f == s \o rest
           a == item.args \o others
<1>1. s \in Seq(Chars) /\ s # <<>> /\ item.args \in Seq(Args)
  BY ItemType
<1>2. /\ f \in Seq(Chars) /\ Len(f) = Len(s) + Len(rest)
      /\ \A i \in 1..Len(s) : f[i] = s[i]
  <2> HIDE DEF s
  <2>1. /\ s \o rest \in Seq(Chars) /\ Len(s \o rest) = Len(s) + Len(rest)
        /\ \A i \in 1..(Len(s) + Len(rest)) : (s \o rest)[i] = IF i <= Len(s) THEN s[i] ELSE rest[i - Len(s)]
    BY <1>1, ConcatProperties
  <2>2. Len(s) \in Nat /\ Len(rest) \in Nat
    BY <1>1
  <2> QED
    BY <2>1, <2>2
<1>3. SubSeq(f, Len(s) + 1, Len(f)) = rest
  BY <1>1, Behead
<1>4. f # <<>> /\ Head(f) = s[1] /\ Tail(f) = SubSeq(f, 2, Len(f))
  <2>1. Len(s) \in Nat /\ Len(s) # 0 /\ Len(rest) \in Nat
    BY <1>1
  <2> HIDE DEF s, f
  <2> QED
    BY <1>2, <2>1
<1> HIDE DEF f
<1>5. item.args = <<>> => a = others
  BY ConcatEmptySeq
<1>6. item.args = <<item.args[1]>> => Head(a) = item.args[1] /\ Tail(a) = others
  <2>1. item.args[1] \in Args
    BY DEF Args
  <2>2. Head(<<item.args[1]>> \o others) = item.args[1] /\ Tail(<<item.args[1]>> \o others) = others
    BY <2>1, HeadTailOfOne
  <2>3. ASSUME item.args = <<item.args[1]>>
        PROVE  a = <<item.args[1]>> \o others
    BY <2>3, Zenon
  <2> HIDE DEF a
  <2> QED
    BY <2>2, <2>3, Zenon
<1> HIDE DEF a
<1>7. CASE item.conv = "lit"
  <2>1. PICK c \in Chars \ {"%"} : s = <<c>>
    BY <1>7, ItemIs, ConvsIs
  <2>2. Len(s) = 1 /\ s[1] = c /\ item.args = <<>>
    BY <1>7, <2>1, ItemIs, ConvsIs
  <2>3. ItemText(item) = <<Head(f)>>
    BY <1>4, <1>7, <2>1, <2>2 DEF ItemText
  <2> QED
    BY <1>3, <1>4, <1>5, <1>7, <2>2, <2>3 DEF f, a
<1>8. CASE item.conv # "lit"
  <2>1. s[1] = "%" /\ Directive(f) = [conv |-> item.conv, used |-> Len(s)]
    <3>1. CASE item.conv = "%"
      <4>1. s = <<"%", "%">>
        BY <3>1, ItemIs, ConvsIs DEF TakesArgument
      <4> QED
        BY <1>2, <3>1, <4>1, DirectiveIs
    <3>2. CASE \E c \in Chars \ (DOMAIN Short \cup {"%", "l"}) : s = <<"%", c>> /\ item.conv = "none"
      <4>1. PICK c \in Chars \ (DOMAIN Short \cup {"%", "l"}) : s = <<"%", c>>
        BY <3>2
      <4>2. s[1] = "%" /\ Len(s) = 2 /\ f[2] = c
        BY <1>2, <4>1
      <4>3. Known(Short, c) = "none"
        BY <4>1 DEF Known
      <4> QED
        BY <3>2, <4>1, <4>2, <4>3, DirectiveIs
    <3>3. CASE \E c \in Chars \ DOMAIN Long, d \in Chars \ DOMAIN Wide : s = <<"%", "l", c, d>> /\ item.conv = "none"
      <4>1. PICK c \in Chars \ DOMAIN Long, d \in Chars \ DOMAIN Wide : s = <<"%", "l", c, d>>
        BY <3>3
      <4>2. s[1] = "%" /\ Len(s) = 4 /\ f[2] = "l" /\ f[3] = c /\ f[4] = d
        BY <1>2, <4>1
      <4>3. Known(Wide, d) = "none"
        BY <4>1 DEF Known
      <4> QED
        BY <3>3, <4>1, <4>2, <4>3, DirectiveIs
    <3>4. CASE \E c \in DOMAIN Short : Short[c] = item.conv /\ s = <<"%", c>>
      <4>1. PICK c \in DOMAIN Short : Short[c] = item.conv /\ s = <<"%", c>>
        BY <3>4
      <4>2. s[1] = "%" /\ Len(s) = 2 /\ f[2] = c
        BY <1>2, <4>1
      <4>3. Known(Short, c) = item.conv
        BY <4>1 DEF Known
      <4>4. c \notin {"%", "l"}
        BY Tables
      <4> QED
        BY <4>2, <4>3, <4>4, DirectiveIs
    <3>5. CASE \E c \in DOMAIN Long : Long[c] = item.conv /\ s = <<"%", "l", c>>
      <4>1. PICK c \in DOMAIN Long : Long[c] = item.conv /\ s = <<"%", "l", c>>
        BY <3>5
      <4>2. s[1] = "%" /\ Len(s) = 3 /\ f[2] = "l" /\ f[3] = c
        BY <1>2, <4>1
      <4> QED
        BY <4>1, <4>2, DirectiveIs
    <3>6. CASE \E c \in DOMAIN Wide : Wide[c] = item.conv /\ s = <<"%", "l", "l", c>>
      <4>1. PICK c \in DOMAIN Wide : Wide[c] = item.conv /\ s = <<"%", "l", "l", c>>
        BY <3>6
      <4>2. s[1] = "%" /\ Len(s) = 4 /\ f[2] = "l" /\ f[3] = "l" /\ f[4] = c
        BY <1>2, <4>1
      <4>3. Known(Wide, c) = item.conv
        BY <4>1 DEF Known
      <4>4. "l" \notin DOMAIN Long
        BY Tables
      <4> QED
        BY <4>2, <4>3, <4>4, DirectiveIs
    <3> QED
      BY <1>8, <3>1, <3>2, <3>3, <3>4, <3>5, <3>6, ItemIs
  <2>2. SubSeq(f, Directive(f).used + 1, Len(f)) = rest /\ Directive(f).conv = item.conv
    <3>1. Directive(f).used = Len(s) /\ Directive(f).conv = item.conv
      BY <2>1
    <3> QED
      BY <1>3, <3>1 DEF f
  <2>3. IF TakesArgument(item.conv)
        THEN /\ item.conv \in Convs /\ item.args = <<item.args[1]>> /\ item.args[1] \in Values(item.conv)
        ELSE item.conv \in {"%", "none"} /\ item.args = <<>>
    BY <1>8, ItemIs, ConvsIs DEF TakesArgument
  <2>4. Head(f) = "%"
    BY <1>4, <2>1
  <2> QED
    BY <1>4, <1>5, <1>6, <1>8, <2>2, <2>3, <2>4 DEF f, a
<1> QED
  BY <1>7, <1>8

-----------------------------------------------------------------------------
(* Calls *)

Formats(c) == [i \in DOMAIN c |-> c[i].spelled]
Lists(c)   == [i \in DOMAIN c |-> c[i].args]
Texts(c)   == [i \in DOMAIN c |-> ItemText(c[i])]

\* The outermost frame when k items have been dealt with.
Before(c, k) == [format |-> Rest(Formats(c), k), args |-> Rest(Lists(c), k), from |-> 0]

LEMMA CallSequences ==
    ASSUME NEW c \in Seq(Items)
    PROVE  /\ Len(c) \in Nat /\ DOMAIN c = 1..Len(c) /\ \A i \in 1..Len(c) : c[i] \in Items
           /\ Formats(c) \in Seq(Seq(Chars)) /\ Len(Formats(c)) = Len(c)
           /\ Lists(c) \in Seq(Seq(Args)) /\ Len(Lists(c)) = Len(c)
           /\ Texts(c) \in Seq(Seq(Chars)) /\ Len(Texts(c)) = Len(c)
           /\ \A i \in 1..Len(c) : /\ Formats(c)[i] = c[i].spelled
                                   /\ Lists(c)[i] = c[i].args
                                   /\ Texts(c)[i] = ItemText(c[i])
<1>1. Len(c) \in Nat /\ DOMAIN c = 1..Len(c) /\ \A i \in 1..Len(c) : c[i] \in Items
  OBVIOUS
<1>2. \A i \in 1..Len(c) : c[i].spelled \in Seq(Chars) /\ c[i].args \in Seq(Args) /\ ItemText(c[i]) \in Seq(Chars)
  BY <1>1, ItemType
<1>3. /\ Formats(c) = [i \in 1..Len(c) |-> c[i].spelled]
      /\ Lists(c) = [i \in 1..Len(c) |-> c[i].args]
      /\ Texts(c) = [i \in 1..Len(c) |-> ItemText(c[i])]
  BY <1>1 DEF Formats, Lists, Texts
<1>4. Formats(c) \in Seq(Seq(Chars)) /\ Len(Formats(c)) = Len(c)
  BY ONLY <1>1, <1>2, <1>3
<1>5. Lists(c) \in Seq(Seq(Args)) /\ Len(Lists(c)) = Len(c)
  BY ONLY <1>1, <1>2, <1>3
<1>6. Texts(c) \in Seq(Seq(Chars)) /\ Len(Texts(c)) = Len(c)
  BY ONLY <1>1, <1>2, <1>3
<1> QED
  BY <1>1, <1>3, <1>4, <1>5, <1>6

LEMMA CallIs ==
    ASSUME NEW c \in Seq(Items)
    PROVE  /\ Before(c, 0) = [format |-> Spelled(c), args |-> Arguments(c), from |-> 0]
           /\ First(Texts(c), 0) = <<>>
           /\ First(Texts(c), Len(c)) = FlattenSeq(Texts(c))
           /\ \A k \in 0..Len(c) : First(Texts(c), k) \in Seq(Chars)
<1> DEFINE F == Formats(c)
           L == Lists(c)
           T == Texts(c)
<1>1. F \in Seq(Seq(Chars)) /\ L \in Seq(Seq(Args)) /\ T \in Seq(Seq(Chars)) /\ Len(T) = Len(c)
  BY CallSequences
<1>2. Spelled(c) = FlattenSeq(F) /\ Arguments(c) = FlattenSeq(L)
  BY DEF Spelled, Arguments, Formats, Lists
<1> HIDE DEF F, L, T
<1>3. Rest(F, 0) = FlattenSeq(F) /\ Rest(L, 0) = FlattenSeq(L)
  BY <1>1, FirstRest
<1>4. First(T, 0) = <<>> /\ First(T, Len(T)) = FlattenSeq(T) /\ \A k \in 0..Len(T) : First(T, k) \in Seq(Chars)
  BY <1>1, FirstIs
<1>5. Before(c, 0) = [format |-> Spelled(c), args |-> Arguments(c), from |-> 0]
  BY <1>2, <1>3 DEF Before, F, L
<1> QED
  BY <1>1, <1>4, <1>5 DEF T

LEMMA BehindIs ==
    ASSUME NEW f, NEW a, NEW o
    PROVE  LET frame == [format |-> f, args |-> a, from |-> o]
           IN  /\ Behind(frame) = [format |-> Tail(f), args |-> a, from |-> o]
               /\ BehindDirective(frame) =
                     [format |-> SubSeq(f, Directive(f).used + 1, Len(f)),
                      args |-> IF TakesArgument(Directive(f).conv) THEN Tail(a) ELSE a, from |-> o]
<1> DEFINE frame == [format |-> f, args |-> a, from |-> o]
<1>1. \A x : [frame EXCEPT !.format = x] = [format |-> x, args |-> a, from |-> o]
  OBVIOUS
<1>2. \A x, y : [frame EXCEPT !.format = x, !.args = y] = [format |-> x, args |-> y, from |-> o]
  <2> TAKE x, y
  <2> DEFINE g == [frame EXCEPT !.format = x, !.args = y]
  <2>1. g = [fld \in {"format", "args", "from"} |->
                IF fld = "args" THEN y ELSE IF fld = "format" THEN x ELSE frame[fld]]
    OBVIOUS
  <2> QED
    BY <2>1
<1>3. frame.format = f /\ frame.args = a
  OBVIOUS
<1> HIDE DEF frame
<1>4. Behind(frame) = [frame EXCEPT !.format = Tail(f)]
  BY <1>3 DEF Behind
<1>5. BehindDirective(frame) =
         [frame EXCEPT !.format = SubSeq(f, Directive(f).used + 1, Len(f)),
                       !.args = IF TakesArgument(Directive(f).conv) THEN Tail(a) ELSE a]
  BY <1>3 DEF BehindDirective
<1>6. /\ Behind(frame) = [format |-> Tail(f), args |-> a, from |-> o]
      /\ BehindDirective(frame) =
            [format |-> SubSeq(f, Directive(f).used + 1, Len(f)),
             args |-> IF TakesArgument(Directive(f).conv) THEN Tail(a) ELSE a, from |-> o]
  BY ONLY <1>1, <1>2, <1>4, <1>5
<1> QED
  BY <1>6 DEF frame

\* The step over the next item.
LEMMA BeforeStep ==
    ASSUME NEW c \in Seq(Items), NEW k \in 0..Len(c)
    PROVE  LET f == Before(c, k).format
               a == Before(c, k).args
               item == c[k + 1]
           IN  /\ f \in Seq(Chars)
               /\ f = <<>> => k = Len(c)
               /\ k = Len(c) => f = <<>>
               /\ f # <<>> =>
                     /\ k + 1 \in 0..Len(c) /\ k + 1 \in DOMAIN c /\ item \in Items
                     /\ First(Texts(c), k + 1) = First(Texts(c), k) \o ItemText(item)
               /\ f # <<>> /\ Head(f) # "%" =>
                     /\ ItemText(item) = <<Head(f)>>
                     /\ Behind(Before(c, k)) = Before(c, k + 1)
               /\ f # <<>> /\ Head(f) = "%" =>
                     /\ BehindDirective(Before(c, k)) = Before(c, k + 1)
                     /\ item.conv # "lit" /\ Directive(f).conv = item.conv
                     /\ item.conv \notin {"%", "none"} =>
                           item.conv \in Convs /\ Head(a) = item.args[1] /\ Head(a) \in Values(item.conv)
<1> DEFINE F == Formats(c)
           L == Lists(c)
           T == Texts(c)
           n == Len(c)
           item == c[k + 1]
           f == Rest(F, k)
           a == Rest(L, k)
<1>1. F \in Seq(Seq(Chars)) /\ L \in Seq(Seq(Args)) /\ T \in Seq(Seq(Chars))
      /\ Len(F) = n /\ Len(L) = n /\ Len(T) = n /\ n \in Nat
  BY CallSequences
<1>2. Before(c, k) = [format |-> f, args |-> a, from |-> 0]
      /\ Before(c, k + 1) = [format |-> Rest(F, k + 1), args |-> Rest(L, k + 1), from |-> 0]
  BY DEF Before
<1>3. ASSUME k # n
      PROVE  /\ k + 1 \in 1..n /\ k + 1 \in 0..n /\ item \in Items
             /\ F[k + 1] = item.spelled /\ L[k + 1] = item.args /\ T[k + 1] = ItemText(item)
  <2>1. k + 1 \in 1..n /\ k + 1 \in 0..n
    BY <1>1, <1>3
  <2> QED
    BY <2>1, CallSequences
<1> HIDE DEF F, L, T, item
<1>4. f \in Seq(Chars)
  BY <1>1, FirstRest
<1>5. k = n => f = <<>>
  BY <1>1, FirstRest
<1> HIDE DEF n
<1>6. ASSUME k # n
      PROVE  /\ f = item.spelled \o Rest(F, k + 1) /\ a = item.args \o Rest(L, k + 1)
             /\ First(T, k + 1) = First(T, k) \o ItemText(item)
             /\ Rest(F, k + 1) \in Seq(Chars) /\ Rest(L, k + 1) \in Seq(Args)
  <2>1. k \in 0..(n - 1) /\ k + 1 \in 0..n
    BY <1>1, <1>6 DEF n
  <2>2. Rest(F, k) = F[k + 1] \o Rest(F, k + 1) /\ Rest(F, k + 1) \in Seq(Chars)
    BY <1>1, <2>1, FirstRest
  <2>3. Rest(L, k) = L[k + 1] \o Rest(L, k + 1) /\ Rest(L, k + 1) \in Seq(Args)
    BY <1>1, <2>1, FirstRest
  <2>4. First(T, k + 1) = First(T, k) \o T[k + 1]
    BY <1>1, <2>1, FirstIs
  <2> QED
    BY <1>3, <1>6, <2>2, <2>3, <2>4
<1> HIDE DEF f, a
<1>7. ASSUME k # n
      PROVE  /\ f # <<>>
             /\ Head(f) # "%" => ItemText(item) = <<Head(f)>> /\ Tail(f) = Rest(F, k + 1) /\ a = Rest(L, k + 1)
             /\ Head(f) = "%" =>
                   /\ item.conv # "lit" /\ Directive(f).conv = item.conv
                   /\ SubSeq(f, Directive(f).used + 1, Len(f)) = Rest(F, k + 1)
                   /\ IF TakesArgument(item.conv)
                        THEN /\ item.conv \in Convs /\ Head(a) = item.args[1] /\ Tail(a) = Rest(L, k + 1)
                             /\ Head(a) \in Values(item.conv)
                        ELSE item.conv \in {"%", "none"} /\ a = Rest(L, k + 1)
  <2> DEFINE r == Rest(F, k + 1)
             o == Rest(L, k + 1)
  <2>1. r \in Seq(Chars) /\ o \in Seq(Args) /\ item \in Items
        /\ f = item.spelled \o r /\ a = item.args \o o
    BY <1>3, <1>6, <1>7
  <2> HIDE DEF r, o
  <2>2. /\ f # <<>>
        /\ item.conv = "lit" <=> Head(f) # "%"
        /\ item.conv = "lit" => ItemText(item) = <<Head(f)>> /\ Tail(f) = r /\ a = o
        /\ item.conv # "lit" =>
              /\ Directive(f).conv = item.conv
              /\ SubSeq(f, Directive(f).used + 1, Len(f)) = r
              /\ IF TakesArgument(item.conv)
                 THEN /\ item.conv \in Convs /\ Head(a) = item.args[1] /\ Tail(a) = o
                      /\ Head(a) \in Values(item.conv)
                 ELSE item.conv \in {"%", "none"} /\ a = o
    BY <2>1, ItemStep
  <2> QED
    BY <2>2 DEF r, o
<1>8. ASSUME k # n, Head(f) # "%" PROVE Behind(Before(c, k)) = Before(c, k + 1)
  <2>1. Behind([format |-> f, args |-> a, from |-> 0]) = [format |-> Tail(f), args |-> a, from |-> 0]
    BY BehindIs
  <2> QED
    BY <1>2, <1>7, <1>8, <2>1
<1>9. ASSUME k # n, Head(f) = "%" PROVE BehindDirective(Before(c, k)) = Before(c, k + 1)
  <2> DEFINE d == Directive(f)
  <2>1. d.conv = item.conv /\ SubSeq(f, d.used + 1, Len(f)) = Rest(F, k + 1)
        /\ (IF TakesArgument(d.conv) THEN Tail(a) ELSE a) = Rest(L, k + 1)
    BY <1>7, <1>9
  <2>2. BehindDirective(Before(c, k)) =
           [format |-> SubSeq(f, d.used + 1, Len(f)),
            args |-> IF TakesArgument(d.conv) THEN Tail(a) ELSE a, from |-> 0]
    <3>1. BehindDirective([format |-> f, args |-> a, from |-> 0]) =
             [format |-> SubSeq(f, d.used + 1, Len(f)),
              args |-> IF TakesArgument(d.conv) THEN Tail(a) ELSE a, from |-> 0]
      BY BehindIs
    <3> QED
      BY ONLY <1>2, <3>1
  <2> HIDE DEF d
  <2> QED
    BY <1>2, <2>1, <2>2
<1>10. Before(c, k).format = f /\ Before(c, k).args = a
  BY <1>2
<1>11. f = <<>> => k = n
  BY <1>7
<1>12. item.conv \notin {"%", "none"} <=> TakesArgument(item.conv)
  BY DEF TakesArgument
<1>13. k # n => k + 1 \in DOMAIN c
  BY <1>3 DEF n
<1> QED
  BY <1>3, <1>4, <1>5, <1>6, <1>7, <1>8, <1>9, <1>10, <1>11, <1>12, <1>13 DEF n, item, T

LEMMA FramesAre ==
    ASSUME NEW a, NEW b
    PROVE  /\ Last(<<a>>) = a /\ Front(<<a>>) = <<>> /\ Append(<<>>, b) = <<b>>
           /\ Last(<<a, b>>) = b /\ Front(<<a, b>>) = <<a>> /\ Append(<<a>>, b) = <<a, b>>
           /\ Len(<<a>>) = 1 /\ Len(<<a, b>>) = 2
<1> DEFINE one == <<a>>
           two == <<a, b>>
           S   == {a, b}
<1>1. one \in Seq(S) /\ Len(one) = 1 /\ one[1] = a
  OBVIOUS
<1>2. two \in Seq(S) /\ Len(two) = 2 /\ two[1] = a /\ two[2] = b
  OBVIOUS
<1>3. Append(<<>>, b) = <<b>> /\ Append(<<a>>, b) = <<a, b>>
  <2>1. /\ <<b>> \in Seq(S) /\ Len(<<b>>) = 1 /\ <<b>>[1] = b
        /\ Append(<<>>, b) \in Seq(S) /\ Len(Append(<<>>, b)) = 1 /\ Append(<<>>, b)[1] = b
    OBVIOUS
  <2>2. /\ Append(one, b) \in Seq(S) /\ Len(Append(one, b)) = 2
        /\ Append(one, b)[1] = a /\ Append(one, b)[2] = b
    <3>1. b \in S
      OBVIOUS
    <3> HIDE DEF one, S
    <3>2. one \in Seq(S)
      BY <1>1
    <3>3. /\ Append(one, b) \in Seq(S) /\ Len(Append(one, b)) = Len(one) + 1
          /\ \A i \in 1..Len(one) : Append(one, b)[i] = one[i]
          /\ Append(one, b)[Len(one) + 1] = b
      <4>1. Append(one, b) \in Seq(S) /\ Len(Append(one, b)) = Len(one) + 1
        BY ONLY <3>2, <3>1, AppendProperties
      <4>2. \A i \in 1..Len(one) : Append(one, b)[i] = one[i]
        BY ONLY <3>2, <3>1, AppendProperties
      <4>3. Append(one, b)[Len(one) + 1] = b
        BY ONLY <3>2, <3>1, AppendProperties
      <4> QED
        BY <4>1, <4>2, <4>3
    <3>4. 1 \in 1..Len(one) /\ Len(one) + 1 = 2
      BY <1>1
    <3> QED
      BY <1>1, <3>3, <3>4
  <2>3. Append(<<>>, b) = <<b>>
    <3> HIDE DEF S
    <3> QED
      BY <2>1, SeqEqual
  <2>4. Append(one, b) = two
    <3>1. \A i \in 1..2 : Append(one, b)[i] = two[i]
      BY <1>2, <2>2
    <3> HIDE DEF S, one, two
    <3> QED
      BY <1>2, <2>2, <3>1, SeqEqual
  <2> QED
    BY <2>3, <2>4
<1> HIDE DEF one, two
<1>4. Last(one) = a /\ Last(two) = b
  BY <1>1, <1>2 DEF Last
<1>5. Front(one) = <<>>
  BY <1>1 DEF Front
<1>6. SubSeq(two, 1, 1) = one
  <2>1. SubSeq(two, 1, 1) \in Seq(S) /\ Len(SubSeq(two, 1, 1)) = 1 /\ SubSeq(two, 1, 1)[1] = a
    BY <1>2
  <2> HIDE DEF S
  <2> QED
    BY <1>1, <2>1, SeqEqual
<1>7. Front(two) = one
  BY <1>2, <1>6 DEF Front
<1> QED
  BY <1>1, <1>2, <1>3, <1>4, <1>5, <1>7 DEF one, two

\* A text is its first character and those behind.
LEMMA HeadTailIsCons ==
    ASSUME NEW S, NEW f \in Seq(S), f # <<>>
    PROVE  f = <<Head(f)>> \o Tail(f)
<1> DEFINE h == Head(f)
           t == Tail(f)
           g == <<h>> \o t
<1>1. h \in S /\ h = f[1] /\ t \in Seq(S) /\ Len(t) = Len(f) - 1 /\ Len(f) \in Nat /\ Len(f) # 0
      /\ \A i \in 1..Len(t) : t[i] = f[i + 1]
  OBVIOUS
<1> HIDE DEF h, t
<1>2. <<h>> \in Seq(S) /\ Len(<<h>>) = 1 /\ <<h>>[1] = h
  BY <1>1
<1>3. /\ g \in Seq(S) /\ Len(g) = 1 + Len(t)
      /\ \A i \in 1..(1 + Len(t)) : g[i] = IF i <= 1 THEN <<h>>[i] ELSE t[i - 1]
  BY <1>1, <1>2, ConcatProperties
<1> HIDE DEF g
<1>4. Len(g) = Len(f)
  BY <1>1, <1>3
<1>5. ASSUME NEW i \in 1..Len(f) PROVE g[i] = f[i]
  <2>1. CASE i = 1
    BY <1>1, <1>2, <1>3, <2>1
  <2>2. CASE i # 1
    <3>1. i - 1 \in 1..Len(t) /\ ~(i <= 1) /\ (i - 1) + 1 = i /\ i \in 1..(1 + Len(t))
      BY <1>1, <2>2
    <3> QED
      BY <1>1, <1>3, <3>1
  <2> QED
    BY <2>1, <2>2
<1>6. g = f
  BY <1>3, <1>4, <1>5, SeqEqual
<1> QED
  BY <1>6 DEF g, h, t

-----------------------------------------------------------------------------
(* The inductive invariant: both functions are at the same item of the     *)
(* format and of the arguments, and have put out the texts of those before.*)

Written == SubSeq(mem, 1, current)

AllWritable(c) == \A i \in DOMAIN c : Writable(c[i])

\* Nothing is NUL up to where sprintf writes.
Memory ==
    /\ mem \in Seq(Chars \cup {"NUL"}) /\ current \in 0..Len(mem)
    /\ \A i \in 1..current : mem[i] \in Chars

Stored ==
    /\ mode \in {"vprintf", "sprintf", "done"}
    /\ call \in Seq(Items)
    /\ printed \in Seq(Chars) /\ len = Len(printed)
    /\ Memory

InVprintf ==
    mode = "vprintf" =>
        /\ mem = <<>> /\ current = 0 /\ returned = -1
        /\ \E k \in 0..Len(call) :
              frames = <<Before(call, k)>> /\ printed = First(Texts(call), k)

AtItem(k) ==
    /\ frames = <<Before(call, k)>>
    /\ AllWritable(call) => Written = First(Texts(call), k)

\* f is what is left of the text of the last of the k items.
InArgument(k, f, from) ==
    /\ frames = <<Before(call, k), [format |-> f, args |-> <<>>, from |-> from]>>
    /\ Harmless(f)
    /\ AllWritable(call) => f \in Seq(Plain) /\ Written \o f = First(Texts(call), k)

InSprintf ==
    mode = "sprintf" =>
        /\ returned = -1
        /\ \E k \in 0..Len(call) :
              AtItem(k) \/ \E f \in Seq(Chars), from \in 0..current : InArgument(k, f, from)

AllPrinted == mode # "vprintf" => printed = FlattenSeq(Texts(call))

AllWritten ==
    mode = "done" =>
        /\ frames = <<>> /\ returned = current
        /\ Len(mem) = current + 1 /\ mem[current + 1] = "NUL"
        /\ AllWritable(call) => Written = FlattenSeq(Texts(call))

InOrder == Stored /\ InVprintf /\ InSprintf /\ AllPrinted /\ AllWritten

\* What a write leaves.
LEMMA WriteAll ==
    ASSUME NEW S, NEW m \in Seq(S), NEW n \in 0..Len(m), NEW c \in S
    PROVE  SubSeq(Append(SubSeq(m, 1, n), c), 1, n + 1) = SubSeq(m, 1, n) \o <<c>>
<1> DEFINE p == SubSeq(m, 1, n)
           w == Append(p, c)
<1>1. p \in Seq(S) /\ Len(p) = n /\ n \in Nat
  OBVIOUS
<1> HIDE DEF p
<1>2. w \in Seq(S) /\ Len(w) = Len(p) + 1
  BY ONLY c \in S, <1>1, AppendProperties
<1>3. w = p \o <<c>>
  BY ONLY c \in S, <1>1, AppendIsConcat
<1> HIDE DEF w
<1>4. SubSeq(w, 1, n + 1) = w
  <2>1. SubSeq(w, 1, n + 1) \in Seq(S) /\ Len(SubSeq(w, 1, n + 1)) = n + 1
        /\ \A i \in 1..(n + 1) : SubSeq(w, 1, n + 1)[i] = w[i]
    BY <1>1, <1>2
  <2> QED
    BY <1>1, <1>2, <2>1, SeqEqual
<1> QED
  BY <1>3, <1>4 DEF w, p

LEMMA WriteIs ==
    ASSUME NEW S, NEW m \in Seq(S), NEW n \in 0..Len(m), NEW c \in S
    PROVE  LET w == Append(SubSeq(m, 1, n), c)
           IN  /\ w \in Seq(S) /\ Len(w) = n + 1 /\ w[n + 1] = c
               /\ \A i \in 1..n : w[i] = m[i]
               /\ SubSeq(w, 1, n) = SubSeq(m, 1, n)
<1> DEFINE p == SubSeq(m, 1, n)
           w == Append(p, c)
<1>1. p \in Seq(S) /\ Len(p) = n /\ n \in Nat /\ \A i \in 1..n : p[i] = m[i]
  OBVIOUS
<1> HIDE DEF p
<1>2. p \in Seq(S)
  BY <1>1
<1>3. w \in Seq(S) /\ Len(w) = Len(p) + 1
  BY ONLY c \in S, <1>2, AppendProperties
<1>4. \A i \in 1..Len(p) : w[i] = p[i]
  BY ONLY c \in S, <1>2, AppendProperties
<1>5. w[Len(p) + 1] = c
  BY ONLY c \in S, <1>2, AppendProperties
<1> HIDE DEF w
<1>6. Len(w) = n + 1 /\ w[n + 1] = c /\ \A i \in 1..n : w[i] = p[i]
  BY <1>1, <1>3, <1>4, <1>5
<1>7. SubSeq(w, 1, n) = p
  <2>1. SubSeq(w, 1, n) \in Seq(S) /\ Len(SubSeq(w, 1, n)) = n /\ \A i \in 1..n : SubSeq(w, 1, n)[i] = p[i]
    BY <1>1, <1>3, <1>6
  <2> QED
    BY <1>1, <2>1, SeqEqual
<1> QED
  BY <1>1, <1>3, <1>6, <1>7 DEF w, p

\* A text as it is before its first character.
LEMMA HeadFirst ==
    ASSUME NEW S, NEW f \in Seq(S), f # <<>>
    PROVE  Head(f) \in S /\ Tail(f) \in Seq(S) /\ \A p \in Seq(S) : p \o f = (p \o <<Head(f)>>) \o Tail(f)
<1> DEFINE h == Head(f)
           t == Tail(f)
<1>1. h \in S /\ t \in Seq(S)
  OBVIOUS
<1>2. f = <<h>> \o t
  BY HeadTailIsCons
<1>3. ASSUME NEW p \in Seq(S) PROVE p \o (<<h>> \o t) = (p \o <<h>>) \o t
  <2>1. <<h>> \in Seq(S)
    BY <1>1
  <2> HIDE DEF h, t
  <2> QED
    BY <1>1, <2>1, ConcatAssociative, SMTT(30)
<1> QED
  BY <1>1, <1>2, <1>3

LEMMA InitInOrder == Init => InOrder
<1> SUFFICES ASSUME Init PROVE InOrder
  OBVIOUS
<1> USE DEF Init
<1>1. call \in Seq(Items)
  BY FormatAssumption
<1>2. Stored
  BY <1>1 DEF Stored, Memory
<1>3. InVprintf
  <2>1. frames = <<Before(call, 0)>> /\ printed = First(Texts(call), 0)
    BY <1>1, CallIs
  <2>2. 0 \in 0..Len(call)
    BY <1>1
  <2> QED
    BY <2>1, <2>2 DEF InVprintf
<1>4. InSprintf /\ AllPrinted /\ AllWritten
  BY DEF InSprintf, AllPrinted, AllWritten
<1> QED
  BY <1>2, <1>3, <1>4 DEF InOrder

\* vprintf goes over one item.
LEMMA VprintfKeeps ==
    ASSUME InOrder, vprintf
    PROVE  InOrder'
<1>1. mode = "vprintf" /\ call \in Seq(Items) /\ mem = <<>> /\ current = 0 /\ returned = -1
      /\ printed \in Seq(Chars) /\ len = Len(printed)
  BY DEF InOrder, Stored, InVprintf, vprintf, vprintf_char, vprintf_directive, vprintf_return
<1>2. PICK k \in 0..Len(call) : frames = <<Before(call, k)>> /\ printed = First(Texts(call), k)
  BY <1>1 DEF InOrder, InVprintf
<1> DEFINE b    == Before(call, k)
           f    == b.format
           item == call[k + 1]
<1>3. Top = b /\ \A x : OnTop(x) = <<x>>
  BY <1>2, FramesAre DEF Top, OnTop
<1>4. /\ f \in Seq(Chars)
      /\ f = <<>> => k = Len(call)
      /\ f # <<>> =>
            /\ k + 1 \in 0..Len(call) /\ k + 1 \in DOMAIN call /\ item \in Items
            /\ First(Texts(call), k + 1) = First(Texts(call), k) \o ItemText(item)
      /\ f # <<>> /\ Head(f) # "%" => ItemText(item) = <<Head(f)>> /\ Behind(b) = Before(call, k + 1)
      /\ f # <<>> /\ Head(f) = "%" =>
            /\ BehindDirective(b) = Before(call, k + 1)
            /\ item.conv # "lit" /\ Directive(f).conv = item.conv
            /\ item.conv \notin {"%", "none"} =>
                  item.conv \in Convs /\ Head(b.args) = item.args[1] /\ Head(b.args) \in Values(item.conv)
  BY <1>1, BeforeStep
<1>5. ASSUME f # <<>>, call' = call, mode' = mode, mem' = mem, current' = current, returned' = returned,
             puts(ItemText(item)), frames' = <<Before(call, k + 1)>>
      PROVE  InOrder'
  <2>1. ItemText(item) \in Seq(Chars)
    BY <1>4, <1>5, ItemType
  <2>2. printed' = printed \o ItemText(item) /\ len' = len + Len(ItemText(item))
    BY <1>5 DEF puts
  <2>3. printed' \in Seq(Chars) /\ len' = Len(printed')
    BY <1>1, <2>1, <2>2, ConcatProperties
  <2>4. Stored'
    BY <1>1, <1>5, <2>3 DEF InOrder, Stored, Memory
  <2>5. printed' = First(Texts(call'), k + 1) /\ k + 1 \in 0..Len(call')
    BY <1>2, <1>4, <1>5, <2>2
  <2>6. InVprintf'
    BY <1>1, <1>5, <2>5 DEF InVprintf
  <2>7. InSprintf' /\ AllPrinted' /\ AllWritten'
    BY <1>1, <1>5 DEF InSprintf, AllPrinted, AllWritten
  <2> QED
    BY <2>4, <2>6, <2>7 DEF InOrder
<1>6. CASE vprintf_char
  <2>1. f # <<>> /\ Head(f) # "%"
    BY <1>3, <1>6 DEF vprintf_char, Literal
  <2>2. puts(ItemText(item)) /\ frames' = <<Before(call, k + 1)>>
    BY <1>3, <1>4, <1>6, <2>1 DEF vprintf_char
  <2> QED
    BY <1>5, <1>6, <2>1, <2>2 DEF vprintf_char
<1>7. CASE vprintf_directive
  <2>1. f # <<>> /\ Head(f) = "%"
    BY <1>3, <1>7 DEF vprintf_directive, AtSign
  <2>2. Conv = item.conv /\ Arg = Head(b.args) /\ item.conv # "lit"
    BY <1>3, <1>4, <2>1 DEF Conv, Arg
  <2>3. frames' = <<Before(call, k + 1)>>
    BY <1>3, <1>4, <1>7, <2>1 DEF vprintf_directive
  <2>4. (CASE Conv = "%"    -> <<"%">>
           [] Conv = "none" -> <<>>
           [] Conv = "c"    -> <<Arg>>
           [] OTHER         -> Text(Conv, Arg)) = ItemText(item)
    <3>1. CASE item.conv \in {"%", "none"}
      BY <2>2, <3>1 DEF ItemText
    <3>2. CASE item.conv \notin {"%", "none"}
      <4>1. Arg = item.args[1]
        BY <1>4, <2>1, <2>2, <3>2
      <4> QED
        BY <2>2, <3>2, <4>1 DEF ItemText
    <3> QED
      BY <3>1, <3>2
  <2>5. puts(ItemText(item))
    BY <1>7, <2>4 DEF vprintf_directive
  <2> QED
    BY <1>5, <1>7, <2>1, <2>3, <2>5 DEF vprintf_directive
<1>8. CASE vprintf_return
  <2>1. k = Len(call)
    BY <1>3, <1>4, <1>8 DEF vprintf_return
  <2>2. mode' = "sprintf" /\ call' = call /\ printed' = printed /\ len' = len /\ mem' = mem
        /\ current' = current /\ returned' = returned
        /\ frames' = <<[format |-> Spelled(call), args |-> Arguments(call), from |-> 0]>>
    BY <1>1, <1>8 DEF vprintf_return, Frame
  <2>3. frames' = <<Before(call, 0)>> /\ First(Texts(call), 0) = <<>>
        /\ First(Texts(call), Len(call)) = FlattenSeq(Texts(call))
    BY <1>1, <2>2, CallIs
  <2>4. Stored'
    BY <1>1, <2>2 DEF InOrder, Stored, Memory
  <2>5. AllPrinted'
    BY <1>2, <2>1, <2>2, <2>3 DEF AllPrinted
  <2>6. InSprintf'
    <3>1. SubSeq(mem', 1, current') = First(Texts(call'), 0)
      <4>1. SubSeq(mem, 1, current) = <<>>
        BY <1>1, SubSeqEmpty
      <4> QED
        BY <2>2, <2>3, <4>1
    <3>2. 0 \in 0..Len(call')
      BY <1>1, <2>2
    <3>3. AtItem(0)'
      BY <2>2, <2>3, <3>1 DEF AtItem, Written
    <3> QED
      BY <1>1, <2>2, <3>2, <3>3 DEF InSprintf
  <2>7. InVprintf' /\ AllWritten'
    BY <2>2 DEF InVprintf, AllWritten
  <2> QED
    BY <2>4, <2>5, <2>6, <2>7 DEF InOrder
<1> QED
  BY <1>6, <1>7, <1>8 DEF vprintf

LEMMA PutIs ==
    ASSUME Memory, NEW c \in Chars, sprintf_put(c)
    PROVE  Memory' /\ Written \in Seq(Chars) /\ Written' = Written \o <<c>>
<1> DEFINE S == Chars \cup {"NUL"}
<1>1. mem \in Seq(S) /\ current \in 0..Len(mem) /\ \A i \in 1..current : mem[i] \in Chars
  BY DEF Memory
<1>2. mem' = Append(SubSeq(mem, 1, current), c)
  BY DEF sprintf_put, Write
<1>3. c \in S
  OBVIOUS
<1> HIDE DEF S
<1>4. /\ mem' \in Seq(S) /\ Len(mem') = current + 1 /\ mem'[current + 1] = c
      /\ \A i \in 1..current : mem'[i] = mem[i]
      /\ SubSeq(mem', 1, current + 1) = SubSeq(mem, 1, current) \o <<c>>
  <2> DEFINE w == Append(SubSeq(mem, 1, current), c)
  <2>1. /\ w \in Seq(S) /\ Len(w) = current + 1 /\ w[current + 1] = c
        /\ \A i \in 1..current : w[i] = mem[i]
    BY ONLY <1>1, <1>3, WriteIs
  <2>2. SubSeq(w, 1, current + 1) = SubSeq(mem, 1, current) \o <<c>>
    <3> DEFINE m == mem
               n == current
    <3>1. m \in Seq(S) /\ n \in 0..Len(m)
      BY <1>1
    <3> HIDE DEF m, n
    <3>2. SubSeq(Append(SubSeq(m, 1, n), c), 1, n + 1) = SubSeq(m, 1, n) \o <<c>>
      BY ONLY <1>3, <3>1, WriteAll
    <3> QED
      BY <3>2 DEF m, n
  <2> HIDE DEF w
  <2>3. mem' = w
    BY <1>2 DEF w
  <2> QED
    BY ONLY <2>1, <2>2, <2>3
<1>5. current \in Nat /\ SubSeq(mem, 1, current) \in Seq(Chars)
  BY <1>1
<1>6. ASSUME NEW i \in 1..(current + 1) PROVE mem'[i] \in Chars
  <2>1. i \in 1..current \/ i = current + 1
    BY <1>5
  <2> QED
    BY <1>1, <1>4, <2>1
<1>7. current' = current + 1
  BY DEF sprintf_put
<1> QED
  BY <1>4, <1>5, <1>6, <1>7 DEF Memory, Written, S

LEMMA EndIs ==
    ASSUME Memory, Write("NUL")
    PROVE  /\ Written \in Seq(Chars)
           /\ mem' \in Seq(Chars \cup {"NUL"}) /\ Len(mem') = current + 1 /\ mem'[current + 1] = "NUL"
           /\ \A i \in 1..current : mem'[i] \in Chars
           /\ SubSeq(mem', 1, current) = Written
           /\ current \in 0..Len(mem')
<1> DEFINE S == Chars \cup {"NUL"}
<1>1. mem \in Seq(S) /\ current \in 0..Len(mem) /\ \A i \in 1..current : mem[i] \in Chars
  BY DEF Memory
<1>2. mem' = Append(SubSeq(mem, 1, current), "NUL")
  BY DEF Write
<1>3. "NUL" \in S
  OBVIOUS
<1> HIDE DEF S
<1>4. /\ mem' \in Seq(S) /\ Len(mem') = current + 1 /\ mem'[current + 1] = "NUL"
      /\ \A i \in 1..current : mem'[i] = mem[i]
      /\ SubSeq(mem', 1, current) = SubSeq(mem, 1, current)
  BY <1>1, <1>2, <1>3, WriteIs
<1>5. current \in Nat /\ SubSeq(mem, 1, current) \in Seq(Chars)
  BY <1>1
<1> QED
  BY <1>1, <1>4, <1>5 DEF Written, S

\* sprintf goes on: the same text has been printed, and some of it written.
LEMMA SprintfGoesOn ==
    ASSUME InOrder, mode = "sprintf", UNCHANGED <<call, mode, len, printed, returned>>, Memory',
           NEW k \in 0..Len(call),
           AtItem(k)' \/ \E f \in Seq(Chars), from \in 0..current' : InArgument(k, f, from)'
    PROVE  InOrder'
<1>1. Stored'
  BY DEF InOrder, Stored
<1>2. InSprintf'
  <2>1. k \in 0..Len(call') /\ returned' = -1
    BY DEF InOrder, InSprintf
  <2> QED
    BY <2>1, Zenon DEF InSprintf
<1>3. AllPrinted'
  BY DEF InOrder, AllPrinted
<1>4. InVprintf' /\ AllWritten'
  BY DEF InVprintf, AllWritten
<1> QED
  BY <1>1, <1>2, <1>3, <1>4 DEF InOrder

\* sprintf goes over an item, or into its argument.
LEMMA ItemKeeps ==
    ASSUME InOrder, mode = "sprintf", sprintf, NEW k \in 0..Len(call), AtItem(k)
    PROVE  InOrder'
<1> DEFINE b    == Before(call, k)
           f    == b.format
           item == call[k + 1]
<1>1. call \in Seq(Items) /\ Memory /\ frames = <<b>> /\ returned = -1
      /\ (AllWritable(call) => Written = First(Texts(call), k))
      /\ printed = FlattenSeq(Texts(call)) /\ printed \in Seq(Chars) /\ len = Len(printed)
  BY DEF InOrder, Stored, AtItem, InSprintf, AllPrinted
<1>2. Top = b /\ \A x : OnTop(x) = <<x>> /\ Append(<<x>>, Frame(x, <<>>)) = <<x, Frame(x, <<>>)>>
  BY <1>1, FramesAre DEF Top, OnTop
<1>3. /\ f \in Seq(Chars)
      /\ f = <<>> => k = Len(call)
      /\ f # <<>> =>
            /\ k + 1 \in 0..Len(call) /\ k + 1 \in DOMAIN call /\ item \in Items
            /\ First(Texts(call), k + 1) = First(Texts(call), k) \o ItemText(item)
      /\ f # <<>> /\ Head(f) # "%" => ItemText(item) = <<Head(f)>> /\ Behind(b) = Before(call, k + 1)
      /\ f # <<>> /\ Head(f) = "%" =>
            /\ BehindDirective(b) = Before(call, k + 1)
            /\ item.conv # "lit" /\ Directive(f).conv = item.conv
            /\ item.conv \notin {"%", "none"} =>
                  item.conv \in Convs /\ Head(b.args) = item.args[1] /\ Head(b.args) \in Values(item.conv)
  BY <1>1, BeforeStep
<1> HIDE DEF b, f, item
<1>4. f = Top.format /\ b.args = Top.args
  BY <1>2 DEF f
<1>5. ASSUME f # <<>>, UNCHANGED <<call, mode, len, printed, returned>>,
             NEW c \in Chars, ItemText(item) = <<c>>, sprintf_put(c), frames' = <<Before(call, k + 1)>>
      PROVE  InOrder'
  <2>1. Memory' /\ Written' = Written \o <<c>>
    BY <1>1, <1>5, PutIs
  <2>2. AllWritable(call) => Written' = First(Texts(call), k + 1)
    BY <1>1, <1>3, <1>5, <2>1
  <2>3. AtItem(k + 1)' /\ k + 1 \in 0..Len(call)
    BY <1>3, <1>5, <2>2 DEF AtItem
  <2> QED
    BY <1>5, <2>1, <2>3, SprintfGoesOn
<1>6. CASE sprintf_char
  <2>1. f # <<>> /\ Head(f) # "%"
    BY <1>4, <1>6 DEF sprintf_char, Literal
  <2>2. Head(f) \in Chars /\ ItemText(item) = <<Head(f)>>
    BY <1>3, <2>1
  <2>3. sprintf_put(Head(f)) /\ frames' = <<Before(call, k + 1)>>
    BY <1>2, <1>3, <1>4, <1>6, <2>1 DEF sprintf_char
  <2> QED
    BY <1>5, <1>6, <2>1, <2>2, <2>3 DEF sprintf_char
<1>7. CASE sprintf_directive
  <2>1. f # <<>> /\ Head(f) = "%" /\ UNCHANGED <<call, mode, len, printed, returned>>
    BY <1>4, <1>7 DEF sprintf_directive, AtSign
  <2>2. Conv = item.conv /\ item.conv # "lit" /\ Arg = Head(b.args)
    BY <1>3, <1>4, <2>1 DEF Conv, Arg
  <2>3. OnTop(BehindDirective(Top)) = <<Before(call, k + 1)>>
    BY <1>2, <1>3, <2>1
  <2>4. CASE Conv \in {"%", "c"}
    <3> DEFINE c == IF Conv = "%" THEN "%" ELSE Arg
    <3>1. sprintf_put(c) /\ frames' = <<Before(call, k + 1)>>
      BY <1>7, <2>3, <2>4 DEF sprintf_directive
    <3>2. c \in Chars /\ ItemText(item) = <<c>>
      <4>1. CASE Conv = "%"
        BY <2>2, <4>1, FormatAssumption DEF ItemText
      <4>2. CASE Conv = "c"
        <5>1. item.conv = "c" /\ Arg = item.args[1] /\ Arg \in Values("c")
          BY <1>3, <2>1, <2>2, <4>2
        <5> QED
          BY <4>2, <5>1, ValuesAre DEF ItemText
      <4> QED
        BY <2>4, <4>1, <4>2
    <3> HIDE DEF c
    <3> QED
      BY <1>5, <2>1, <3>1, <3>2
  <2>5. CASE Conv = "none"
    <3>1. frames' = <<Before(call, k + 1)>> /\ mem' = mem /\ current' = current
      BY <1>7, <2>3, <2>5 DEF sprintf_directive
    <3>2. ItemText(item) = <<>>
      BY <2>2, <2>5 DEF ItemText
    <3>3. First(Texts(call), k + 1) = First(Texts(call), k)
      BY <1>1, <1>3, <2>1, <3>2, CallIs, ConcatEmptySeq
    <3>4. Memory' /\ Written' = Written
      BY <1>1, <3>1 DEF Memory, Written
    <3>5. AtItem(k + 1)' /\ k + 1 \in 0..Len(call)
      BY <1>1, <1>3, <2>1, <3>1, <3>3, <3>4 DEF AtItem
    <3> QED
      BY <2>1, <3>4, <3>5, SprintfGoesOn
  <2>6. CASE Conv \notin {"%", "c", "none"}
    <3> DEFINE t == TextInMemory(Conv, Arg)
    <3>1. frames' = Append(<<Before(call, k + 1)>>, Frame(t, <<>>)) /\ mem' = mem /\ current' = current
      BY <1>7, <2>3, <2>6 DEF sprintf_directive
    <3>2. frames' = <<Before(call, k + 1), [format |-> t, args |-> <<>>, from |-> current]>>
      BY <3>1, FramesAre DEF Frame
    <3>3. Memory' /\ Written' = Written
      BY <1>1, <3>1 DEF Memory, Written
    <3>4. Conv \in Convs \ {"c"} /\ Arg = item.args[1] /\ Arg \in Values(Conv)
      BY <1>3, <2>1, <2>2, <2>6
    <3>5. t \in Seq(Chars) /\ Harmless(t)
      BY <3>4, TextType
    <3>6. ASSUME AllWritable(call) PROVE t \in Seq(Plain) /\ Written' \o t = First(Texts(call), k + 1)
      <4>1. Writable(item)
        BY <1>3, <2>1, <3>6 DEF AllWritable, item
      <4>2. Conv = "llu" => 2 * Arg < LongMod
        BY <2>2, <3>4, <4>1 DEF Writable
      <4>3. Conv = "s" => ~Contains(Arg, "%")
        BY <2>2, <3>4, <4>1 DEF Writable
      <4>4. t = Text(Conv, Arg) /\ t \in Seq(Plain)
        BY <3>4, <4>2, <4>3, TextWritable
      <4>5. ItemText(item) = Text(Conv, Arg)
        BY <2>2, <2>6, <3>4 DEF ItemText
      <4> QED
        BY <1>1, <1>3, <2>1, <3>3, <3>6, <4>4, <4>5
    <3> HIDE DEF t
    <3>7. call' = call
      BY <2>1
    <3>8. PICK g \in Seq(Chars), from \in 0..current : g = t /\ from = current
      BY <1>1, <3>5 DEF Memory
    <3>9. k + 1 \in 0..Len(call) /\ from \in 0..current'
      BY <1>1, <1>3, <2>1, <3>1, <3>8
    <3>10. InArgument(k + 1, g, from)'
      BY <3>2, <3>5, <3>6, <3>7, <3>8 DEF InArgument
    <3> QED
      BY <2>1, <3>3, <3>8, <3>9, <3>10, SprintfGoesOn
  <2> QED
    BY <2>4, <2>5, <2>6
<1>8. CASE sprintf_return
  <2>1. f = <<>> /\ Write("NUL") /\ Len(frames) = 1
    BY <1>1, <1>4, <1>8, FramesAre DEF sprintf_return
  <2>2. mode' = "done" /\ returned' = current - Top.from /\ frames' = <<>>
        /\ UNCHANGED <<call, len, printed, current>>
    BY <1>1, <1>8, <2>1, FramesAre DEF sprintf_return
  <2>3. Top.from = 0
    BY <1>2 DEF b, Before
  <2>4. k = Len(call)
    BY <1>3, <2>1
  <2>5. /\ mem' \in Seq(Chars \cup {"NUL"}) /\ Len(mem') = current + 1 /\ mem'[current + 1] = "NUL"
        /\ \A i \in 1..current : mem'[i] \in Chars
        /\ SubSeq(mem', 1, current) = Written
        /\ current \in 0..Len(mem')
    BY <1>1, <2>1, EndIs
  <2>6. Stored'
    BY <1>1, <2>2, <2>5 DEF Stored, Memory
  <2>7. AllWritten'
    <3>1. returned' = current'
      BY <2>2, <2>3, <2>5
    <3>2. AllWritable(call) => Written' = FlattenSeq(Texts(call))
      BY <1>1, <2>2, <2>4, <2>5, CallIs DEF Written
    <3> QED
      BY <2>2, <2>5, <3>1, <3>2 DEF AllWritten
  <2>8. AllPrinted'
    BY <1>1, <2>2 DEF AllPrinted
  <2>9. InVprintf' /\ InSprintf'
    BY <2>2 DEF InVprintf, InSprintf
  <2> QED
    BY <2>6, <2>7, <2>8, <2>9 DEF InOrder
<1> QED
  BY <1>6, <1>7, <1>8 DEF sprintf

\* sprintf writes the text of an argument, or is done with it.
LEMMA ArgumentKeeps ==
    ASSUME InOrder, mode = "sprintf", sprintf, NEW k \in 0..Len(call),
           NEW f \in Seq(Chars), NEW from \in 0..current, InArgument(k, f, from)
    PROVE  InOrder'
<1> DEFINE b == Before(call, k)
           a == [format |-> f, args |-> <<>>, from |-> from]
<1>1. call \in Seq(Items) /\ Memory /\ frames = <<b, a>> /\ Harmless(f)
      /\ (AllWritable(call) => f \in Seq(Plain) /\ Written \o f = First(Texts(call), k))
      /\ current \in Nat
  BY DEF InOrder, Stored, InArgument, Memory
<1> HIDE DEF b
<1>2. Top = a /\ Len(frames) = 2 /\ Front(frames) = <<b>> /\ \A x : OnTop(x) = <<b, x>>
  <2> HIDE DEF a
  <2> QED
    <3>1. Last(<<b, a>>) = a /\ Front(<<b, a>>) = <<b>> /\ Len(<<b, a>>) = 2
      BY FramesAre
    <3>2. \A x : Append(<<b>>, x) = <<b, x>>
      BY FramesAre
    <3> QED
      BY <1>1, <3>1, <3>2 DEF Top, OnTop
<1>3. Top.format = f
  BY <1>2
<1>4. ASSUME UNCHANGED <<call, mode, len, printed, returned>>, Memory', current' >= current,
             NEW g \in Seq(Chars), Harmless(g),
             frames' = <<b, [format |-> g, args |-> <<>>, from |-> from]>>,
             AllWritable(call) => g \in Seq(Plain) /\ Written' \o g = First(Texts(call), k)
      PROVE  InOrder'
  <2>1. InArgument(k, g, from)'
    BY <1>4 DEF InArgument, b
  <2>2. from \in 0..current'
    BY <1>1, <1>4 DEF Memory
  <2> QED
    BY <1>4, <2>1, <2>2, SprintfGoesOn
<1>5. CASE sprintf_char
  <2>1. f # <<>> /\ Head(f) # "%"
    BY <1>3, <1>5 DEF sprintf_char, Literal
  <2>2. sprintf_put(Head(f)) /\ UNCHANGED <<call, mode, len, printed, returned>>
    BY <1>3, <1>5 DEF sprintf_char
  <2>3. Head(f) \in Chars /\ Tail(f) \in Seq(Chars)
    BY <2>1, HeadFirst
  <2>4. Memory' /\ Written \in Seq(Chars) /\ Written' = Written \o <<Head(f)>>
    BY <1>1, <2>2, <2>3, PutIs
  <2>5. frames' = <<b, [format |-> Tail(f), args |-> <<>>, from |-> from]>>
    <3>1. Behind(a) = [format |-> Tail(f), args |-> <<>>, from |-> from]
      BY BehindIs
    <3> HIDE DEF a
    <3> QED
      BY <1>2, <1>5, <3>1 DEF sprintf_char
  <2>6. Harmless(Tail(f))
    BY <1>1, <2>1, HarmlessStep
  <2>7. AllWritable(call) => Tail(f) \in Seq(Plain) /\ Written' \o Tail(f) = First(Texts(call), k)
    <3>1. f \in Seq(Plain) => Tail(f) \in Seq(Plain)
      BY <2>1, HeadFirst
    <3>2. Written \o f = (Written \o <<Head(f)>>) \o Tail(f)
      BY <2>1, <2>4, HeadFirst
    <3> QED
      BY <1>1, <2>4, <3>1, <3>2
  <2>8. current' >= current
    BY <1>1, <2>2 DEF sprintf_put
  <2> QED
    BY <1>4, <2>2, <2>3, <2>4, <2>5, <2>6, <2>7, <2>8
<1>6. CASE sprintf_directive
  <2>1. f # <<>> /\ Head(f) = "%" /\ UNCHANGED <<call, mode, len, printed, returned>>
    BY <1>3, <1>6 DEF sprintf_directive, AtSign
  <2> DEFINE d == Directive(f)
             g == SubSeq(f, d.used + 1, Len(f))
  <2>2. Conv = d.conv /\ d.conv \in {"%", "none"}
    BY <1>1, <1>3, <2>1, HarmlessStep DEF Conv, TakesArgument
  <2>3. g \in Seq(Chars) /\ Harmless(g)
    <3>1. 1 + d.used \in 1..(Len(f) + 1) /\ Harmless(g)
      BY <1>1, <2>1, HarmlessStep
    <3>2. d.used \in {2, 3, 4}
      BY DEF Directive
    <3> HIDE DEF d
    <3> QED
      BY <3>1, <3>2
  <2>4. OnTop(BehindDirective(Top)) = <<b, [format |-> g, args |-> <<>>, from |-> from]>>
    <3>1. BehindDirective(a) = [format |-> g, args |-> IF TakesArgument(d.conv) THEN Tail(<<>>) ELSE <<>>, from |-> from]
      BY BehindIs
    <3>2. ~TakesArgument(d.conv)
      BY <2>2 DEF TakesArgument
    <3> HIDE DEF a, d, g
    <3> QED
      BY <1>2, <3>1, <3>2
  <2>5. ~AllWritable(call)
    <3>1. f \notin Seq(Plain)
      <4>1. f \in Seq(Plain) => Head(f) \in Plain
        BY <2>1, HeadFirst
      <4> QED
        BY <2>1, <4>1 DEF Plain
    <3> QED
      BY <1>1, <3>1
  <2> HIDE DEF d, g
  <2>6. CASE Conv = "%"
    <3>1. sprintf_put("%") /\ frames' = OnTop(BehindDirective(Top))
      BY <1>6, <2>6 DEF sprintf_directive
    <3>2. "%" \in Chars
      BY FormatAssumption
    <3>3. Memory' /\ current' >= current
      <4>1. Memory'
        BY ONLY <1>1, <3>1, <3>2, PutIs
      <4> QED
        BY <1>1, <3>1, <4>1 DEF sprintf_put
    <3> QED
      BY <1>4, <2>1, <2>3, <2>4, <2>5, <3>1, <3>3
  <2>7. CASE Conv = "none"
    <3>1. mem' = mem /\ current' = current /\ frames' = OnTop(BehindDirective(Top))
      BY <1>6, <2>7 DEF sprintf_directive
    <3>2. Memory' /\ current' >= current
      BY <1>1, <3>1 DEF Memory
    <3> QED
      BY <1>4, <2>1, <2>3, <2>4, <2>5, <3>1, <3>2
  <2> QED
    BY <2>2, <2>6, <2>7
<1>7. CASE sprintf_return
  <2>1. f = <<>> /\ Write("NUL") /\ frames' = <<b>> /\ UNCHANGED <<call, mode, len, printed, current, returned>>
    BY <1>2, <1>3, <1>7 DEF sprintf_return
  <2>2. /\ mem' \in Seq(Chars \cup {"NUL"})
        /\ \A i \in 1..current : mem'[i] \in Chars
        /\ SubSeq(mem', 1, current) = Written /\ Written \in Seq(Chars)
        /\ current \in 0..Len(mem')
    BY <1>1, <2>1, EndIs
  <2>3. Memory' /\ Written' = Written
    BY <2>1, <2>2 DEF Memory, Written
  <2>4. AllWritable(call) => Written' = First(Texts(call), k)
    <3>1. Written \o <<>> = Written
      BY <2>2, ConcatEmptySeq
    <3> QED
      BY <1>1, <2>1, <2>3, <3>1
  <2>5. AtItem(k)'
    BY <2>1, <2>4 DEF AtItem, b
  <2> QED
    BY <2>1, <2>3, <2>5, SprintfGoesOn
<1> QED
  BY <1>5, <1>6, <1>7 DEF sprintf

\* The inductive invariant: between any two steps of vprintf and sprintf the call
\* under way stands at the beginning of an item, with the arguments of the items
\* left, or in the text of the last one.
THEOREM InOrderInvariant == Spec => []InOrder
<1>1. InOrder /\ [Next]_vars => InOrder'
  <2> SUFFICES ASSUME InOrder, [Next]_vars PROVE InOrder'
    OBVIOUS
  <2>1. CASE vprintf
    BY <2>1, VprintfKeeps
  <2>2. CASE sprintf
    <3>1. mode = "sprintf"
      BY <2>2 DEF sprintf, sprintf_char, sprintf_directive, sprintf_return
    <3>2. PICK k \in 0..Len(call) :
             AtItem(k) \/ \E f \in Seq(Chars), from \in 0..current : InArgument(k, f, from)
      BY <3>1 DEF InOrder, InSprintf
    <3> QED
      BY <2>2, <3>1, <3>2, ItemKeeps, ArgumentKeeps
  <2>3. CASE UNCHANGED vars
    <3>1. Stored' /\ InVprintf' /\ AllPrinted' /\ AllWritten'
      BY <2>3 DEF InOrder, Stored, Memory, InVprintf, AllPrinted, AllWritten, Written, vars
    <3>2. InSprintf'
      BY <2>3 DEF InOrder, InSprintf, AtItem, InArgument, Written, vars
    <3> QED
      BY <3>1, <3>2 DEF InOrder
  <2> QED
    BY <2>1, <2>2, <2>3 DEF Next
<1> QED
  BY <1>1, InitInOrder, PTL DEF Spec

-----------------------------------------------------------------------------
(* The theorems *)

\* At most two calls are under way and what they return are the lengths of
\* their texts; one NUL is behind the text in memory.
THEOREM Lengths == Spec => []FormatInv
<1>1. InOrder => FormatInv
  <2> SUFFICES ASSUME InOrder PROVE FormatInv
    OBVIOUS
  <2>1. Stored /\ Memory /\ current \in 0..Len(mem) /\ current \in Nat
    BY DEF InOrder, Stored, Memory
  <2>2. CASE mode = "vprintf"
    <3>1. PICK k \in 0..Len(call) : frames = <<Before(call, k)>>
      BY <2>2 DEF InOrder, InVprintf
    <3>2. Len(frames) = 1 /\ DOMAIN frames = {1} /\ frames[1].from = 0 /\ returned = -1
      BY <2>2, <3>1 DEF Before, InOrder, InVprintf
    <3> QED
      BY <2>1, <2>2, <3>2 DEF FormatInv, TypeOK, LengthReturned, Stored
  <2>3. CASE mode = "sprintf"
    <3>1. PICK k \in 0..Len(call) :
             AtItem(k) \/ \E f \in Seq(Chars), from \in 0..current : InArgument(k, f, from)
      BY <2>3 DEF InOrder, InSprintf
    <3>2. returned = -1
      BY <2>3 DEF InOrder, InSprintf
    <3>3. CASE AtItem(k)
      <4>1. Len(frames) = 1 /\ DOMAIN frames = {1} /\ frames[1].from = 0
        BY <3>3 DEF Before, AtItem
      <4> QED
        BY <2>1, <2>3, <3>2, <4>1 DEF FormatInv, TypeOK, LengthReturned, Stored
    <3>4. CASE \E f \in Seq(Chars), from \in 0..current : InArgument(k, f, from)
      <4>1. PICK f \in Seq(Chars), from \in 0..current : InArgument(k, f, from)
        BY <3>4
      <4>2. Len(frames) = 2 /\ DOMAIN frames = {1, 2} /\ frames[1].from = 0 /\ frames[2].from = from
        BY <4>1 DEF Before, InArgument
      <4> QED
        BY <2>1, <2>3, <3>2, <4>2 DEF FormatInv, TypeOK, LengthReturned, Stored
    <3> QED
      BY <3>1, <3>3, <3>4
  <2>4. CASE mode = "done"
    <3>1. frames = <<>> /\ returned = current /\ Len(mem) = current + 1 /\ mem[current + 1] = "NUL"
      BY <2>4 DEF InOrder, AllWritten
    <3>2. ASSUME NEW i \in DOMAIN mem PROVE mem[i] = "NUL" <=> i = current + 1
      <4>1. i \in 1..(current + 1)
        BY <2>1, <3>1 DEF Memory
      <4>2. ASSUME i # current + 1 PROVE mem[i] \in Chars /\ "NUL" \notin Chars
        <5>1. i \in 1..current
          BY <2>1, <4>1, <4>2
        <5>2. \A j \in 1..current : mem[j] \in Chars
          BY <2>1 DEF Memory
        <5>3. "NUL" \notin Chars
          BY FormatAssumption
        <5> QED
          BY <5>1, <5>2, <5>3
      <4> QED
        BY <3>1, <4>2
    <3> QED
      BY <2>1, <2>4, <3>1, <3>2 DEF FormatInv, TypeOK, LengthReturned, Stored
  <2> QED
    BY <2>1, <2>2, <2>3, <2>4 DEF Stored
<1> QED
  BY <1>1, InOrderInvariant, PTL

\* sprintf leaves in memory what vprintf has printed for the same call: its own
\* conversions and its calls of itself change nothing of what is writable.
THEOREM Agreement == Spec => []SprintfAgrees
<1>1. InOrder => SprintfAgrees
  BY DEF InOrder, AllWritten, AllPrinted, SprintfAgrees, AllWritable, Written
<1> QED
  BY <1>1, InOrderInvariant, PTL

-----------------------------------------------------------------------------
(* Digits by repeated division are the digits by place                     *)

LEMMA QuotientBounds ==
    ASSUME NEW n \in Nat, NEW d \in Nat \ {0}, NEW c \in Nat
    PROVE  /\ d * c <= n <=> c <= n \div d
           /\ n < d * c <=> n \div d < c
<1> DEFINE q == n \div d
           r == n % d
<1>1. q \in Nat /\ r \in 0..(d - 1) /\ n = d * q + r
  BY Quotient
<1> HIDE DEF q, r
<1>2. d * (q + 1) = d * q + d /\ d * q \in Nat /\ d * c \in Nat
  BY <1>1
<1>3. ASSUME c <= q PROVE d * c <= n
  <2>1. d * c <= d * q
    BY <1>1, <1>3, FactorOrder
  <2> QED
    BY <1>1, <1>2, <2>1
<1>4. ASSUME ~(c <= q) PROVE n < d * c
  <2>1. q + 1 <= c /\ q + 1 \in Nat
    BY <1>1, <1>4
  <2>2. d * (q + 1) <= d * c
    BY <2>1, FactorOrder
  <2> QED
    BY <1>1, <1>2, <2>2
<1>5. (d * c <= n <=> ~(n < d * c)) /\ (c <= q <=> ~(q < c))
  BY <1>1, <1>2
<1> QED
  BY <1>3, <1>4, <1>5 DEF q

LEMMA QuotientOfQuotient ==
    ASSUME NEW n \in Nat, NEW a \in Nat \ {0}, NEW b \in Nat \ {0}
    PROVE  (n \div a) \div b = n \div (a * b)
<1> DEFINE q == n \div a
           r == n % a
           p == q \div b
           s == q % b
           ab == a * b
           t == a * s + r
<1>1. q \in Nat /\ r \in 0..(a - 1) /\ n = a * q + r
  BY Quotient
<1> HIDE DEF q, r
<1>2. p \in Nat /\ s \in 0..(b - 1) /\ q = b * p + s
  BY <1>1, Quotient
<1> HIDE DEF p, s
<1>3. n = ab * p + t
  <2>1. a * (b * p + s) = (a * b) * p + a * s
    BY <1>1, <1>2
  <2> QED
    BY <1>1, <1>2, <2>1
<1>4. t \in 0..(ab - 1) /\ ab \in Nat \ {0}
  <2>1. ab \in Nat \ {0} /\ a * s \in Nat /\ b - 1 \in Nat /\ s \in Nat
    BY <1>2
  <2>2. a * s <= a * (b - 1)
    BY <1>2, <2>1, FactorOrder
  <2>3. a * (b - 1) = ab - a
    OBVIOUS
  <2> QED
    BY <1>1, <2>1, <2>2, <2>3
<1> HIDE DEF ab, t
<1>5. n \div ab = p
  BY <1>2, <1>3, <1>4, QuotientIs
<1> QED
  BY <1>5 DEF p, q, ab

LEMMA HexDigit10 ==
    ASSUME NEW d \in 0..9, NEW u
    PROVE  HexDigit(d, u) = Digit(d)
BY DEF HexDigit

\* A number that has k decimals is written with the digits of its k places.
LEMMA DecimalPlaces ==
    ASSUME NEW k \in Nat, NEW n \in Nat, Pow(10, k) <= n, n < Pow(10, k + 1)
    PROVE  Decimal[n] = Positional(n, 10, k + 1, FALSE)
<1> DEFINE Good == {j \in Nat : \A m \in Nat : Pow(10, j) <= m /\ m < Pow(10, j + 1) =>
                                   Decimal[m] = Positional(m, 10, j + 1, FALSE)}
<1>1. /\ Pow(10, 0) = 1
      /\ \A j \in Nat : Pow(10, j) \in Nat \ {0} /\ Pow(10, j + 1) = 10 * Pow(10, j)
  BY 10 \in Nat, 10 \in Nat \ {0}, PowIs, PowPositive
<1>2. 0 \in Good
  <2>1. ASSUME NEW m \in Nat, 1 <= m, m < 10
        PROVE  Decimal[m] = Positional(m, 10, 1, FALSE)
    <3>1. Tenth(m) = 0 /\ LastDigit(m) = m
      <4>1. m \div 10 = 0 /\ m % 10 = m
        BY <2>1
      <4> QED
        BY ONLY <2>1, <4>1, m \in Int, Tenths
    <3>2. Decimal[m] = Append(<<>>, Digit(m))
      BY <2>1, <3>1, DecimalIs
    <3>3. Decimal[m] = <<Digit(m)>>
      BY <3>2, FramesAre
    <3>4. m \div Pow(10, 1 - 1) = m /\ m % 10 = m
      <4>1. m \div 1 = m /\ m % 10 = m /\ 1 - 1 = 0
        BY <2>1
      <4> QED
        BY ONLY <1>1, <4>1
    <3>5. Positional(m, 10, 1, FALSE) = [i \in 1..1 |-> HexDigit((m \div Pow(10, 1 - i)) % 10, FALSE)]
      BY DEF Positional
    <3>6. HexDigit(m, FALSE) = Digit(m)
      BY <2>1, m \in 0..9, HexDigit10
    <3>7. Positional(m, 10, 1, FALSE) = [i \in 1..1 |-> Digit(m)]
      <4>1. ASSUME NEW i \in 1..1 PROVE HexDigit((m \div Pow(10, 1 - i)) % 10, FALSE) = Digit(m)
        <5>1. i = 1
          OBVIOUS
        <5> QED
          BY ONLY <3>4, <3>6, <5>1
      <4> QED
        BY ONLY <3>5, <4>1
    <3>8. [i \in 1..1 |-> Digit(m)] = <<Digit(m)>>
      OBVIOUS
    <3> QED
      BY <3>3, <3>7, <3>8
  <2>2. Pow(10, 0) = 1 /\ Pow(10, 0 + 1) = 10 /\ 0 + 1 = 1
    BY <1>1
  <2>3. \A m \in Nat : Pow(10, 0) <= m /\ m < Pow(10, 0 + 1) => Decimal[m] = Positional(m, 10, 0 + 1, FALSE)
    BY ONLY <2>1, <2>2
  <2> QED
    BY ONLY <2>3, 0 \in Nat
<1>3. ASSUME NEW j \in Nat, j \in Good PROVE j + 1 \in Good
  <2>1. ASSUME NEW m \in Nat, Pow(10, j + 1) <= m, m < Pow(10, (j + 1) + 1)
        PROVE  Decimal[m] = Positional(m, 10, (j + 1) + 1, FALSE)
    <3> DEFINE t == m \div 10
               l == m % 10
               p == Positional(t, 10, j + 1, FALSE)
               w == Positional(m, 10, (j + 1) + 1, FALSE)
    <3>1. Pow(10, j + 1) = 10 * Pow(10, j) /\ Pow(10, (j + 1) + 1) = 10 * Pow(10, j + 1)
          /\ Pow(10, j) \in Nat /\ Pow(10, j + 1) \in Nat
      BY <1>1, j + 1 \in Nat
    <3>2. t \in Nat /\ l \in 0..9 /\ Pow(10, j) <= t /\ t < Pow(10, j + 1)
      BY <2>1, <3>1
    <3>3. m > 0
      BY <2>1, <1>1, j + 1 \in Nat
    <3>4. Tenth(m) = t /\ LastDigit(m) = l
      BY <3>3, Tenths
    <3>5. Decimal[m] = Append(Decimal[t], Digit(l))
      BY <3>3, <3>4, DecimalIs
    <3>6. Decimal[t] = p
      BY <1>3, <3>2
    <3>7. p \in Seq(Plain)
      <4> HIDE DEF p, t
      <4>1. t \in Int
        BY <3>2
      <4> QED
        BY ONLY <3>6, <4>1, DecimalIs
    <3>8. p = [i \in 1..(j + 1) |-> HexDigit((t \div Pow(10, (j + 1) - i)) % 10, FALSE)]
      BY DEF Positional
    <3>9. w = [i \in 1..((j + 1) + 1) |-> HexDigit((m \div Pow(10, ((j + 1) + 1) - i)) % 10, FALSE)]
      BY DEF Positional
    <3>10. ASSUME NEW i \in 1..(j + 1) PROVE w[i] = p[i]
      <4> DEFINE e == (j + 1) - i
      <4>1. e \in Nat /\ ((j + 1) + 1) - i = e + 1
        OBVIOUS
      <4> HIDE DEF e
      <4>2. Pow(10, e) \in Nat \ {0} /\ Pow(10, e + 1) = 10 * Pow(10, e)
        BY <1>1, <4>1
      <4>3. t \div Pow(10, e) = m \div Pow(10, e + 1)
        BY <4>2, QuotientOfQuotient
      <4>4. p[i] = HexDigit((t \div Pow(10, e)) % 10, FALSE)
        BY <3>8 DEF e
      <4>5. w[i] = HexDigit((m \div Pow(10, e + 1)) % 10, FALSE)
        <5>1. i \in 1..((j + 1) + 1)
          OBVIOUS
        <5>2. w[i] = HexDigit((m \div Pow(10, ((j + 1) + 1) - i)) % 10, FALSE)
          <6> HIDE DEF w
          <6> QED
            BY ONLY <3>9, <5>1
        <5> QED
          BY ONLY <4>1, <5>2
      <4> QED
        BY <4>3, <4>4, <4>5
    <3>11. w[(j + 1) + 1] = Digit(l)
      <4>1. ((j + 1) + 1) - ((j + 1) + 1) = 0 /\ (j + 1) + 1 \in 1..((j + 1) + 1) /\ m \div 1 = m
        OBVIOUS
      <4>2. w[(j + 1) + 1] = HexDigit(l, FALSE)
        BY <1>1, <3>9, <4>1
      <4> QED
        BY <3>2, <4>2, HexDigit10
    <3>12. Len(p) = j + 1
      <4> HIDE DEF p, t
      <4>1. DOMAIN p = 1..(j + 1)
        BY ONLY <3>8
      <4>2. j + 1 \in Nat /\ j + 1 # 0
        OBVIOUS
      <4>3. p \in Seq(Plain)
        BY ONLY <3>7
      <4> QED
        BY ONLY <4>1, <4>2, <4>3
    <3>13. Digit(l) \in Plain
      BY <3>2, Values10
    <3> DEFINE x == Append(p, Digit(l))
    <3> HIDE DEF p, w, t, l
    <3>14. x \in Seq(Plain) /\ Len(x) = (j + 1) + 1
      BY ONLY <3>7, <3>12, <3>13, AppendProperties
    <3>15. \A i \in 1..Len(p) : x[i] = p[i]
      BY ONLY <3>7, <3>13, AppendProperties
    <3>16. x[Len(p) + 1] = Digit(l)
      BY ONLY <3>7, <3>13, AppendProperties
    <3> HIDE DEF x
    <3>17. \A i \in 1..((j + 1) + 1) : x[i] = w[i]
      <4> TAKE i \in 1..((j + 1) + 1)
      <4>1. i \in 1..(j + 1) \/ i = (j + 1) + 1
        OBVIOUS
      <4> QED
        BY <3>10, <3>11, <3>12, <3>15, <3>16, <4>1
    <3>18. x = [i \in 1..((j + 1) + 1) |-> x[i]]
      BY <3>14
    <3>19. w = [i \in 1..((j + 1) + 1) |-> w[i]]
      BY <3>9
    <3>20. x = w
      BY ONLY <3>17, <3>18, <3>19
    <3> QED
      BY <3>5, <3>6, <3>20 DEF x, w
  <2>2. j + 1 \in Nat
    OBVIOUS
  <2> QED
    BY ONLY <2>1, <2>2
<1>4. Nat \subseteq Good
  <2> HIDE DEF Good
  <2> QED
    BY ONLY <1>2, <1>3, Induction
<1>5. k \in Good
  <2> HIDE DEF Good
  <2> QED
    BY <1>4
<1> QED
  BY <1>5

-----------------------------------------------------------------------------
(* The reference                                                           *)

LEMMA PowFacts ==
    ASSUME NEW b \in {10, 16}
    PROVE  /\ Pow(b, 0) = 1
           /\ \A n \in Nat : Pow(b, n) \in Nat \ {0} /\ Pow(b, n + 1) = b * Pow(b, n)
           /\ \A n \in Nat, k \in Nat : n <= k => Pow(b, n) <= Pow(b, k)
<1>1. b \in Nat /\ b \in Nat \ {0}
  OBVIOUS
<1>2. /\ Pow(b, 0) = 1
      /\ \A n \in Nat : Pow(b, n) \in Nat \ {0} /\ Pow(b, n + 1) = b * Pow(b, n)
  BY ONLY <1>1, PowIs, PowPositive
<1>3. ASSUME NEW n \in Nat, NEW k \in Nat, n <= k PROVE Pow(b, n) <= Pow(b, k)
  <2> DEFINE d == k - n
  <2>1. d \in Nat /\ k = n + d
    BY <1>3
  <2> HIDE DEF d
  <2>2. Pow(b, n) <= Pow(b, n + d)
    BY ONLY <1>1, <2>1, n \in Nat, PowMonotone
  <2> QED
    BY ONLY <2>1, <2>2
<1> QED
  BY ONLY <1>2, <1>3

\* Twice as many decimals as hexadecimal digits are enough.
LEMMA DecimalsEnough ==
    \A n \in Nat : Pow(16, n) <= Pow(10, 2 * n)
<1> DEFINE S == {n \in Nat : Pow(16, n) <= Pow(10, 2 * n)}
<1>1. /\ Pow(16, 0) = 1 /\ Pow(10, 0) = 1
      /\ \A n \in Nat : Pow(16, n) \in Nat /\ Pow(16, n + 1) = 16 * Pow(16, n)
      /\ \A n \in Nat : Pow(10, n) \in Nat /\ Pow(10, n + 1) = 10 * Pow(10, n)
  BY PowFacts
<1>2. 0 \in S
  <2>1. 2 * 0 = 0 /\ 0 \in Nat
    OBVIOUS
  <2> QED
    BY <1>1, <2>1
<1>3. ASSUME NEW n \in Nat, n \in S PROVE n + 1 \in S
  <2> DEFINE m == 2 * n
  <2>1. m \in Nat /\ m + 1 \in Nat /\ 2 * (n + 1) = (m + 1) + 1
    OBVIOUS
  <2>2. Pow(16, n) <= Pow(10, m)
    BY <1>3
  <2> HIDE DEF m
  <2>3. Pow(10, (m + 1) + 1) = 10 * Pow(10, m + 1) /\ Pow(10, m + 1) = 10 * Pow(10, m) /\ Pow(10, m) \in Nat
    BY ONLY <1>1, <2>1
  <2>4. Pow(16, n) \in Nat /\ Pow(16, n + 1) = 16 * Pow(16, n)
    BY <1>1
  <2>5. \A x, y \in Nat : x <= y => 16 * x <= 10 * (10 * y)
    OBVIOUS
  <2>6. Pow(16, n + 1) <= Pow(10, (m + 1) + 1)
    BY ONLY <2>2, <2>3, <2>4, <2>5
  <2>7. Pow(16, n + 1) <= Pow(10, 2 * (n + 1)) /\ n + 1 \in Nat
    BY ONLY <2>1, <2>6, n + 1 \in Nat
  <2> QED
    BY <2>7
<1>4. Nat \subseteq S
  <2> HIDE DEF S
  <2> QED
    BY ONLY <1>2, <1>3, Induction
<1> QED
  BY <1>4

\* Every number of a long long has a number of digits.
LEMMA PlacesIs ==
    ASSUME NEW n \in Nat, n < LongMod, NEW b \in {10, 16}
    PROVE  LET k == Places(n, b)
           IN  k \in Nat \ {0} /\ n < Pow(b, k) /\ (k = 1 \/ n >= Pow(b, k - 1))
<1> DEFINE L == 2 * LongDigits
           K == {k \in Nat \ {0} : n < Pow(b, k)}
<1>1. LongDigits \in Nat /\ LongDigits # 0 /\ L \in Nat \ {0}
  BY FormatAssumption
<1>2. /\ \A j \in Nat : Pow(b, j) \in Nat
      /\ \A i \in Nat, j \in Nat : i <= j => Pow(b, i) <= Pow(b, j)
  BY PowFacts
<1>3. L \in K
  <2>1. LongMod <= Pow(b, L)
    <3>1. CASE b = 10
      BY <1>1, <3>1, DecimalsEnough DEF LongMod
    <3>2. CASE b = 16
      <4>1. Pow(16, LongDigits) <= Pow(16, L)
        BY <1>1, <1>2, <3>2
      <4> QED
        BY <3>2, <4>1 DEF LongMod
    <3> QED
      BY <3>1, <3>2
  <2>2. Pow(b, L) \in Nat /\ LongMod \in Nat
    BY <1>1, <1>2, Moduli
  <2>3. n < Pow(b, L)
    BY <2>1, <2>2
  <2> QED
    BY <1>1, <2>3
<1>4. PICK k \in K : \A j \in K : k <= j
  <2>1. K \subseteq Nat /\ K # {}
    BY <1>3
  <2> HIDE DEF K
  <2> QED
    BY ONLY <2>1, LeastNatural
<1>5. k \in 1..L
  BY <1>1, <1>3, <1>4
<1>6. ASSUME k # 1 PROVE n >= Pow(b, k - 1)
  <2>1. k - 1 \in Nat \ {0} /\ ~(k <= k - 1)
    BY <1>4, <1>6
  <2>2. k - 1 \notin K
    BY <1>4, <2>1
  <2>3. ~(n < Pow(b, k - 1)) /\ Pow(b, k - 1) \in Nat
    BY <1>2, <2>1, <2>2
  <2> QED
    BY <2>3
<1>7. n < Pow(b, k)
  BY <1>4
<1>8. \E j \in 1..L : n < Pow(b, j) /\ (j = 1 \/ n >= Pow(b, j - 1))
  BY <1>5, <1>6, <1>7
<1>9. Places(n, b) = CHOOSE j \in 1..L : n < Pow(b, j) /\ (j = 1 \/ n >= Pow(b, j - 1))
  BY DEF Places
<1>10. Places(n, b) \in 1..L /\ n < Pow(b, Places(n, b)) /\ (Places(n, b) = 1 \/ n >= Pow(b, Places(n, b) - 1))
  <2> HIDE DEF L
  <2> QED
    BY <1>8, <1>9, Zenon
<1> QED
  BY <1>1, <1>10

\* The decimals of a long long are those of its places.
LEMMA DecimalReference ==
    ASSUME NEW n \in Nat, n < LongMod
    PROVE  utoa(n) = Number(n, 10, FALSE)
<1> DEFINE k == Places(n, 10)
<1>1. k \in Nat \ {0} /\ n < Pow(10, k) /\ (k = 1 \/ n >= Pow(10, k - 1))
  BY PlacesIs
<1>2. Number(n, 10, FALSE) = Positional(n, 10, k, FALSE)
  BY DEF Number
<1> HIDE DEF k
<1>3. /\ Pow(10, 0) = 1
      /\ \A j \in Nat : Pow(10, j) \in Nat \ {0}
      /\ \A i \in Nat, j \in Nat : i <= j => Pow(10, i) <= Pow(10, j)
  BY PowFacts
<1>4. CASE n = 0
  <2>1. k = 1
    <3>1. ASSUME k # 1 PROVE FALSE
      <4>1. k - 1 \in Nat /\ n >= Pow(10, k - 1)
        BY <1>1, <3>1
      <4>2. Pow(10, k - 1) \in Nat \ {0}
        BY <1>3, <4>1
      <4> QED
        BY <1>4, <4>1, <4>2
    <3> QED
      BY <3>1
  <2>2. Positional(0, 10, 1, FALSE) = [i \in 1..1 |-> HexDigit((0 \div Pow(10, 1 - i)) % 10, FALSE)]
    BY DEF Positional
  <2>3. ASSUME NEW i \in 1..1 PROVE HexDigit((0 \div Pow(10, 1 - i)) % 10, FALSE) = "0"
    <3>1. i = 1 /\ 1 - 1 = 0 /\ (0 \div 1) % 10 = 0
      OBVIOUS
    <3>2. (0 \div Pow(10, 1 - i)) % 10 = 0
      BY ONLY <1>3, <3>1
    <3>3. HexDigit(0, FALSE) = "0"
      BY 0 \in 0..15, FALSE \in BOOLEAN, Values16
    <3> QED
      BY <3>2, <3>3
  <2>4. Positional(0, 10, 1, FALSE) = [i \in 1..1 |-> "0"]
    BY ONLY <2>2, <2>3
  <2>5. [i \in 1..1 |-> "0"] = <<"0">>
    OBVIOUS
  <2> QED
    BY <1>2, <1>4, <2>1, <2>4, <2>5 DEF utoa
<1>5. CASE n # 0
  <2> DEFINE j == k - 1
  <2>1. j \in Nat /\ k = j + 1
    BY <1>1
  <2>2. n < Pow(10, j + 1)
    BY ONLY <1>1, <2>1
  <2>3. Pow(10, j) <= n
    <3>1. CASE k = 1
      <4>1. j = 0
        BY <3>1
      <4>2. Pow(10, j) = 1
        BY ONLY <1>3, <4>1
      <4> QED
        BY <1>5, <4>2
    <3>2. CASE k # 1
      <4>1. n >= Pow(10, j) /\ Pow(10, j) \in Nat
        BY <1>1, <1>3, <2>1, <3>2
      <4> QED
        BY <4>1
    <3> QED
      BY <3>1, <3>2
  <2> HIDE DEF j
  <2>4. Decimal[n] = Positional(n, 10, j + 1, FALSE)
    BY <2>1, <2>2, <2>3, DecimalPlaces
  <2>5. utoa(n) = Decimal[n]
    BY <1>5 DEF utoa
  <2> QED
    BY ONLY <1>2, <2>1, <2>4, <2>5
<1> QED
  BY <1>4, <1>5

\* What is left of the hexadecimal digits without the leading zeros are those
\* of the places of the number.
LEMMA HexReference ==
    ASSUME NEW n \in Nat, n < LongMod, NEW u \in BOOLEAN
    PROVE  itoh(n, u) = Number(n, 16, u)
<1> DEFINE L == LongDigits
           k == Places(n, 16)
           s == Nibbles(n, L, u)
           p == Positional(n, 16, k, u)
           z == L - k + 1
           keep == {i \in 1..Len(s) : s[i] # "0"} \cup {Len(s)}
           P(j) == Pow(16, j)
<1>1. L \in Nat \ {0} /\ LongMod = P(L)
  BY FormatAssumption DEF LongMod
<1>2. k \in Nat \ {0} /\ n < P(k) /\ (k = 1 \/ n >= P(k - 1))
  BY PlacesIs
<1>3. s \in Seq(Plain) /\ Len(s) = L /\ \A i \in 1..L : s[i] = HexDigit((n \div P(L - i)) % 16, u)
  BY <1>1, NibblesType
<1>4. p = [i \in 1..k |-> HexDigit((n \div P(k - i)) % 16, u)] /\ Number(n, 16, u) = p
  BY DEF Positional, Number
<1>5. itoh(n, u) = SubSeq(s, Min(keep), Len(s))
  BY DEF itoh, Stripped
<1> HIDE DEF L, k, s, p
<1>6. /\ P(0) = 1
      /\ \A j \in Nat : P(j) \in Nat \ {0} /\ P(j + 1) = 16 * P(j)
      /\ \A i \in Nat, j \in Nat : i <= j => P(i) <= P(j)
  BY PowFacts
<1> HIDE DEF P
<1>7. k <= L
  <2>1. ASSUME k > L PROVE FALSE
    <3>1. k - 1 \in Nat /\ L \in Nat /\ L <= k - 1 /\ k # 1
      BY <1>1, <1>2, <2>1
    <3>2. P(L) <= P(k - 1) /\ P(k - 1) \in Nat /\ P(L) \in Nat /\ n >= P(k - 1) /\ n < P(L)
      BY <1>1, <1>2, <1>6, <3>1
    <3> QED
      BY <3>2
  <2> QED
    BY <1>1, <1>2, <2>1
<1>8. z \in 1..L /\ L - z = k - 1 /\ k - 1 \in Nat
  BY <1>1, <1>2, <1>7
<1>9. ASSUME NEW i \in 1..(z - 1) PROVE s[i] = "0" /\ i # L
  <2> DEFINE e == L - i
  <2>1. i \in 1..L /\ i # L /\ e \in Nat /\ k \in Nat /\ k <= e
    BY <1>1, <1>2, <1>7
  <2> HIDE DEF e
  <2>2. P(k) <= P(e) /\ P(e) \in Nat \ {0} /\ P(k) \in Nat
    BY ONLY <1>6, <2>1
  <2>3. n < P(e) * 1
    BY <1>2, <2>2
  <2>4. n \div P(e) < 1
    BY ONLY <2>2, <2>3, n \in Nat, 1 \in Nat, QuotientBounds
  <2>5. n \div P(e) \in Nat
    BY ONLY <2>2, n \in Nat, Quotient
  <2>6. (n \div P(e)) % 16 = 0
    BY <2>4, <2>5
  <2>7. HexDigit(0, u) = "0"
    BY 0 \in 0..15, Values16
  <2>8. s[i] = HexDigit((n \div P(e)) % 16, u)
    BY ONLY <1>3, <2>1 DEF e
  <2> QED
    BY ONLY <2>1, <2>6, <2>7, <2>8
<1>10. ASSUME k # 1 PROVE s[z] # "0"
  <2> DEFINE e == k - 1
             q == n \div P(e)
  <2>1. e \in Nat /\ e + 1 = k /\ n >= P(e) /\ L - z = e
    BY <1>2, <1>8, <1>10
  <2> HIDE DEF e
  <2>2. P(e) \in Nat \ {0} /\ P(e + 1) = 16 * P(e)
    BY ONLY <1>6, <2>1
  <2>3. n < P(e) * 16 /\ P(e) * 1 <= n
    BY <1>2, <2>1, <2>2
  <2>4. q < 16
    BY ONLY <2>2, <2>3, n \in Nat, 16 \in Nat, QuotientBounds
  <2>5. 1 <= q
    BY ONLY <2>2, <2>3, n \in Nat, 1 \in Nat, QuotientBounds
  <2>6. q \in Nat
    BY ONLY <2>2, n \in Nat, Quotient
  <2> HIDE DEF q
  <2>7. q \in 0..15 /\ q # 0 /\ q % 16 = q
    BY <2>4, <2>5, <2>6
  <2>8. HexDigit(q, u) # "0"
    BY <2>7, Values16
  <2>9. s[z] = HexDigit(q % 16, u)
    BY ONLY <1>3, <1>8, <2>1 DEF q
  <2> QED
    BY ONLY <2>7, <2>8, <2>9
<1>11. Min(keep) = z
  <2>1. keep \subseteq Nat /\ keep # {} /\ keep \subseteq 1..L /\ L \in keep
    BY <1>1, <1>3
  <2>2. z \in keep
    <3>1. CASE k = 1
      BY <1>3, <1>8, <3>1
    <3>2. CASE k # 1
      BY <1>3, <1>8, <1>10, <3>2
    <3> QED
      BY <3>1, <3>2
  <2>3. \A i \in keep : ~(i < z)
    <3>1. \A i \in keep : s[i] # "0" \/ i = L
      BY <1>3
    <3>2. \A i \in keep : i < z => i \in 1..(z - 1)
      BY <1>8, <2>1
    <3> HIDE DEF keep, z
    <3> QED
      BY ONLY <1>9, <3>1, <3>2
  <2> HIDE DEF keep
  <2>4. Min(keep) \in keep /\ \A i \in keep : Min(keep) <= i
    BY ONLY <2>1, MinIs
  <2>5. Min(keep) <= z /\ ~(Min(keep) < z) /\ Min(keep) \in Nat /\ z \in Nat
    BY <1>8, <2>1, <2>2, <2>3, <2>4
  <2> HIDE DEF z
  <2> QED
    BY ONLY <2>5
<1> HIDE DEF keep
<1> DEFINE t == SubSeq(s, z, L)
<1>12. t \in Seq(Plain) /\ Len(t) = k /\ \A i \in 1..k : t[i] = s[z + i - 1]
  BY <1>1, <1>2, <1>3, <1>7
<1>13. ASSUME NEW i \in 1..k PROVE t[i] = p[i]
  <2>1. z + i - 1 \in 1..L /\ L - (z + i - 1) = k - i
    BY <1>1, <1>2, <1>7
  <2>2. t[i] = s[z + i - 1]
    BY <1>12
  <2>3. s[z + i - 1] = HexDigit((n \div P(L - (z + i - 1))) % 16, u)
    BY <1>3, <2>1
  <2>4. p[i] = HexDigit((n \div P(k - i)) % 16, u)
    BY <1>4
  <2> HIDE DEF z, t
  <2> QED
    BY ONLY <2>1, <2>2, <2>3, <2>4
<1> HIDE DEF t
<1>14. t = [i \in 1..k |-> t[i]] /\ p = [i \in 1..k |-> p[i]]
  BY <1>4, <1>12
<1>15. t = p
  BY ONLY <1>13, <1>14
<1> QED
  BY <1>3, <1>4, <1>5, <1>11, <1>15 DEF t

LEMMA SignedReference ==
    ASSUME NEW v \in Int, 2 * v > -LongMod, 2 * v < LongMod
    PROVE  itoa(v) = Sign(v) \o Number(Magnitude(v), 10, FALSE)
<1>1. LongMod \in Nat \ {0}
  BY Moduli
<1>2. Magnitude(v) \in Nat /\ Magnitude(v) < LongMod
  BY <1>1 DEF Magnitude
<1>3. Number(Magnitude(v), 10, FALSE) = utoa(Magnitude(v)) /\ utoa(Magnitude(v)) \in Seq(Plain)
  <2>1. Number(Magnitude(v), 10, FALSE) = utoa(Magnitude(v))
    BY <1>2, DecimalReference
  <2>2. Magnitude(v) \in Int
    BY <1>2
  <2>3. utoa(Magnitude(v)) \in Seq(Plain)
    BY <2>2, utoaType
  <2> QED
    BY ONLY <2>1, <2>3
<1>4. CASE v >= 0
  <2>1. Sign(v) = <<>> /\ Magnitude(v) = v /\ itoa(v) = utoa(v)
    BY <1>4 DEF Sign, Magnitude, itoa, utoa
  <2> QED
    BY <1>3, <2>1, ConcatEmptySeq
<1>5. CASE v < 0
  <2> DEFINE m == -v
  <2>1. m \in Nat \ {0} /\ 2 * m < LongMod
    BY <1>1, <1>5
  <2>2. Wrap(m) = m
    BY <1>1, <2>1 DEF Wrap, Signed
  <2>3. itoa(v) = <<"-">> \o Decimal[m]
    BY <1>5, <2>2 DEF itoa
  <2>4. utoa(m) = Decimal[m]
    BY <2>1 DEF utoa
  <2>5. Sign(v) = <<"-">> /\ Magnitude(v) = m
    BY <1>5 DEF Sign, Magnitude
  <2> HIDE DEF m
  <2> QED
    BY <1>3, <2>3, <2>4, <2>5
<1>6. v >= 0 \/ v < 0
  OBVIOUS
<1> QED
  BY ONLY <1>4, <1>5, <1>6

LEMMA UnsignedReference ==
    ASSUME NEW v \in Nat, v < LongMod
    PROVE  utoa(v) = Sign(v) \o Number(Magnitude(v), 10, FALSE)
<1>1. Sign(v) = <<>> /\ Magnitude(v) = v
  BY DEF Sign, Magnitude
<1>2. Number(v, 10, FALSE) = utoa(v) /\ utoa(v) \in Seq(Plain)
  <2>1. Number(v, 10, FALSE) = utoa(v)
    BY DecimalReference
  <2>2. utoa(v) \in Seq(Plain)
    BY v \in Int, utoaType
  <2> QED
    BY ONLY <2>1, <2>2
<1> QED
  BY <1>1, <1>2, ConcatEmptySeq

\* A fraction that does not begin with a zero has all its decimals.
LEMMA FloatReference ==
    ASSUME NEW v \in Int, Magnitude(v) <= (LongMod - 1) * Unit, 10 * (Magnitude(v) % Unit) >= Unit
    PROVE  ftoa(v) = Sign(v) \o Number(Magnitude(v) \div Unit, 10, FALSE) \o <<".">>
                        \o Positional(Magnitude(v) % Unit, 10, FloatDigits, FALSE)
<1> DEFINE m == Magnitude(v)
           w == m \div Unit
           r == m % Unit
<1>1. LongMod \in Nat \ {0} /\ Unit \in Nat \ {0} /\ FloatDigits \in Nat \ {0}
  BY Moduli, FormatAssumption
<1>2. m \in Nat
  BY DEF Magnitude
<1>3. ftoa(v) = Sign(v) \o utoa(w) \o <<".">> \o utoa(r) \o <<>>
  <2>1. (IF v < 0 THEN -v ELSE v) = m
    BY DEF Magnitude
  <2> HIDE DEF m
  <2>2. m <= (LongMod - 1) * Unit
    BY DEF m
  <2>3. <<m, 0>>[1] = m /\ <<m, 0>>[2] = 0 /\ ~(0 > 0)
    OBVIOUS
  <2> QED
    BY <2>1, <2>2, <2>3 DEF ftoa, Sign
<1>4. w \in Nat /\ r \in Nat /\ r < Unit /\ 10 * r >= Unit
  BY <1>1, <1>2
<1>5. w < LongMod
  <2>1. m < Unit * LongMod
    <3>1. (LongMod - 1) * Unit = Unit * LongMod - Unit /\ Unit * LongMod \in Nat
      BY <1>1
    <3>2. m <= (LongMod - 1) * Unit
      OBVIOUS
    <3> HIDE DEF m
    <3> QED
      BY <1>1, <1>2, <3>1, <3>2
  <2> HIDE DEF m
  <2> QED
    BY <1>1, <1>2, <2>1, QuotientBounds
<1> HIDE DEF m, w, r
<1>6. utoa(w) = Number(w, 10, FALSE)
  BY <1>4, <1>5, DecimalReference
<1>7. utoa(r) = Positional(r, 10, FloatDigits, FALSE)
  <2> DEFINE j == FloatDigits - 1
  <2>1. j \in Nat /\ FloatDigits = j + 1
    BY <1>1
  <2> HIDE DEF j
  <2>2. Unit = 10 * Pow(10, j) /\ Pow(10, j) \in Nat \ {0} /\ Unit = Pow(10, j + 1)
    BY <2>1, PowFacts DEF Unit
  <2>3. Pow(10, j) <= r /\ r < Pow(10, j + 1) /\ r # 0
    BY <1>4, <2>2
  <2>4. Decimal[r] = Positional(r, 10, j + 1, FALSE)
    BY <1>4, <2>1, <2>3, DecimalPlaces
  <2>5. utoa(r) = Decimal[r]
    BY <2>3 DEF utoa
  <2> QED
    BY ONLY <2>1, <2>4, <2>5
<1>8. Sign(v) \in Seq(Plain) /\ <<".">> \in Seq(Plain) /\ utoa(w) \in Seq(Plain) /\ utoa(r) \in Seq(Plain)
  <2>1. Sign(v) \in {<<>>, <<"-">>}
    BY DEF Sign
  <2>2. <<>> \in Seq(Plain) /\ <<"-">> \in Seq(Plain) /\ <<".">> \in Seq(Plain)
    BY PlainIs
  <2>3. utoa(w) \in Seq(Plain) /\ utoa(r) \in Seq(Plain)
    BY <1>4, utoaType
  <2> QED
    BY <2>1, <2>2, <2>3
<1>9. Sign(v) \o utoa(w) \o <<".">> \o utoa(r) \o <<>> = Sign(v) \o utoa(w) \o <<".">> \o utoa(r)
  <2>1. Sign(v) \o utoa(w) \o <<".">> \o utoa(r) \in Seq(Plain)
    BY <1>8, ConcatProperties
  <2> QED
    BY <2>1, ConcatEmptySeq
<1> QED
  BY <1>3, <1>6, <1>7, <1>9 DEF w, r, m

\* A printable item is printed as the C standard says.
LEMMA ItemReference ==
    ASSUME NEW item \in Items, Printable(item)
    PROVE  ItemText(item) = Reference(item)
<1> DEFINE conv == item.conv
           v    == item.args[1]
<1>1. CASE conv \in {"lit", "%", "none", "c"}
  BY <1>1 DEF ItemText, Reference
<1>2. CASE conv \notin {"lit", "%", "none", "c"}
  <2>1. conv \in Convs /\ v \in Values(conv)
    BY <1>2, ItemIs
  <2>2. ItemText(item) = Text(conv, v)
    BY <1>2 DEF ItemText
  <2>3. IntMod \in Nat \ {0} /\ LongMod \in Nat \ {0} /\ 2 * IntMod <= LongMod
    BY Moduli, LongIsLonger
  <2>4. CASE conv = "s"
    BY <2>2, <2>4 DEF Text, Reference
  <2>5. CASE conv \in {"d", "ld", "lld"}
    <3>1. v \in Int /\ 2 * v > -LongMod /\ 2 * v < LongMod
      <4>1. CASE conv \in {"d", "ld"}
        <5>1. v \in Int /\ 2 * v >= -IntMod /\ 2 * v < IntMod
          BY <2>1, <4>1 DEF Values
        <5> HIDE DEF v
        <5> QED
          BY <2>3, <5>1
      <4>2. CASE conv = "lld"
        <5>1. v \in Int /\ 2 * v >= -LongMod /\ 2 * v < LongMod
          BY <2>1, <4>2 DEF Values
        <5>2. 2 * v > -LongMod
          BY <4>2 DEF Printable
        <5> QED
          BY <5>1, <5>2
      <4> QED
        BY <2>5, <4>1, <4>2
    <3>2. Text(conv, v) = itoa(v)
      BY <2>5 DEF Text
    <3>3. Reference(item) = Sign(v) \o Number(Magnitude(v), 10, FALSE)
      BY <2>5 DEF Reference
    <3> HIDE DEF v
    <3> QED
      BY <2>2, <3>1, <3>2, <3>3, SignedReference
  <2>6. CASE conv \in {"u", "lu", "llu"}
    <3>1. v \in Nat /\ v < LongMod
      <4>1. v \in 0..(IntMod - 1) \/ v \in 0..(LongMod - 1)
        BY <2>1, <2>6 DEF Values
      <4> HIDE DEF v
      <4> QED
        BY <2>3, <4>1
    <3>2. Text(conv, v) = utoa(v)
      BY <2>6 DEF Text
    <3>3. Reference(item) = Sign(v) \o Number(Magnitude(v), 10, FALSE)
      BY <2>6 DEF Reference
    <3> HIDE DEF v
    <3> QED
      BY <2>2, <3>1, <3>2, <3>3, UnsignedReference
  <2>7. CASE conv \in {"x", "lx", "llx", "X", "lX", "llX"}
    <3>1. v \in Nat /\ v < LongMod
      <4>1. v \in 0..(IntMod - 1) \/ v \in 0..(LongMod - 1)
        BY <2>1, <2>7 DEF Values
      <4> HIDE DEF v
      <4> QED
        BY <2>3, <4>1
    <3>2. CASE conv \in {"x", "lx", "llx"}
      <4>1. Text(conv, v) = itoh(v, FALSE) /\ Reference(item) = Number(v, 16, FALSE)
        BY <3>2 DEF Text, Reference
      <4> HIDE DEF v
      <4> QED
        BY <2>2, <3>1, <4>1, HexReference
    <3>3. CASE conv \in {"X", "lX", "llX"}
      <4>1. Text(conv, v) = itoh(v, TRUE) /\ Reference(item) = Number(v, 16, TRUE)
        BY <3>3 DEF Text, Reference
      <4> HIDE DEF v
      <4> QED
        BY <2>2, <3>1, <4>1, HexReference
    <3> QED
      BY <2>7, <3>2, <3>3
  <2>8. CASE conv = "p"
    <3>1. Text(conv, v) = ptoa(v) /\ Reference(item) = <<"0", "x">> \o Positional(v, 16, IntDigits, FALSE)
      BY <2>8 DEF Text, Reference
    <3>2. Nibbles(v, IntDigits, FALSE) = Positional(v, 16, IntDigits, FALSE)
      BY DEF Nibbles, Positional
    <3> QED
      BY <2>2, <3>1, <3>2 DEF ptoa
  <2>9. CASE conv = "f"
    <3>1. v \in Int
      BY <2>1, <2>9, ValuesAre
    <3>2. Magnitude(v) <= (LongMod - 1) * Unit /\ 10 * (Magnitude(v) % Unit) >= Unit
      BY <2>9 DEF Printable
    <3>3. Text(conv, v) = ftoa(v)
      BY <2>9 DEF Text
    <3>4. Reference(item) = Sign(v) \o Number(Magnitude(v) \div Unit, 10, FALSE) \o <<".">>
                              \o Positional(Magnitude(v) % Unit, 10, FloatDigits, FALSE)
      BY <2>9 DEF Reference
    <3> HIDE DEF v
    <3> QED
      BY <2>2, <3>1, <3>2, <3>3, <3>4, FloatReference
  <2> QED
    BY <1>2, <2>1, <2>4, <2>5, <2>6, <2>7, <2>8, <2>9 DEF Convs
<1> QED
  BY <1>1, <1>2

\* Every printable argument is taken for its own directive, whatever is around
\* it, and printed as the C standard says.
THEOREM PrintedRight == Spec => []PrintsReference
<1>1. InOrder => PrintsReference
  <2> SUFFICES ASSUME InOrder, mode # "vprintf", \A i \in DOMAIN call : Printable(call[i])
               PROVE  printed = FlattenSeq([i \in DOMAIN call |-> Reference(call[i])])
    BY DEF PrintsReference
  <2>1. call \in Seq(Items) /\ printed = FlattenSeq(Texts(call))
    BY DEF InOrder, Stored, AllPrinted
  <2>2. \A i \in DOMAIN call : ItemText(call[i]) = Reference(call[i])
    <3> TAKE i \in DOMAIN call
    <3>1. call[i] \in Items /\ Printable(call[i])
      BY <2>1
    <3> QED
      BY ONLY <3>1, ItemReference
  <2>3. Texts(call) = [i \in DOMAIN call |-> Reference(call[i])]
    BY <2>2 DEF Texts
  <2> QED
    BY <2>1, <2>3
<1> QED
  BY <1>1, InOrderInvariant, PTL

=============================================================================
